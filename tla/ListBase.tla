------------------------------ MODULE ListBase ------------------------------
(***************************************************************************)
(* The heads and the elements of the lists of queue.h, and what putting an *)
(* element in at a position and taking one out make of a sequence.         *)
(***************************************************************************)
EXTENDS Integers, Sequences, FiniteSets

CONSTANTS Queue,  \* list heads
          Elem,   \* elements
          NULL

ASSUME ListAssumption ==
  /\ Queue \cap Elem = {} /\ NULL \notin Queue \cup Elem
  /\ IsFiniteSet(Elem)

(* What holds a pointer: a head, or an element through its link field.     *)
Loc == Queue \cup Elem

Members(s) == {s[i] : i \in DOMAIN s}

PutIn(s, p, e) == SubSeq(s, 1, p - 1) \o <<e>> \o SubSeq(s, p, Len(s))

TakeOut(s, p) == SubSeq(s, 1, p - 1) \o SubSeq(s, p + 1, Len(s))

Backwards(s) == [i \in 1..Len(s) |-> s[(Len(s) - i) + 1]]
=============================================================================
