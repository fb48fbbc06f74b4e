----------------------------- MODULE Allocator -----------------------------
(***************************************************************************)
(* What a memory allocator promises: the memory it gives to a caller lies  *)
(* inside the heap and is shared with nobody until the caller returns it.  *)
(***************************************************************************)
EXTENDS Integers, FiniteSets

CONSTANTS HeapBase, HeapSize

VARIABLE allocated  \* the memory in use: records of a base and a length

Disjoint(r, s) ==
  /\ r.base # s.base
  /\ r.base + r.len =< s.base \/ s.base + s.len =< r.base

InHeap(r) == HeapBase =< r.base /\ r.base + r.len =< HeapBase + HeapSize

(* r can be handed out while the memory of held is in use.                 *)
Fits(r, held) == InHeap(r) /\ \A s \in held : Disjoint(r, s)

Init == allocated = {}

Alloc ==
  \E r \in allocated' \ allocated :
    Fits(r, allocated) /\ allocated' = allocated \cup {r}

Free == \E r \in allocated : allocated' = allocated \ {r}

(* Shrink, grow or move.                                                   *)
Realloc ==
  \E r \in allocated, s \in allocated' :
    /\ Fits(s, allocated \ {r})
    /\ allocated' = (allocated \ {r}) \cup {s}

Next == Alloc \/ Free \/ Realloc

Spec == Init /\ [][Next]_allocated
=============================================================================
