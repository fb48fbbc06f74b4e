---------------------------- MODULE LinkedLists ----------------------------
(***************************************************************************)
(* The other lists of queue.h: SLIST, which holds the interrupt handlers,  *)
(* and LIST, SIMPLEQ (STAILQ is the same under another name) and CIRCLEQ,  *)
(* which the header offers.  As in TailQueue the address of the pointer in *)
(* a head or in the link field of an element is written as the head or the *)
(* element itself.                                                         *)
(***************************************************************************)
EXTENDS TailQueue

(* next is the first element of a head and the next one of an element.     *)
(* prev is LIST: le_prev of an element; SIMPLEQ: sqh_last of a head;       *)
(* CIRCLEQ: cqh_last of a head, cqe_prev of an element.                    *)
VARIABLE kind  \* the kind of the lists

lvars == <<kind, qvars>>

(* The location the search of SLIST_REMOVE and SIMPLEQ_REMOVE ends at, the *)
(* head if e is the first element.                                         *)
curelm(h, e) ==
  CHOOSE l \in {h} \cup Members(Chain(next, h, NULL)) : next[l] = e

SLIST_INSERT_AFTER(x, e) ==
  next' = [next EXCEPT ![e] = next[x], ![x] = e] /\ UNCHANGED prev

SLIST_INSERT_HEAD(h, e) ==
  next' = [next EXCEPT ![e] = next[h], ![h] = e] /\ UNCHANGED prev

(* With the head for x this is SLIST_REMOVE_HEAD.                          *)
SLIST_REMOVE_AFTER(x) ==
  next' = [next EXCEPT ![x] = next[next[x]]] /\ UNCHANGED prev

SLIST_REMOVE(h, e) == SLIST_REMOVE_AFTER(curelm(h, e))

-----------------------------------------------------------------------------

(* le_prev of the element behind l, if there is one, becomes a.            *)
Relink(l, a) == IF next[l] = NULL THEN prev ELSE [prev EXCEPT ![next[l]] = a]

LIST_INSERT_HEAD(h, e) ==
  /\ next' = [next EXCEPT ![e] = next[h], ![h] = e]
  /\ prev' = [Relink(h, e) EXCEPT ![e] = h]

LIST_INSERT_AFTER(x, e) ==
  /\ next' = [next EXCEPT ![e] = next[x], ![x] = e]
  /\ prev' = [Relink(x, e) EXCEPT ![e] = x]

LIST_INSERT_BEFORE(x, e) ==
  /\ next' = [next EXCEPT ![e] = x, ![prev[x]] = e]
  /\ prev' = [prev EXCEPT ![e] = prev[x], ![x] = e]

LIST_REMOVE(e) ==
  /\ next' = [next EXCEPT ![prev[e]] = next[e]]
  /\ prev' = Relink(e, prev[e])

LIST_REPLACE(x, e) ==
  /\ next' = [next EXCEPT ![e] = next[x], ![prev[x]] = e]
  /\ prev' = [Relink(x, e) EXCEPT ![e] = prev[x]]

-----------------------------------------------------------------------------

(* sqh_last follows when the pointer of l, set to n, ends the list.        *)
Ends(h, l, n) == IF n = NULL THEN [prev EXCEPT ![h] = l] ELSE prev

SIMPLEQ_INSERT_HEAD(h, e) ==
  /\ next' = [next EXCEPT ![e] = next[h], ![h] = e]
  /\ prev' = Ends(h, e, next[h])

SIMPLEQ_INSERT_TAIL(h, e) ==
  /\ next' = [next EXCEPT ![e] = NULL, ![prev[h]] = e]
  /\ prev' = [prev EXCEPT ![h] = e]

SIMPLEQ_INSERT_AFTER(h, x, e) ==
  /\ next' = [next EXCEPT ![e] = next[x], ![x] = e]
  /\ prev' = Ends(h, e, next[x])

(* With the head for x this is SIMPLEQ_REMOVE_HEAD.                        *)
SIMPLEQ_REMOVE_AFTER(h, x) ==
  /\ next' = [next EXCEPT ![x] = next[next[x]]]
  /\ prev' = Ends(h, x, next[next[x]])

SIMPLEQ_REMOVE(h, e) == SIMPLEQ_REMOVE_AFTER(h, curelm(h, e))

SIMPLEQ_CONCAT(h, g) ==
  IF next[g] = NULL THEN UNCHANGED <<next, prev>>
  ELSE /\ next' = [next EXCEPT ![prev[h]] = next[g], ![g] = NULL]
       /\ prev' = [prev EXCEPT ![h] = prev[g], ![g] = g]

-----------------------------------------------------------------------------

(* A circular queue ends at its head, which is at the same time the place  *)
(* of cqh_first and cqh_last: the two branches of each macro are one.      *)
CIRCLEQ_INSERT_AFTER(x, e) ==
  /\ next' = [next EXCEPT ![e] = next[x], ![x] = e]
  /\ prev' = [prev EXCEPT ![e] = x, ![next[x]] = e]

CIRCLEQ_INSERT_BEFORE(x, e) ==
  /\ next' = [next EXCEPT ![e] = x, ![prev[x]] = e]
  /\ prev' = [prev EXCEPT ![e] = prev[x], ![x] = e]

CIRCLEQ_INSERT_HEAD(h, e) == CIRCLEQ_INSERT_AFTER(h, e)

CIRCLEQ_INSERT_TAIL(h, e) == CIRCLEQ_INSERT_BEFORE(h, e)

CIRCLEQ_REMOVE(e) ==
  /\ prev' = [prev EXCEPT ![next[e]] = prev[e]]
  /\ next' = [next EXCEPT ![prev[e]] = next[e]]

-----------------------------------------------------------------------------

ListEnd(h) == IF kind = "CIRCLEQ" THEN h ELSE NULL

LinkedListsInit ==
  /\ ListsInit
  /\ kind \in {"SLIST", "LIST", "SIMPLEQ", "CIRCLEQ", "TAILQ"}
  /\ next = [l \in Loc |-> IF l \in Queue THEN ListEnd(l) ELSE NULL]
  /\ prev = [l \in Loc |-> IF l \in Queue THEN l ELSE NULL]
  /\ iter = NoLoop

SLIST ==
  \E h \in Queue :
    \/ \E e \in Unlinked :
         \/ SLIST_INSERT_HEAD(h, e) /\ InsertHead(h, e)
         \/ \E x \in On(h) : SLIST_INSERT_AFTER(x, e) /\ InsertAfter(h, x, e)
    \/ \E x \in On(h) : SLIST_REMOVE(h, x) /\ RemoveElem(h, x)

LIST ==
  \E h \in Queue :
    \/ \E e \in Unlinked :
         \/ LIST_INSERT_HEAD(h, e) /\ InsertHead(h, e)
         \/ \E x \in On(h) :
              \/ LIST_INSERT_AFTER(x, e) /\ InsertAfter(h, x, e)
              \/ LIST_INSERT_BEFORE(x, e) /\ InsertBefore(h, x, e)
              \/ LIST_REPLACE(x, e) /\ ReplaceElem(h, x, e)
    \/ \E x \in On(h) : LIST_REMOVE(x) /\ RemoveElem(h, x)

SIMPLEQ ==
  \E h \in Queue :
    \/ \E e \in Unlinked :
         \/ SIMPLEQ_INSERT_HEAD(h, e) /\ InsertHead(h, e)
         \/ SIMPLEQ_INSERT_TAIL(h, e) /\ InsertTail(h, e)
         \/ \E x \in On(h) :
              SIMPLEQ_INSERT_AFTER(h, x, e) /\ InsertAfter(h, x, e)
    \/ \E x \in On(h) : SIMPLEQ_REMOVE(h, x) /\ RemoveElem(h, x)
    \/ \E g \in Queue \ {h} : SIMPLEQ_CONCAT(h, g) /\ Concat(h, g)

CIRCLEQ ==
  \E h \in Queue :
    \/ \E e \in Unlinked :
         \/ CIRCLEQ_INSERT_HEAD(h, e) /\ InsertHead(h, e)
         \/ CIRCLEQ_INSERT_TAIL(h, e) /\ InsertTail(h, e)
         \/ \E x \in On(h) :
              \/ CIRCLEQ_INSERT_AFTER(x, e) /\ InsertAfter(h, x, e)
              \/ CIRCLEQ_INSERT_BEFORE(x, e) /\ InsertBefore(h, x, e)
    \/ \E x \in On(h) : CIRCLEQ_REMOVE(x) /\ RemoveElem(h, x)

LinkedListsNext ==
  /\ \/ kind = "SLIST" /\ SLIST /\ UNCHANGED iter
     \/ kind = "LIST" /\ LIST /\ UNCHANGED iter
     \/ kind = "SIMPLEQ" /\ SIMPLEQ /\ UNCHANGED iter
     \/ kind = "CIRCLEQ" /\ CIRCLEQ /\ UNCHANGED iter
     \/ kind = "TAILQ" /\ TailQueueNext
  /\ UNCHANGED kind

LinkedListsSpec == LinkedListsInit /\ [][LinkedListsNext]_lvars

-----------------------------------------------------------------------------

(* sqh_last is the "addr of last next element", where the next element is  *)
(* appended.                                                               *)
LastAddress ==
  \A h \in Queue :
    prev[h] = IF lists[h] = <<>> THEN h ELSE lists[h][Len(lists[h])]

(* le_prev is the "address of previous next element": removing an element  *)
(* through it changes the list the element is on.                          *)
PreviousAddress ==
  \A h \in Queue : \A i \in DOMAIN lists[h] :
    prev[lists[h][i]] = IF i = 1 THEN h ELSE lists[h][i - 1]

(* The pointers stand for the sequence: following them from a head meets   *)
(* the elements of its list in order, and the pointers that lead back, or  *)
(* to the place where the list grows, are right whatever operations came   *)
(* before.                                                                 *)
ListRepresented ==
  /\ \A h \in Queue : Chain(next, h, ListEnd(h)) = lists[h]
  /\ kind = "CIRCLEQ" => \A h \in Queue : Chain(prev, h, h) = Backwards(lists[h])
  /\ kind = "SIMPLEQ" => LastAddress
  /\ kind = "LIST" => PreviousAddress
  /\ kind = "TAILQ" => BackLinks
=============================================================================
