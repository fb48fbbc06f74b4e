----------------------------- MODULE TailQueue -----------------------------
(***************************************************************************)
(* The TAILQ macros of queue.h, which hold the threads, the zombies and    *)
(* every wait queue.                                                       *)
(*                                                                         *)
(* A head and the link field of an element have the same layout: a pointer *)
(* to an element (tqh_first, tqe_next) and the address of such a pointer   *)
(* (tqh_last, tqe_prev).  The address of the pointer in a head or a link   *)
(* field is written as the head or the element itself.                     *)
(***************************************************************************)
EXTENDS Lists

VARIABLES next,  \* tqh_first of a head, tqe_next of an element
          prev,  \* tqh_last of a head, tqe_prev of an element
          iter   \* the loop that is under way, if any

qvars == <<lists, next, prev, iter>>

TAILQ_EMPTY(h) == next[h] = NULL

TAILQ_LAST(h) == next[prev[prev[h]]]

TAILQ_PREV(e) == next[prev[prev[e]]]

TAILQ_INSERT_HEAD(h, e) ==
  /\ next' = [next EXCEPT ![e] = next[h], ![h] = e]
  /\ prev' = [prev EXCEPT ![IF next[h] # NULL THEN next[h] ELSE h] = e,
                          ![e] = h]

TAILQ_INSERT_TAIL(h, e) ==
  /\ next' = [next EXCEPT ![e] = NULL, ![prev[h]] = e]
  /\ prev' = [prev EXCEPT ![e] = prev[h], ![h] = e]

TAILQ_INSERT_AFTER(h, x, e) ==
  /\ next' = [next EXCEPT ![e] = next[x], ![x] = e]
  /\ prev' = [prev EXCEPT ![IF next[x] # NULL THEN next[x] ELSE h] = e,
                          ![e] = x]

\* Mutant: the back link of the element behind stays stale.
TAILQ_INSERT_BEFORE_stale(x, e) ==
  /\ next' = [next EXCEPT ![e] = x, ![prev[x]] = e]
  /\ prev' = [prev EXCEPT ![e] = prev[x]]

TAILQ_INSERT_BEFORE(x, e) ==
  /\ next' = [next EXCEPT ![e] = x, ![prev[x]] = e]
  /\ prev' = [prev EXCEPT ![e] = prev[x], ![x] = e]

TAILQ_REMOVE(h, e) ==
  /\ next' = [next EXCEPT ![prev[e]] = next[e]]
  /\ prev' = [prev EXCEPT ![IF next[e] # NULL THEN next[e] ELSE h] = prev[e]]

TAILQ_REPLACE(h, x, e) ==
  /\ next' = [next EXCEPT ![e] = next[x], ![prev[x]] = e]
  /\ prev' = [prev EXCEPT ![IF next[x] # NULL THEN next[x] ELSE h] = e,
                          ![e] = prev[x]]

TAILQ_CONCAT(h, g) ==
  IF TAILQ_EMPTY(g) THEN UNCHANGED <<next, prev>>
  ELSE /\ next' = [next EXCEPT ![prev[h]] = next[g], ![g] = NULL]
       /\ prev' = [prev EXCEPT ![next[g]] = prev[h], ![h] = prev[g], ![g] = g]

-----------------------------------------------------------------------------

(* TAILQ_FOREACH_SAFE: var is visited with the element behind it saved.    *)
Loop(h, var, seen) ==
  [head |-> h, var |-> var, seen |-> seen, all |-> lists[h],
   saved |-> IF var = NULL THEN NULL ELSE next[var]]

NoLoop == [head |-> NULL]

foreach_start(h) == iter' = Loop(h, next[h], <<>>) /\ UNCHANGED <<lists, next, prev>>

\* Mutant: TAILQ_FOREACH, which looks for the next element after the body.
foreach_next_unsafe(var, saved) == next[var]

foreach_next(var, saved) == saved

(* The body is done with var and the loop goes on to the element saved.    *)
foreach_step ==
  LET n == foreach_next(iter.var, iter.saved)
  IN  /\ iter' = IF iter.var = NULL THEN NoLoop
                 ELSE [Loop(iter.head, n, Append(iter.seen, iter.var))
                         EXCEPT !.all = iter.all]
      /\ UNCHANGED <<lists, next, prev>>

(* The body takes var off the list and puts it on another, as it may be    *)
(* once its memory is freed and used again.                                *)
foreach_remove(g) ==
  /\ g # iter.head
  /\ iter.var \in On(iter.head)
  /\ lists' = [lists EXCEPT ![iter.head] = TakeOut(@, Pos(iter.head, iter.var)),
                            ![g] = <<iter.var>> \o @]
  /\ LET e == iter.var
         h == iter.head
         n == [next EXCEPT ![prev[e]] = next[e]]
         p == [prev EXCEPT ![IF next[e] # NULL THEN next[e] ELSE h] = prev[e]]
     IN  /\ next' = [n EXCEPT ![e] = n[g], ![g] = e]
         /\ prev' = [p EXCEPT ![IF n[g] # NULL THEN n[g] ELSE g] = e, ![e] = g]
  /\ UNCHANGED iter

-----------------------------------------------------------------------------

(* An operation on the pointers and what it should do to the sequences.    *)
Operation ==
  /\ iter = NoLoop
  /\ UNCHANGED iter
  /\ \E h \in Queue :
       \/ \E e \in Unlinked :
            \/ TAILQ_INSERT_HEAD(h, e) /\ InsertHead(h, e)
            \/ TAILQ_INSERT_TAIL(h, e) /\ InsertTail(h, e)
            \/ \E x \in On(h) :
                 \/ TAILQ_INSERT_AFTER(h, x, e) /\ InsertAfter(h, x, e)
                 \/ TAILQ_INSERT_BEFORE(x, e) /\ InsertBefore(h, x, e)
                 \/ TAILQ_REPLACE(h, x, e) /\ ReplaceElem(h, x, e)
       \/ \E x \in On(h) : TAILQ_REMOVE(h, x) /\ RemoveElem(h, x)
       \/ \E g \in Queue \ {h} : TAILQ_CONCAT(h, g) /\ Concat(h, g)

TailQueueNext ==
  \/ Operation
  \/ iter = NoLoop /\ \E h \in Queue : foreach_start(h)
  \/ iter # NoLoop /\ (foreach_step \/ \E g \in Queue : foreach_remove(g))

-----------------------------------------------------------------------------

(* Every back link is the address of the pointer to its element, and       *)
(* tqh_last that of the pointer that ends the list: the invariants behind  *)
(* QUEUEDEBUG_TAILQ_OP and QUEUEDEBUG_TAILQ_PREREMOVE.  The casts of       *)
(* TAILQ_LAST and TAILQ_PREV rely on them.                                 *)
BackLinks ==
  \A h \in Queue :
    /\ next[prev[h]] = NULL
    /\ TAILQ_LAST(h) = IF lists[h] = <<>> THEN NULL ELSE lists[h][Len(lists[h])]
    /\ \A i \in DOMAIN lists[h] :
         /\ next[prev[lists[h][i]]] = lists[h][i]
         /\ TAILQ_PREV(lists[h][i]) = IF i = 1 THEN NULL ELSE lists[h][i - 1]

(* TAILQ_FOREACH_SAFE visits the elements that were on the list, each once *)
(* and in order, although the body takes the current one off: the reaper   *)
(* of bmk_sched() frees every zombie but the one it runs on.               *)
ForeachVisitsAll ==
  iter # NoLoop =>
    /\ \E n \in 0..Len(iter.all) : iter.seen = SubSeq(iter.all, 1, n)
    /\ iter.var = NULL => iter.seen = iter.all
=============================================================================
