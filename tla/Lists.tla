------------------------------- MODULE Lists -------------------------------
(***************************************************************************)
(* What the list macros of queue.h promise: the list of a head is a        *)
(* sequence, an element is on one list at most, and an operation changes   *)
(* the sequences the way its name says.                                    *)
(***************************************************************************)
EXTENDS ListBase

VARIABLE lists  \* the elements of every list, in order

On(h) == Members(lists[h])

Unlinked == Elem \ UNION {On(h) : h \in Queue}

(* The position of element x of the list of h.                             *)
Pos(h, x) == CHOOSE i \in DOMAIN lists[h] : lists[h][i] = x

ListsInit == lists = [h \in Queue |-> <<>>]

InsertHead(h, e) == lists' = [lists EXCEPT ![h] = <<e>> \o @]

InsertTail(h, e) == lists' = [lists EXCEPT ![h] = Append(@, e)]

InsertAfter(h, x, e) ==
  lists' = [lists EXCEPT ![h] = PutIn(@, Pos(h, x) + 1, e)]

InsertBefore(h, x, e) ==
  lists' = [lists EXCEPT ![h] = PutIn(@, Pos(h, x), e)]

RemoveElem(h, x) == lists' = [lists EXCEPT ![h] = TakeOut(@, Pos(h, x))]

ReplaceElem(h, x, e) ==
  lists' = [lists EXCEPT ![h] = [@ EXCEPT ![Pos(h, x)] = e]]

Concat(h, g) == lists' = [lists EXCEPT ![h] = @ \o lists[g], ![g] = <<>>]

(* The elements met from head h on in the pointers next before end, at     *)
(* most all of them and one more.                                          *)
Chain(next, h, end) ==
  LET met[n \in 0..Cardinality(Elem) + 1] ==
        IF n = 0 THEN <<>>
        ELSE LET s == met[n - 1]
                 e == next[IF s = <<>> THEN h ELSE s[Len(s)]]
             IN  IF e = end THEN s ELSE Append(s, e)
  IN  met[Cardinality(Elem) + 1]
=============================================================================
