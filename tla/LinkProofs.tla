----------------------------- MODULE LinkProofs -----------------------------
(***************************************************************************)
(* What it takes for pointers to stand for a list, and that putting an     *)
(* element in, taking one out, replacing one and joining two lists keep it *)
(* so.  The lemmas are about any pointers: the macros of queue.h are shown *)
(* to do just this in PartsProofs.                                         *)
(***************************************************************************)
EXTENDS ListBase, TLAPS

(* What the operations on a list do to its elements.                       *)
LEMMA Elements ==
  ASSUME NEW S, NEW s \in Seq(S)
  PROVE  /\ Len(s) \in Nat /\ DOMAIN s = 1..Len(s)
         /\ \A i \in 1..Len(s) : s[i] \in S
OBVIOUS

LEMMA ConcatElements ==
  ASSUME NEW S, NEW s \in Seq(S), NEW t \in Seq(S)
  PROVE  /\ s \o t \in Seq(S)
         /\ Len(s \o t) = Len(s) + Len(t)
         /\ \A i \in 1..(Len(s) + Len(t)) :
              (s \o t)[i] = IF i =< Len(s) THEN s[i] ELSE t[i - Len(s)]
OBVIOUS

LEMMA AppendElements ==
  ASSUME NEW S, NEW s \in Seq(S), NEW e \in S
  PROVE  /\ Append(s, e) \in Seq(S) /\ Len(Append(s, e)) = Len(s) + 1
         /\ \A i \in 1..Len(s) : Append(s, e)[i] = s[i]
         /\ Append(s, e)[Len(s) + 1] = e
OBVIOUS

LEMMA NoElements ==
  ASSUME NEW S
  PROVE  /\ <<>> \in Seq(S) /\ Len(<<>>) = 0 /\ DOMAIN <<>> = {}
         /\ \A s \in Seq(S) : (s = <<>> <=> Len(s) = 0) /\ s \o <<>> = s
OBVIOUS

LEMMA SameElements ==
  ASSUME NEW S, NEW s \in Seq(S), NEW t \in Seq(S), Len(s) = Len(t),
         \A i \in 1..Len(s) : s[i] = t[i]
  PROVE  s = t
OBVIOUS

LEMMA ElementsGiven ==
  ASSUME NEW S, NEW n \in Nat, NEW s \in [1..n -> S]
  PROVE  s \in Seq(S) /\ Len(s) = n
OBVIOUS

(* The elements from position a to position b.                             *)
LEMMA PartElements ==
  ASSUME NEW S, NEW s \in Seq(S), NEW a \in 1..(Len(s) + 1),
         NEW b \in Nat, b =< Len(s), a =< b + 1
  PROVE  /\ SubSeq(s, a, b) \in Seq(S)
         /\ Len(SubSeq(s, a, b)) = b + 1 - a
         /\ \A i \in 1..(b + 1 - a) : SubSeq(s, a, b)[i] = s[a - 1 + i]
OBVIOUS

LEMMA PutInElements ==
  ASSUME NEW S, NEW s \in Seq(S), NEW e \in S, NEW q \in 1..(Len(s) + 1)
  PROVE  /\ PutIn(s, q, e) \in Seq(S)
         /\ Len(PutIn(s, q, e)) = Len(s) + 1
         /\ \A i \in 1..(q - 1) : PutIn(s, q, e)[i] = s[i]
         /\ PutIn(s, q, e)[q] = e
         /\ \A i \in (q + 1)..(Len(s) + 1) : PutIn(s, q, e)[i] = s[i - 1]
<1> DEFINE front == SubSeq(s, 1, q - 1)
           back  == SubSeq(s, q, Len(s))
           mid   == front \o <<e>>
           r     == mid \o back
<1>1. Len(s) \in Nat /\ q \in Nat /\ q - 1 \in Nat /\ q =< Len(s) + 1
  BY Elements
<1>2. /\ front \in Seq(S) /\ Len(front) = q - 1
      /\ \A i \in 1..(q - 1) : front[i] = s[i]
  BY <1>1, PartElements
<1>3. /\ back \in Seq(S) /\ Len(back) = Len(s) - (q - 1)
      /\ \A i \in 1..(Len(s) - (q - 1)) : back[i] = s[q - 1 + i]
  BY <1>1, PartElements
<1>4. PutIn(s, q, e) = r
  BY DEF PutIn
<1> HIDE DEF front, back
<1>5. /\ mid \in Seq(S) /\ Len(mid) = q /\ mid[q] = e
      /\ \A i \in 1..(q - 1) : mid[i] = s[i]
  BY <1>1, <1>2
<1> HIDE DEF mid
<1>6. /\ r \in Seq(S) /\ Len(r) = Len(mid) + Len(back)
      /\ \A i \in 1..(Len(mid) + Len(back)) :
           r[i] = IF i =< Len(mid) THEN mid[i] ELSE back[i - Len(mid)]
  BY <1>3, <1>5, ConcatElements
<1>7. \A i \in (q + 1)..(Len(s) + 1) : back[i - q] = s[i - 1]
  BY <1>1, <1>3
<1> HIDE DEF r
<1>8. Len(r) = Len(s) + 1 /\ Len(mid) + Len(back) = Len(s) + 1
  BY <1>1, <1>3, <1>5, <1>6
<1>9. /\ \A i \in 1..(q - 1) : r[i] = s[i]
      /\ r[q] = e
  BY <1>1, <1>5, <1>6, <1>8
<1>10. \A i \in (q + 1)..(Len(s) + 1) : r[i] = s[i - 1]
  BY <1>1, <1>5, <1>6, <1>7, <1>8
<1> QED
  BY <1>4, <1>6, <1>8, <1>9, <1>10

LEMMA TakeOutElements ==
  ASSUME NEW S, NEW s \in Seq(S), NEW p \in 1..Len(s)
  PROVE  /\ TakeOut(s, p) \in Seq(S)
         /\ Len(TakeOut(s, p)) = Len(s) - 1
         /\ \A i \in 1..(p - 1) : TakeOut(s, p)[i] = s[i]
         /\ \A i \in p..(Len(s) - 1) : TakeOut(s, p)[i] = s[i + 1]
<1> DEFINE front == SubSeq(s, 1, p - 1)
           back  == SubSeq(s, p + 1, Len(s))
           r     == front \o back
<1>1. Len(s) \in Nat /\ p \in Nat /\ p =< Len(s) /\ p - 1 \in Nat
  BY Elements
<1>2. /\ front \in Seq(S) /\ Len(front) = p - 1
      /\ \A i \in 1..(p - 1) : front[i] = s[i]
  BY <1>1, PartElements
<1>3. /\ back \in Seq(S) /\ Len(back) = Len(s) - p
      /\ \A i \in 1..(Len(s) - p) : back[i] = s[p + i]
  BY <1>1, PartElements
<1>4. TakeOut(s, p) = r
  BY DEF TakeOut
<1> HIDE DEF front, back
<1>5. /\ r \in Seq(S) /\ Len(r) = Len(front) + Len(back)
      /\ \A i \in 1..(Len(front) + Len(back)) :
           r[i] = IF i =< Len(front) THEN front[i] ELSE back[i - Len(front)]
  BY <1>2, <1>3, ConcatElements, Zenon
<1>6. \A i \in 1..(Len(s) - 1) : ~ (i < p) => back[i - (p - 1)] = s[i + 1]
  BY <1>1, <1>3
<1> HIDE DEF r
<1>7. Len(r) = Len(s) - 1 /\ Len(front) + Len(back) = Len(s) - 1
  BY <1>1, <1>2, <1>3, <1>5
<1>8. \A i \in 1..(p - 1) : r[i] = s[i]
  BY <1>1, <1>2, <1>5, <1>7
<1>9. ASSUME NEW i \in p..(Len(s) - 1)
      PROVE  r[i] = s[i + 1]
  <2>1. i \in 1..(Len(s) - 1) /\ ~ (i < p) /\ ~ (i =< Len(front))
    BY <1>1, <1>2
  <2>2. r[i] = back[i - (p - 1)]
    BY <1>2, <1>5, <1>7, <2>1, Zenon
  <2> QED
    BY <1>6, <2>1, <2>2
<1> QED
  BY <1>4, <1>5, <1>7, <1>8, <1>9

LEMMA PutForElements ==
  ASSUME NEW S, NEW s \in Seq(S), NEW e \in S, NEW p \in 1..Len(s)
  PROVE  /\ [s EXCEPT ![p] = e] \in Seq(S) /\ Len([s EXCEPT ![p] = e]) = Len(s)
         /\ [s EXCEPT ![p] = e][p] = e
         /\ \A i \in 1..Len(s) : i # p => [s EXCEPT ![p] = e][i] = s[i]
OBVIOUS

LEMMA PutFirstElements ==
  ASSUME NEW S, NEW s \in Seq(S), NEW e \in S
  PROVE  /\ <<e>> \o s \in Seq(S) /\ Len(<<e>> \o s) = Len(s) + 1
         /\ (<<e>> \o s)[1] = e
         /\ \A i \in 2..(Len(s) + 1) : (<<e>> \o s)[i] = s[i - 1]
BY Elements

-----------------------------------------------------------------------------
(* One list of kind k with head h: s are its n elements, N and P the       *)
(* pointers that lead on and back.                                         *)

(* Lists whose elements point back, and lists whose head knows the last.   *)
Backed == {"LIST", "CIRCLEQ", "TAILQ"}
Ended == {"SIMPLEQ", "CIRCLEQ", "TAILQ"}

EndOf(k, h) == IF k = "CIRCLEQ" THEN h ELSE NULL

ListAt(k, h, s, n, N, P) ==
  /\ s \in Seq(Elem) /\ n \in Nat /\ \A i \in 1..n : s[i] \in Elem
  /\ \A i, j \in 1..n : s[i] = s[j] => i = j
  /\ N[h] = IF n = 0 THEN EndOf(k, h) ELSE s[1]
  /\ \A i \in 1..n : N[s[i]] = IF i = n THEN EndOf(k, h) ELSE s[i + 1]
  /\ k \in Backed => \A i \in 1..n : P[s[i]] = IF i = 1 THEN h ELSE s[i - 1]
  /\ k \in Ended => P[h] = IF n = 0 THEN h ELSE s[n]

(* TAILQ_LAST and TAILQ_PREV: two pointers back and one forward.           *)
Back(h, s, n, N, P) ==
  /\ N[P[h]] = NULL
  /\ N[P[P[h]]] = IF n = 0 THEN NULL ELSE s[n]
  /\ \A i \in 1..n : N[P[s[i]]] = s[i]
  /\ \A i \in 1..n : N[P[P[s[i]]]] = IF i = 1 THEN NULL ELSE s[i - 1]

LEMMA BackAt ==
  ASSUME NEW h, NEW s, NEW n, NEW N, NEW P, ListAt("TAILQ", h, s, n, N, P)
  PROVE  Back(h, s, n, N, P)
<1>1. /\ n \in Nat
      /\ N[h] = IF n = 0 THEN NULL ELSE s[1]
      /\ \A i \in 1..n : N[s[i]] = IF i = n THEN NULL ELSE s[i + 1]
      /\ \A i \in 1..n : P[s[i]] = IF i = 1 THEN h ELSE s[i - 1]
      /\ P[h] = IF n = 0 THEN h ELSE s[n]
  BY DEF ListAt, EndOf, Backed, Ended
<1>2. n # 0 => n \in 1..n
  BY <1>1
<1>3. N[P[h]] = NULL
  BY <1>1, <1>2
<1>4. ASSUME NEW i \in 1..n
      PROVE  N[P[s[i]]] = s[i]
  BY <1>1
<1>5. N[P[P[h]]] = IF n = 0 THEN NULL ELSE s[n]
  BY <1>1, <1>2, <1>4
<1>6. ASSUME NEW i \in 1..n
      PROVE  N[P[P[s[i]]]] = IF i = 1 THEN NULL ELSE s[i - 1]
  BY <1>1, <1>3, <1>4
<1> QED
  BY <1>3, <1>4, <1>5, <1>6, Zenon DEF Back

-----------------------------------------------------------------------------
(* TAILQ_FOREACH_SAFE on the list s, which was all at the start.  The      *)
(* elements behind the one visited are still on s in order, and so is the  *)
(* one visited if it is on s at all.                                       *)

Remains(s, a, all, b, i) == \E j \in 1..a : j + b = i + a /\ s[j] = all[i]

Walk(s, all, seen, m, var, saved) ==
  /\ s \in Seq(Elem) /\ all \in Seq(Elem) /\ seen \in Seq(Elem)
  /\ m = Len(seen) /\ m =< Len(all)
  /\ \A i \in 1..m : seen[i] = all[i]
  /\ var = IF m < Len(all) THEN all[m + 1] ELSE NULL
  /\ saved = IF m + 1 < Len(all) THEN all[m + 2] ELSE NULL
  /\ \A i \in 1..Len(all) :
       i > m + 1 \/ (i = m + 1 /\ var \in Members(s)) =>
         Remains(s, Len(s), all, Len(all), i)

LEMMA WalkStarts ==
  ASSUME NEW h, NEW s, NEW N, NEW P, NEW var, NEW saved,
         ListAt("TAILQ", h, s, Len(s), N, P), var = N[h],
         saved = IF var = NULL THEN NULL ELSE N[var]
  PROVE  Walk(s, s, <<>>, 0, var, saved)
BY ListAssumption DEF ListAt, EndOf, Loc, Remains, Walk

LEMMA WalkGoesOn ==
  ASSUME NEW h, NEW s, NEW N, NEW P, NEW all, NEW seen, NEW m, NEW var, NEW saved,
         NEW behind, ListAt("TAILQ", h, s, Len(s), N, P),
         Walk(s, all, seen, m, var, saved), var # NULL,
         behind = IF saved = NULL THEN NULL ELSE N[saved]
  PROVE  Walk(s, all, Append(seen, var), m + 1, saved, behind)
<1> DEFINE n == Len(s)
           b == Len(all)
<1>1. /\ s \in Seq(Elem) /\ n \in Nat /\ NULL \notin Elem
      /\ \A i \in 1..n : N[s[i]] = IF i = n THEN NULL ELSE s[i + 1]
  BY ListAssumption DEF ListAt, EndOf, Loc
<1>2. /\ all \in Seq(Elem) /\ seen \in Seq(Elem) /\ m = Len(seen) /\ m =< b
      /\ \A i \in 1..m : seen[i] = all[i]
      /\ var = IF m < b THEN all[m + 1] ELSE NULL
      /\ saved = IF m + 1 < b THEN all[m + 2] ELSE NULL
      /\ \A i \in 1..b : i > m + 1 => Remains(s, n, all, b, i)
  BY DEF Walk
<1>3. m \in Nat /\ b \in Nat /\ \A i \in 1..b : all[i] \in Elem
  BY <1>2
<1> DEFINE now == Append(seen, var)
<1>4. /\ now \in Seq(Elem) /\ Len(now) = m + 1 /\ m + 1 =< b
      /\ \A i \in 1..(m + 1) : now[i] = all[i]
  BY <1>1, <1>2, <1>3, AppendElements
<1> HIDE DEF n, b, now
<1>5. behind = IF (m + 1) + 1 < b THEN all[(m + 1) + 2] ELSE NULL
  <2>1. CASE saved = NULL
    BY <1>1, <1>2, <1>3, <2>1
  <2>2. CASE saved # NULL
    <3>1. m + 1 < b /\ saved = all[m + 2] /\ m + 2 \in 1..b /\ m + 2 > m + 1
      BY <1>2, <1>3, <2>2
    <3>2. PICK j \in 1..n : j + b = (m + 2) + n /\ s[j] = all[m + 2]
      BY <1>2, <3>1 DEF Remains
    <3>3. behind = IF j = n THEN NULL ELSE s[j + 1]
      BY <1>1, <2>2, <3>1, <3>2
    <3>4. j = n <=> ~ ((m + 1) + 1 < b)
      BY <1>1, <1>3, <3>1, <3>2
    <3>5. CASE j # n
      <4>1. m + 3 \in 1..b /\ m + 3 > m + 1 /\ m + 3 = (m + 1) + 2
        BY <1>3, <3>4, <3>5
      <4>2. PICK l \in 1..n : l + b = (m + 3) + n /\ s[l] = all[m + 3]
        BY <1>2, <4>1 DEF Remains
      <4>3. l = j + 1
        BY <1>1, <1>3, <3>2, <4>2
      <4> QED
        BY <3>3, <3>4, <3>5, <4>1, <4>2, <4>3
    <3> QED
      BY <3>3, <3>4, <3>5
  <2> QED
    BY <2>1, <2>2
<1>6. \A i \in 1..b : i > (m + 1) + 1 \/ (i = (m + 1) + 1 /\ saved \in Members(s)) =>
                        Remains(s, n, all, b, i)
  BY <1>3, <1>2
<1>7. saved = IF m + 1 < b THEN all[(m + 1) + 1] ELSE NULL
  BY <1>2, <1>3
<1> QED
  BY <1>1, <1>2, <1>4, <1>5, <1>6, <1>7 DEF Walk, n, b, now

(* The body takes the element visited off.                                 *)
LEMMA WalkWithout ==
  ASSUME NEW h, NEW s, NEW N, NEW P, NEW all, NEW seen, NEW m, NEW var, NEW saved,
         NEW p \in 1..Len(s), ListAt("TAILQ", h, s, Len(s), N, P),
         Walk(s, all, seen, m, var, saved), var = s[p]
  PROVE  Walk(TakeOut(s, p), all, seen, m, var, saved)
<1> DEFINE n == Len(s)
           b == Len(all)
           r == TakeOut(s, p)
<1>1. /\ s \in Seq(Elem) /\ n \in Nat /\ p \in 1..n /\ NULL \notin Elem
      /\ \A i, j \in 1..n : s[i] = s[j] => i = j
      /\ \A i \in 1..n : s[i] \in Elem
  BY ListAssumption DEF ListAt, Loc
<1>2. /\ all \in Seq(Elem) /\ seen \in Seq(Elem) /\ m = Len(seen) /\ m =< b
      /\ \A i \in 1..m : seen[i] = all[i]
      /\ var = IF m < b THEN all[m + 1] ELSE NULL
      /\ saved = IF m + 1 < b THEN all[m + 2] ELSE NULL
      /\ \A i \in 1..b : i > m + 1 \/ (i = m + 1 /\ var \in Members(s)) =>
                           Remains(s, n, all, b, i)
  BY DEF Walk
<1>3. m \in Nat /\ b \in Nat /\ n \in Nat
  BY <1>2, <1>1
<1>4. /\ r \in Seq(Elem) /\ Len(r) = n - 1
      /\ \A i \in 1..(p - 1) : r[i] = s[i]
      /\ \A i \in p..(n - 1) : r[i] = s[i + 1]
  BY <1>1, TakeOutElements, Zenon
<1>5. var \in Members(s)
  BY <1>1, Elements DEF Members
<1>6. var \notin Members(r)
  BY <1>4, Elements, <1>1 DEF Members
<1> HIDE DEF r, n, b
<1>7. m + 1 \in 1..b /\ p + b = (m + 1) + n
  <2>1. m < b /\ var = all[m + 1]
    BY <1>1, <1>2
  <2>2. m + 1 \in 1..b
    BY <1>3, <2>1
  <2>3. PICK j \in 1..n : j + b = (m + 1) + n /\ s[j] = all[m + 1]
    BY <1>2, <1>5, <2>2 DEF Remains
  <2>4. j = p
    BY <1>1, <2>1, <2>3
  <2> QED
    BY <2>2, <2>3, <2>4
<1>8. ASSUME NEW i \in 1..b, i > m + 1
      PROVE  Remains(r, n - 1, all, b, i)
  <2>1. PICK j \in 1..n : j + b = i + n /\ s[j] = all[i]
    BY <1>2, <1>8 DEF Remains
  <2>2. j > p /\ j - 1 \in p..(n - 1) /\ j - 1 \in 1..(n - 1) /\ (j - 1) + 1 = j
    BY <1>1, <1>3, <1>7, <1>8, <2>1
  <2>3. r[j - 1] = all[i]
    BY <1>4, <2>1, <2>2
  <2>4. (j - 1) + b = i + (n - 1)
    BY <1>3, <2>1
  <2>5. \E l \in 1..(n - 1) : l + b = i + (n - 1) /\ r[l] = all[i]
    BY <2>2, <2>3, <2>4, Zenon
  <2> QED
    BY <2>5 DEF Remains
<1>9. \A i \in 1..b : i > m + 1 \/ (i = m + 1 /\ var \in Members(r)) =>
                        Remains(r, n - 1, all, b, i)
  BY <1>6, <1>8
<1>10. Walk(r, all, seen, m, var, saved)
  BY <1>2, <1>4, <1>9 DEF Walk, b
<1> QED
  BY <1>10 DEF r

LEMMA WalkMet ==
  ASSUME NEW s, NEW all, NEW seen, NEW m, NEW var, NEW saved,
         Walk(s, all, seen, m, var, saved)
  PROVE  /\ \E n \in 0..Len(all) : seen = SubSeq(all, 1, n)
         /\ var = NULL => seen = all
BY ListAssumption, SameElements DEF Walk, Loc

-----------------------------------------------------------------------------
(* Following the pointers from a head meets the elements of its list.      *)

(* Every set of numbers has a smallest, and a list that holds no element   *)
(* twice is no longer than there are elements.                             *)
WellOrdered ==
  \A T \in SUBSET Nat : T # {} => \E n \in T : \A m \in T : n =< m

Fits ==
  /\ Cardinality(Elem) \in Nat
  /\ \A s \in Seq(Elem) :
       (\A i, j \in 1..Len(s) : s[i] = s[j] => i = j) => Len(s) =< Cardinality(Elem)

(* What is met after t, and the function that meets one more at each step. *)
Met(t, N, h, end) ==
  LET e == N[IF t = <<>> THEN h ELSE t[Len(t)]]
  IN  IF e = end THEN t ELSE Append(t, e)

Meets(f, K, N, h, end) ==
  f = [n \in 0..K |-> IF n = 0 THEN <<>> ELSE Met(f[n - 1], N, h, end)]

(* The pointers N lead from h through the elements of s to end.            *)
Leads(s, N, h, end) ==
  /\ N[h] = IF s = <<>> THEN end ELSE s[1]
  /\ \A i \in 1..Len(s) : N[s[i]] = IF i = Len(s) THEN end ELSE s[i + 1]
  /\ \A i \in 1..Len(s) : s[i] # end

Beginning(s, n) == SubSeq(s, 1, IF n < Len(s) THEN n ELSE Len(s))

LEMMA BeginningElements ==
  ASSUME NEW S, NEW s \in Seq(S), NEW n \in Nat
  PROVE  /\ Beginning(s, n) \in Seq(S)
         /\ Len(Beginning(s, n)) = IF n < Len(s) THEN n ELSE Len(s)
         /\ \A i \in 1..Len(Beginning(s, n)) : Beginning(s, n)[i] = s[i]
BY Elements, PartElements DEF Beginning

LEMMA MetNext ==
  ASSUME NEW S, NEW s \in Seq(S), NEW N, NEW h, NEW end, Leads(s, N, h, end),
         NEW n \in Nat
  PROVE  Met(Beginning(s, n), N, h, end) = Beginning(s, n + 1)
<1> DEFINE t == Beginning(s, n)
           u == Beginning(s, n + 1)
<1>1. /\ t \in Seq(S) /\ Len(t) = IF n < Len(s) THEN n ELSE Len(s)
      /\ \A i \in 1..Len(t) : t[i] = s[i]
  BY BeginningElements
<1>2. /\ u \in Seq(S) /\ Len(u) = IF n + 1 < Len(s) THEN n + 1 ELSE Len(s)
      /\ \A i \in 1..Len(u) : u[i] = s[i]
  BY BeginningElements
<1>3. Len(s) \in Nat /\ \A i \in 1..Len(s) : s[i] \in S
  BY Elements
<1>4. /\ N[h] = IF s = <<>> THEN end ELSE s[1]
      /\ \A i \in 1..Len(s) : N[s[i]] = IF i = Len(s) THEN end ELSE s[i + 1]
      /\ \A i \in 1..Len(s) : s[i] # end
  BY DEF Leads
<1> HIDE DEF t, u
<1>5. /\ t = <<>> <=> Len(t) = 0
      /\ s = <<>> <=> Len(s) = 0
  BY <1>1, NoElements
<1> DEFINE e == N[IF t = <<>> THEN h ELSE t[Len(t)]]
<1>6. CASE n < Len(s)
  <2>1. e = s[n + 1] /\ n + 1 \in 1..Len(s)
    BY <1>1, <1>3, <1>4, <1>5, <1>6
  <2>2. e # end /\ e \in S
    BY <1>3, <1>4, <2>1
  <2> HIDE DEF e
  <2>3. Append(t, e) = u
    <3>1. Len(t) = n /\ Len(u) = n + 1
      BY <1>1, <1>2, <1>3, <1>6
    <3>2. Append(t, e) \in Seq(S) /\ Len(Append(t, e)) = n + 1
      BY <1>1, <2>2, <3>1, AppendElements
    <3>3. \A i \in 1..(n + 1) : Append(t, e)[i] = u[i]
      BY <1>1, <2>2, <3>1, AppendElements, <1>2, <2>1
    <3> QED
      BY <1>2, <3>1, <3>2, <3>3, SameElements
  <2> QED
    BY <2>2, <2>3 DEF Met, e, t, u
<1>7. CASE ~ (n < Len(s))
  BY <1>1, <1>3, <1>4, <1>5, <1>7, <1>2, SameElements DEF Met, t, u
<1> QED
  BY <1>6, <1>7

LEMMA MeetsList ==
  ASSUME NEW S, NEW s \in Seq(S), NEW N, NEW h, NEW end, Leads(s, N, h, end),
         NEW K \in Nat, Len(s) =< K,
         WellOrdered
  PROVE  (CHOOSE f : Meets(f, K, N, h, end))[K] = s
<1>1. \A n \in Nat : Met(Beginning(s, n), N, h, end) = Beginning(s, n + 1)
  BY MetNext
<1>2. Beginning(s, 0) = <<>> /\ Beginning(s, K) = s
  BY BeginningElements, Elements, NoElements, SameElements
<1>3. \E f : Meets(f, K, N, h, end)
  <2> DEFINE w == [n \in 0..K |-> Beginning(s, n)]
  <2>1. \A n \in 0..K : n # 0 =>
          n - 1 \in 0..K /\ n - 1 \in Nat /\ (n - 1) + 1 = n
    OBVIOUS
  <2>2. \A n \in 0..K : n # 0 => w[n] = Met(w[n - 1], N, h, end)
    BY <1>1, <2>1
  <2>3. \A n \in 0..K : w[n] = IF n = 0 THEN <<>> ELSE Met(w[n - 1], N, h, end)
    BY <1>2, <2>2
  <2>4. w = [n \in 0..K |-> w[n]]
    OBVIOUS
  <2> HIDE DEF w
  <2>5. Meets(w, K, N, h, end)
    BY <2>3, <2>4, Zenon DEF Meets
  <2> QED
    BY <2>5
<1> DEFINE f == CHOOSE g : Meets(g, K, N, h, end)
<1>4. Meets(f, K, N, h, end)
  BY <1>3
<1> HIDE DEF f
<1>5. \A n \in 0..K : f[n] = IF n = 0 THEN <<>> ELSE Met(f[n - 1], N, h, end)
  BY <1>4 DEF Meets
<1>6. \A n \in 0..K : f[n] = Beginning(s, n)
  <2> DEFINE T == {n \in 0..K : f[n] # Beginning(s, n)}
  <2>1. SUFFICES ASSUME T # {}
                 PROVE  FALSE
    OBVIOUS
  <2>2. PICK n \in T : \A m \in T : n =< m
    <3>1. T \subseteq Nat
      OBVIOUS
    <3> HIDE DEF T
    <3> QED
      BY <2>1, <3>1 DEF WellOrdered
  <2>3. n # 0
    BY <1>2, <1>5
  <2>4. n \in 0..K /\ n - 1 \in 0..K /\ n - 1 \in Nat /\ (n - 1) + 1 = n /\ ~ (n =< n - 1)
    BY <2>3
  <2>5. f[n - 1] = Beginning(s, n - 1)
    BY <2>2, <2>4
  <2>6. f[n] = Met(Beginning(s, n - 1), N, h, end)
    BY <1>5, <2>3, <2>4, <2>5
  <2> QED
    BY <1>1, <2>4, <2>6, Zenon
<1> QED
  BY <1>2, <1>6 DEF f

-----------------------------------------------------------------------------
(* The inductive invariant.  The places of a list are its head, place 0,   *)
(* its elements, and its end.                                              *)

Places(k, h, s) ==
  [i \in 0..(Len(s) + 1) |->
     IF i = 0 THEN h
     ELSE IF i =< Len(s) THEN s[i] ELSE IF k = "CIRCLEQ" THEN h ELSE NULL]

Distinct(c, n) == \A i, j \in 0..n : c[i] = c[j] => i = j

(* The pointers N lead from place to place, the pointers P back.           *)
Forward(c, n, N) == \A i \in 0..n, j \in 1..(n + 1) : j = i + 1 => N[c[i]] = c[j]
Backward(c, n, P) == \A i \in 0..n, j \in 1..n : j = i + 1 => P[c[j]] = c[i]

Linked(k, c, n, N, P) ==
  /\ Distinct(c, n)
  /\ Forward(c, n, N)
  /\ k \in Backed => Backward(c, n, P)
  /\ k \in Ended => P[c[0]] = c[n]

Pointers == [Loc -> Loc \cup {NULL}]

Represents(k, L, N, P) ==
  /\ L \in [Queue -> Seq(Elem)] /\ N \in Pointers /\ P \in Pointers
  /\ \A h \in Queue : Linked(k, Places(k, h, L[h]), Len(L[h]), N, P)
  /\ \A g, h \in Queue : g # h => Members(L[g]) \cap Members(L[h]) = {}

-----------------------------------------------------------------------------
(* One list: how its places change, and that the pointers follow.          *)

(* The places of the list of a head h with elements S.                     *)
PlacesFor(k, h, c, n, S) ==
  /\ n \in Nat /\ c[0] = h
  /\ \A i \in 1..n : c[i] \in S
  /\ c[n + 1] = IF k = "CIRCLEQ" THEN h ELSE NULL
  /\ S \subseteq Elem
  /\ \A x \in S : \E i \in 1..n : c[i] = x

LEMMA PlacesOf ==
  ASSUME NEW k, NEW h \in Queue, NEW s \in Seq(Elem)
  PROVE  /\ PlacesFor(k, h, Places(k, h, s), Len(s), Members(s))
         /\ \A i \in 1..Len(s) : Places(k, h, s)[i] = s[i]
BY Elements DEF Places, Members, PlacesFor

LEMMA EmptyLinked ==
  ASSUME NEW k, NEW c, NEW N, NEW P, N[c[0]] = c[1], P[c[0]] = c[0]
  PROVE  Linked(k, c, 0, N, P)
<1>1. /\ \A i \in 0..0 : i = 0
      /\ \A j \in 1..(0 + 1) : j = 1
      /\ \A j \in 1..0 : FALSE
  OBVIOUS
<1>2. Distinct(c, 0)
  BY <1>1, Zenon DEF Distinct
<1>3. Forward(c, 0, N)
  BY <1>1 DEF Forward
<1>4. Backward(c, 0, P)
  BY <1>1, Zenon DEF Backward
<1> QED
  BY <1>2, <1>3, <1>4 DEF Linked

(* Places not touched.                                                     *)
LEMMA LinkedStill ==
  ASSUME NEW k, NEW c, NEW n \in Nat, NEW N, NEW P, NEW M, NEW R,
         Linked(k, c, n, N, P),
         \A i \in 0..n : M[c[i]] = N[c[i]] /\ R[c[i]] = P[c[i]]
  PROVE  Linked(k, c, n, M, R)
BY DEF Linked, Forward, Backward

(* The places d are the places c with e put in as place q.                 *)
Inserted(c, n, q, e, d) ==
  /\ \A i \in 0..(n + 2) : i < q => d[i] = c[i]
  /\ d[q] = e
  /\ \A i \in 0..(n + 2), j \in 0..(n + 1) : i > q /\ i = j + 1 => d[i] = c[j]

PointersInsert(k, c, n, q, e, N, P, M, R) ==
  /\ M[e] = c[q]
  /\ \A i \in 0..n : M[c[i]] = IF i = q - 1 THEN e ELSE N[c[i]]
  /\ k \in Backed => /\ \A i \in 0..n : i = q - 1 => R[e] = c[i]
                     /\ \A i \in 1..n : R[c[i]] = IF i = q THEN e ELSE P[c[i]]
  /\ k \in Ended => R[c[0]] = IF q = n + 1 THEN e ELSE P[c[0]]

LEMMA InsertLinked ==
  ASSUME NEW k, NEW c, NEW d, NEW n \in Nat, NEW q \in 1..(n + 1), NEW e,
         NEW N, NEW P, NEW M, NEW R,
         Linked(k, c, n, N, P), Inserted(c, n, q, e, d), \A i \in 0..n : c[i] # e,
         PointersInsert(k, c, n, q, e, N, P, M, R)
  PROVE  Linked(k, d, n + 1, M, R)
BY DEF Inserted, Distinct, Linked, Forward, PointersInsert, Backward

(* The places d are the places c without place p.                          *)
Removed(c, n, p, d) ==
  /\ \A i \in 0..n : i < p => d[i] = c[i]
  /\ \A i \in 0..n, j \in 1..(n + 1) : i >= p /\ j = i + 1 => d[i] = c[j]

PointersRemove(k, c, n, p, N, P, M, R) ==
  /\ \A i \in 0..n : i # p => M[c[i]] = IF i = p - 1 THEN c[p + 1] ELSE N[c[i]]
  /\ k \in Backed =>
       \A i \in 1..n : i # p => R[c[i]] = IF i = p + 1 THEN c[p - 1] ELSE P[c[i]]
  /\ k \in Ended => R[c[0]] = IF p = n THEN c[p - 1] ELSE P[c[0]]

LEMMA RemoveLinked ==
  ASSUME NEW k, NEW c, NEW d, NEW n \in Nat, NEW p \in 1..n,
         NEW N, NEW P, NEW M, NEW R,
         Linked(k, c, n, N, P), Removed(c, n, p, d),
         PointersRemove(k, c, n, p, N, P, M, R)
  PROVE  Linked(k, d, n - 1, M, R)
BY DEF Removed, Distinct, Linked, Forward, PointersRemove, Backward

(* The places d are the places c with e as place p.                        *)
Replaced(c, n, p, e, d) ==
  /\ \A i \in 0..(n + 1) : i # p => d[i] = c[i]
  /\ d[p] = e

PointersReplace(k, c, n, p, e, N, P, M, R) ==
  /\ M[e] = c[p + 1]
  /\ \A i \in 0..n : i # p => M[c[i]] = IF i = p - 1 THEN e ELSE N[c[i]]
  /\ k \in Backed =>
       /\ R[e] = c[p - 1]
       /\ \A i \in 1..n : i # p => R[c[i]] = IF i = p + 1 THEN e ELSE P[c[i]]
  /\ k \in Ended => R[c[0]] = IF p = n THEN e ELSE P[c[0]]

LEMMA ReplaceLinked ==
  ASSUME NEW k, NEW c, NEW d, NEW n \in Nat, NEW p \in 1..n, NEW e,
         NEW N, NEW P, NEW M, NEW R,
         Linked(k, c, n, N, P), Replaced(c, n, p, e, d), \A i \in 0..n : c[i] # e,
         PointersReplace(k, c, n, p, e, N, P, M, R)
  PROVE  Linked(k, d, n, M, R)
BY DEF Replaced, Linked, Distinct, Forward, PointersReplace, Backward

(* The places d are the places c with the elements of the places b behind. *)
Joined(c, n, b, m, d) ==
  /\ \A i \in 0..n : d[i] = c[i]
  /\ \A i \in 0..(n + m + 1), j \in 1..(m + 1) : i = n + j => d[i] = b[j]

PointersJoin(k, c, n, b, m, N, P, M, R) ==
  /\ \A i \in 0..n : M[c[i]] = IF i = n THEN b[1] ELSE N[c[i]]
  /\ \A j \in 1..m : M[b[j]] = N[b[j]]
  /\ k \in Backed => /\ \A i \in 1..n : R[c[i]] = P[c[i]]
                     /\ \A j \in 1..m : R[b[j]] = IF j = 1 THEN c[n] ELSE P[b[j]]
  /\ k \in Ended => R[c[0]] = b[m]

LEMMA JoinLinked ==
  ASSUME NEW k, NEW c, NEW b, NEW d, NEW n \in Nat, NEW m \in Nat \ {0},
         NEW N, NEW P, NEW M, NEW R,
         Linked(k, c, n, N, P), Linked(k, b, m, N, P), Joined(c, n, b, m, d),
         \A i \in 0..n, j \in 1..m : c[i] # b[j],
         PointersJoin(k, c, n, b, m, N, P, M, R)
  PROVE  Linked(k, d, n + m, M, R)
<1>1. /\ \A i \in 0..n : d[i] = c[i]
      /\ \A i \in 0..(n + m + 1) : i > n => i - n \in 1..(m + 1) /\ d[i] = b[i - n]
  BY DEF Joined
<1>2. Distinct(d, n + m)
  <2> SUFFICES ASSUME NEW i \in 0..(n + m), NEW j \in 0..(n + m), d[i] = d[j], i # j
               PROVE  FALSE
    BY DEF Distinct
  <2>1. \A x \in 0..(n + m) : x > n => x - n \in 1..m /\ x - n \in 0..m
    OBVIOUS
  <2>2. CASE i =< n /\ j =< n
    BY <1>1, <2>2 DEF Linked, Distinct
  <2>3. CASE i > n /\ j > n
    <3>1. b[i - n] = b[j - n] /\ i - n # j - n
      BY <1>1, <2>3
    <3> QED
      BY <2>1, <2>3, <3>1 DEF Linked, Distinct
  <2>4. CASE i =< n /\ j > n
    BY <1>1, <2>1, <2>4
  <2>5. CASE i > n /\ j =< n
    BY <1>1, <2>1, <2>5
  <2> QED
    BY <2>2, <2>3, <2>4, <2>5
<1>3. Forward(d, n + m, M)
  <2> SUFFICES ASSUME NEW i \in 0..(n + m), NEW j \in 1..(n + m + 1), j = i + 1
               PROVE  M[d[i]] = d[j]
    BY DEF Forward
  <2>1. /\ \A x \in 0..n : M[c[x]] = IF x = n THEN b[1] ELSE N[c[x]]
        /\ \A x \in 1..m : M[b[x]] = N[b[x]]
    BY DEF PointersJoin
  <2>2. CASE i < n
    <3>1. N[c[i]] = c[j]
      BY <2>2 DEF Linked, Forward
    <3> QED
      BY <1>1, <2>1, <2>2, <3>1
  <2>3. CASE i = n
    <3>1. d[i] = c[n] /\ d[j] = b[1]
      BY <1>1, <2>3
    <3> QED
      BY <2>1, <3>1
  <2>4. CASE i > n
    <3>1. /\ i - n \in 1..m /\ i - n \in 0..m /\ j - n \in 1..(m + 1)
          /\ j - n = (i - n) + 1 /\ d[i] = b[i - n] /\ d[j] = b[j - n]
      BY <1>1, <2>4
    <3>2. N[b[i - n]] = b[j - n]
      BY <3>1 DEF Linked, Forward
    <3> QED
      BY <2>1, <3>1, <3>2
  <2> QED
    BY <2>2, <2>3, <2>4
<1>4. ASSUME k \in Backed
      PROVE  Backward(d, n + m, R)
  <2> SUFFICES ASSUME NEW i \in 0..(n + m), NEW j \in 1..(n + m), j = i + 1
               PROVE  R[d[j]] = d[i]
    BY DEF Backward
  <2>1. /\ \A x \in 1..n : R[c[x]] = P[c[x]]
        /\ \A x \in 1..m : R[b[x]] = IF x = 1 THEN c[n] ELSE P[b[x]]
    BY <1>4 DEF PointersJoin
  <2>2. CASE i < n
    <3>1. P[c[j]] = c[i] /\ j \in 1..n
      BY <1>4, <2>2 DEF Linked, Backward
    <3> QED
      BY <1>1, <2>1, <2>2, <3>1
  <2>3. CASE i = n
    <3>1. d[i] = c[n] /\ d[j] = b[1]
      BY <1>1, <2>3
    <3> QED
      BY <2>1, <3>1
  <2>4. CASE i > n
    <3>1. /\ i - n \in 0..m /\ j - n \in 1..m /\ j - n # 1
          /\ j - n = (i - n) + 1 /\ d[i] = b[i - n] /\ d[j] = b[j - n]
      BY <1>1, <2>4
    <3>2. P[b[j - n]] = b[i - n]
      BY <1>4, <3>1 DEF Linked, Backward
    <3> QED
      BY <2>1, <3>1, <3>2
  <2> QED
    BY <2>2, <2>3, <2>4
<1>5. ASSUME k \in Ended
      PROVE  R[d[0]] = d[n + m]
  <2>1. d[0] = c[0] /\ d[n + m] = b[m]
    BY <1>1
  <2> QED
    BY <1>5, <2>1 DEF PointersJoin
<1> QED
  BY <1>2, <1>3, <1>4, <1>5 DEF Linked

-----------------------------------------------------------------------------
(* All lists: an operation changes the lists of the heads in H, whose      *)
(* elements, before and after, are in T.                                   *)

Confined(k, L, L1, N, P, M, R, H, T) ==
  /\ L1 \in [Queue -> Seq(Elem)] /\ M \in Pointers /\ R \in Pointers
  /\ H \subseteq Queue /\ T \subseteq Elem
  /\ \A g \in Queue \ H : L1[g] = L[g] /\ Members(L[g]) \cap T = {}
  /\ \A g \in H : /\ Linked(k, Places(k, g, L1[g]), Len(L1[g]), M, R)
                  /\ Members(L1[g]) \subseteq T
  /\ \A g, h \in H : g # h => Members(L1[g]) \cap Members(L1[h]) = {}
  /\ \A l \in Loc : l \notin H \cup T => M[l] = N[l] /\ R[l] = P[l]

LEMMA ListsStep ==
  ASSUME NEW k, NEW L, NEW N, NEW P, NEW L1, NEW M, NEW R, NEW H, NEW T,
         Represents(k, L, N, P), Confined(k, L, L1, N, P, M, R, H, T)
  PROVE  Represents(k, L1, M, R)
<1> USE DEF Confined
<1>1. ASSUME NEW g \in Queue \ H
      PROVE  Linked(k, Places(k, g, L1[g]), Len(L1[g]), M, R)
  <2> DEFINE c == Places(k, g, L[g])
  <2>1. L[g] \in Seq(Elem) /\ Len(L[g]) \in Nat /\ Linked(k, c, Len(L[g]), N, P)
    BY Elements DEF Represents
  <2>2. PlacesFor(k, g, c, Len(L[g]), Members(L[g]))
    BY <2>1, PlacesOf, Zenon
  <2>3. \A i \in 0..Len(L[g]) : c[i] \in Loc /\ c[i] \notin H \cup T
    BY ListAssumption, <2>2, <2>1 DEF Loc, PlacesFor
  <2>4. \A i \in 0..Len(L[g]) : M[c[i]] = N[c[i]] /\ R[c[i]] = P[c[i]]
    BY <2>3
  <2>5. L1[g] = L[g]
    OBVIOUS
  <2> HIDE DEF c
  <2>6. Linked(k, c, Len(L[g]), M, R)
    BY <2>1, <2>4, LinkedStill
  <2> QED
    BY <2>5, <2>6 DEF c
<1>2. ASSUME NEW g \in Queue, NEW h \in Queue, g # h
      PROVE  Members(L1[g]) \cap Members(L1[h]) = {}
  BY <1>2 DEF Represents
<1> QED
  BY <1>1, <1>2 DEF Represents

(* Only the pointers at heads in H and elements in T change.               *)
Within(H, T, U, N, P, M, R) ==
  /\ M \in Pointers /\ R \in Pointers /\ U \subseteq T /\ T \subseteq Elem
  /\ \A l \in Loc : l \notin H \cup T => M[l] = N[l] /\ R[l] = P[l]

LEMMA OneListStep ==
  ASSUME NEW k, NEW L, NEW N, NEW P, NEW M, NEW R, NEW T,
         NEW h \in Queue, NEW s \in Seq(Elem), Represents(k, L, N, P),
         Linked(k, Places(k, h, s), Len(s), M, R),
         Within({h}, T, Members(s), N, P, M, R),
         \A g \in Queue : g # h => Members(L[g]) \cap T = {}
  PROVE  Represents(k, [L EXCEPT ![h] = s], M, R)
<1> DEFINE L1 == [L EXCEPT ![h] = s]
           H == {h}
<1>1. /\ L1 \in [Queue -> Seq(Elem)] /\ L1[h] = s
      /\ \A g \in Queue : g # h => L1[g] = L[g]
  BY DEF Represents
<1> HIDE DEF L1
<1>2. H \in SUBSET Queue
  OBVIOUS
<1>3. \A g \in Queue \ H : L1[g] = L[g] /\ Members(L[g]) \cap T = {}
  BY <1>1
<1>4. \A g \in H : /\ Linked(k, Places(k, g, L1[g]), Len(L1[g]), M, R)
                   /\ Members(L1[g]) \subseteq T
  BY <1>1 DEF Within
<1>5. \A g, i \in H : g # i => Members(L1[g]) \cap Members(L1[i]) = {}
  OBVIOUS
<1>6. /\ \A l \in Loc : l \notin H \cup T => M[l] = N[l] /\ R[l] = P[l]
      /\ M \in Pointers /\ R \in Pointers /\ T \subseteq Elem
  BY DEF Within
<1> HIDE DEF H
<1>7. Confined(k, L, L1, N, P, M, R, H, T)
  BY <1>1, <1>2, <1>3, <1>4, <1>5, <1>6, Zenon DEF Confined
<1>8. Represents(k, L1, M, R)
  BY <1>7, ListsStep
<1> QED
  BY <1>8 DEF L1

(* The places of a list are apart from each other, from its end and from   *)
(* what is on no list.                                                     *)
Apart(h, c, n, S) ==
  /\ n \in Nat /\ c[0] = h /\ h \in Loc /\ h \notin Elem
  /\ \A i \in 0..n : c[i] \in Loc /\ c[i] \in {h} \cup S
  /\ \A i \in 1..n : c[i] \in Elem /\ c[i] \in S /\ c[i] # h
  /\ \A i \in 1..(n + 1) : c[i] \in Loc \cup {NULL} /\ c[i] \in {h, NULL} \cup S
  /\ \A i \in 0..n : c[i] # NULL
  /\ \A i, j \in 0..n : c[i] = c[j] => i = j
  /\ \A i \in 1..n, j \in 1..(n + 1) : c[i] = c[j] => i = j

LEMMA PlacesApart ==
  ASSUME NEW k, NEW h \in Queue, NEW c, NEW n, NEW S, NEW N, NEW P,
         PlacesFor(k, h, c, n, S), Linked(k, c, n, N, P)
  PROVE  Apart(h, c, n, S)
BY ListAssumption DEF PlacesFor, Loc, Linked, Distinct, Apart

(* The pointers M and R are N and P with e put in as place q of head h.    *)
Inserts(k, h, c, n, q, e, N, P, M, R) ==
  /\ M = [N EXCEPT ![e] = c[q], ![c[q - 1]] = e]
  /\ R \in Pointers
  /\ \A l \in Loc : l \notin {e, h, c[q]} => R[l] = P[l]
  /\ k \in Backed => R[e] = c[q - 1] /\ (q =< n => R[c[q]] = e)
  /\ k \in Ended => R[h] = IF q = n + 1 THEN e ELSE P[h]

LEMMA InsertPlaces ==
  ASSUME NEW k, NEW h \in Queue, NEW c, NEW n, NEW S, NEW N \in Pointers, NEW P,
         NEW M, NEW R, NEW q \in 1..(n + 1), NEW e \in Elem, e \notin S,
         NEW d, NEW U, PlacesFor(k, h, c, n, S), PlacesFor(k, h, d, n + 1, U),
         Linked(k, c, n, N, P), Inserted(c, n, q, e, d),
         Inserts(k, h, c, n, q, e, N, P, M, R)
  PROVE  Linked(k, d, n + 1, M, R) /\ Within({h}, S \cup {e}, U, N, P, M, R)
<1>1. /\ n \in Nat /\ c[0] = h /\ h \in Loc /\ h \notin Elem
      /\ \A i \in 0..n : c[i] \in Loc /\ c[i] \in {h} \cup S
      /\ \A i \in 1..n : c[i] \in Elem /\ c[i] \in S /\ c[i] # h
      /\ \A i \in 1..(n + 1) : c[i] \in Loc \cup {NULL} /\ c[i] \in {h, NULL} \cup S
      /\ \A i, j \in 0..n : c[i] = c[j] => i = j
      /\ \A i \in 1..n, j \in 1..(n + 1) : c[i] = c[j] => i = j
  BY PlacesApart, Zenon DEF Apart
<1>2. e # h /\ e \in Loc /\ NULL \notin Loc
  BY ListAssumption DEF Loc
<1>3. \A i \in 0..n : c[i] # e
  BY <1>1, <1>2
<1>4. /\ M = [N EXCEPT ![e] = c[q], ![c[q - 1]] = e]
      /\ R \in Pointers
      /\ \A l \in Loc : l \notin {e, h, c[q]} => R[l] = P[l]
      /\ k \in Backed => R[e] = c[q - 1] /\ (q =< n => R[c[q]] = e)
      /\ k \in Ended => R[h] = IF q = n + 1 THEN e ELSE P[h]
  BY DEF Inserts
<1>5. q - 1 \in 0..n /\ q \in Nat
  BY <1>1
<1>6. c[q - 1] \in Loc /\ c[q - 1] # e /\ c[q] \in Loc \cup {NULL}
  BY <1>1, <1>3, <1>5
<1>7. /\ M \in Pointers /\ M[e] = c[q] /\ M[c[q - 1]] = e
      /\ \A l \in Loc : l # e /\ l # c[q - 1] => M[l] = N[l]
  BY <1>2, <1>4, <1>6 DEF Pointers
<1>8. PointersInsert(k, c, n, q, e, N, P, M, R)
  <2>1. \A i \in 0..n : M[c[i]] = IF i = q - 1 THEN e ELSE N[c[i]]
    BY <1>1, <1>3, <1>5, <1>7
  <2>2. \A i \in 1..n : i # q => R[c[i]] = P[c[i]]
    <3> SUFFICES ASSUME NEW i \in 1..n, i # q
                 PROVE  R[c[i]] = P[c[i]]
      OBVIOUS
    <3>1. c[i] \in Loc /\ c[i] # e /\ c[i] # h /\ c[i] # c[q]
      BY <1>1, <1>3
    <3> QED
      BY <1>4, <3>1
  <2>3. k \in Backed => /\ \A i \in 0..n : i = q - 1 => R[e] = c[i]
                        /\ \A i \in 1..n : R[c[i]] = IF i = q THEN e ELSE P[c[i]]
    BY <1>4, <2>2
  <2> QED
    BY <1>1, <1>4, <1>7, <2>1, <2>3, Zenon DEF PointersInsert
<1>9. Linked(k, d, n + 1, M, R)
  BY <1>1, <1>3, <1>8, InsertLinked
<1>10. U \subseteq S \cup {e}
  <2> SUFFICES ASSUME NEW x \in U, x # e
               PROVE  x \in S
    OBVIOUS
  <2>1. PICK i \in 1..(n + 1) : d[i] = x
    BY DEF PlacesFor
  <2>2. CASE i < q
    <3>1. d[i] = c[i] /\ i \in 1..n
      BY <1>1, <2>2 DEF Inserted
    <3> QED
      BY <1>1, <2>1, <3>1
  <2>3. CASE i = q
    BY <2>1, <2>3 DEF Inserted
  <2>4. CASE i > q
    <3>1. /\ i \in 0..(n + 2) /\ i - 1 \in 0..(n + 1) /\ i - 1 \in 1..n
          /\ i = (i - 1) + 1
      BY <1>1, <2>4
    <3>2. d[i] = c[i - 1]
      BY <2>4, <3>1 DEF Inserted
    <3> QED
      BY <1>1, <2>1, <3>1, <3>2
  <2> QED
    BY <1>5, <2>2, <2>3, <2>4
<1>11. \A l \in Loc : l \notin {h} \cup S \cup {e} => M[l] = N[l] /\ R[l] = P[l]
  <2>1. c[q - 1] \in {h} \cup S /\ c[q] \in {h, NULL} \cup S
    BY <1>1, <1>5
  <2> QED
    BY <1>2, <1>4, <1>7, <2>1, Zenon
<1>12. S \cup {e} \subseteq Elem
  BY DEF PlacesFor
<1> QED
  BY <1>4, <1>7, <1>9, <1>10, <1>11, <1>12, Zenon DEF Within

LEMMA InsertStep ==
  ASSUME NEW k, NEW L, NEW N, NEW P, NEW M, NEW R, NEW h \in Queue,
         NEW e \in Elem, NEW s \in Seq(Elem), NEW q \in 1..(Len(L[h]) + 1),
         Represents(k, L, N, P), \A g \in Queue : e \notin Members(L[g]),
         Len(s) = Len(L[h]) + 1,
         Inserted(Places(k, h, L[h]), Len(L[h]), q, e, Places(k, h, s)),
         Inserts(k, h, Places(k, h, L[h]), Len(L[h]), q, e, N, P, M, R)
  PROVE  Represents(k, [L EXCEPT ![h] = s], M, R)
<1> DEFINE c == Places(k, h, L[h])
           n == Len(L[h])
           d == Places(k, h, s)
           T == Members(L[h]) \cup {e}
<1>1. /\ L[h] \in Seq(Elem) /\ N \in Pointers /\ Linked(k, c, n, N, P)
      /\ \A g \in Queue : g # h => Members(L[g]) \cap Members(L[h]) = {}
  BY DEF Represents
<1>2. PlacesFor(k, h, c, n, Members(L[h])) /\ PlacesFor(k, h, d, n + 1, Members(s))
  BY <1>1, PlacesOf
<1>3. \A g \in Queue : g # h => Members(L[g]) \cap T = {}
  BY <1>1
<1>4. Len(s) = n + 1 /\ e \notin Members(L[h]) /\ q \in 1..(n + 1)
  OBVIOUS
<1> HIDE DEF c, n, d
<1>5. Linked(k, d, n + 1, M, R) /\ Within({h}, T, Members(s), N, P, M, R)
  <2>1. Inserted(c, n, q, e, d) /\ Inserts(k, h, c, n, q, e, N, P, M, R)
    BY DEF c, n, d
  <2> QED
    BY <1>1, <1>2, <1>4, <2>1, InsertPlaces, Zenon
<1> HIDE DEF T
<1>6. Linked(k, Places(k, h, s), Len(s), M, R)
  BY <1>4, <1>5 DEF d
<1> QED
  BY <1>3, <1>5, <1>6, OneListStep

(* The pointers M and R are N and P with place p of head h taken out.      *)
Removes(k, h, c, n, p, N, P, M, R) ==
  /\ M = [N EXCEPT ![c[p - 1]] = c[p + 1]]
  /\ R \in Pointers
  /\ \A l \in Loc : l \notin {h, c[p + 1]} => R[l] = P[l]
  /\ k \in Backed => (p < n => R[c[p + 1]] = c[p - 1])
  /\ k \in Ended => R[h] = IF p = n THEN c[p - 1] ELSE P[h]

LEMMA RemovePlaces ==
  ASSUME NEW k, NEW h \in Queue, NEW c, NEW n, NEW S, NEW N \in Pointers, NEW P,
         NEW M, NEW R, NEW p \in 1..n,
         NEW d, NEW U, PlacesFor(k, h, c, n, S), PlacesFor(k, h, d, n - 1, U),
         Linked(k, c, n, N, P), Removed(c, n, p, d),
         Removes(k, h, c, n, p, N, P, M, R)
  PROVE  Linked(k, d, n - 1, M, R) /\ Within({h}, S, U, N, P, M, R)
<1>1. /\ n \in Nat /\ c[0] = h /\ h \in Loc /\ h \notin Elem
      /\ \A i \in 0..n : c[i] \in Loc /\ c[i] \in {h} \cup S
      /\ \A i \in 1..n : c[i] \in Elem /\ c[i] \in S /\ c[i] # h
      /\ \A i \in 1..(n + 1) : c[i] \in Loc \cup {NULL} /\ c[i] \in {h, NULL} \cup S
      /\ \A i, j \in 0..n : c[i] = c[j] => i = j
      /\ \A i \in 1..n, j \in 1..(n + 1) : c[i] = c[j] => i = j
  BY PlacesApart, Zenon DEF Apart
<1>2. NULL \notin Loc
  BY ListAssumption DEF Loc
<1>4. /\ M = [N EXCEPT ![c[p - 1]] = c[p + 1]]
      /\ R \in Pointers
      /\ \A l \in Loc : l \notin {h, c[p + 1]} => R[l] = P[l]
      /\ k \in Backed => (p < n => R[c[p + 1]] = c[p - 1])
      /\ k \in Ended => R[h] = IF p = n THEN c[p - 1] ELSE P[h]
  BY DEF Removes
<1>5. p - 1 \in 0..n /\ p + 1 \in 1..(n + 1) /\ p \in Nat
  BY <1>1
<1>6. c[p - 1] \in Loc /\ c[p + 1] \in Loc \cup {NULL}
  BY <1>1, <1>5
<1>7. /\ M \in Pointers /\ M[c[p - 1]] = c[p + 1]
      /\ \A l \in Loc : l # c[p - 1] => M[l] = N[l]
  BY <1>4, <1>6 DEF Pointers
<1>8. PointersRemove(k, c, n, p, N, P, M, R)
  <2>1. \A i \in 0..n : i # p => M[c[i]] = IF i = p - 1 THEN c[p + 1] ELSE N[c[i]]
    BY <1>1, <1>5, <1>7
  <2>2. \A i \in 1..n : i # p + 1 => R[c[i]] = P[c[i]]
    <3> SUFFICES ASSUME NEW i \in 1..n, i # p + 1
                 PROVE  R[c[i]] = P[c[i]]
      OBVIOUS
    <3>1. c[i] \in Loc /\ c[i] # h /\ c[i] # c[p + 1]
      BY <1>1, <1>5
    <3> QED
      BY <1>4, <3>1
  <2>3. k \in Backed =>
          \A i \in 1..n : i # p => R[c[i]] = IF i = p + 1 THEN c[p - 1] ELSE P[c[i]]
    <3>1. p + 1 \in 1..n => p < n
      BY <1>1
    <3> QED
      BY <1>4, <2>2, <3>1
  <2> QED
    BY <1>1, <1>4, <2>1, <2>3 DEF PointersRemove
<1>9. Linked(k, d, n - 1, M, R)
  BY <1>1, <1>8, RemoveLinked
<1>10. U \subseteq S
  <2> SUFFICES ASSUME NEW x \in U
               PROVE  x \in S
    OBVIOUS
  <2>1. PICK i \in 1..(n - 1) : d[i] = x
    BY DEF PlacesFor
  <2>2. CASE i < p
    <3>1. d[i] = c[i] /\ i \in 1..n
      BY <1>1, <2>2 DEF Removed
    <3> QED
      BY <1>1, <2>1, <3>1
  <2>3. CASE i >= p
    <3>1. i \in 0..n /\ i + 1 \in 1..(n + 1) /\ i + 1 \in 1..n
      BY <1>1
    <3>2. d[i] = c[i + 1]
      BY <2>3, <3>1 DEF Removed
    <3> QED
      BY <1>1, <2>1, <3>1, <3>2
  <2> QED
    BY <1>5, <2>2, <2>3
<1>11. \A l \in Loc : l \notin {h} \cup S => M[l] = N[l] /\ R[l] = P[l]
  <2>1. c[p - 1] \in {h} \cup S /\ c[p + 1] \in {h, NULL} \cup S
    BY <1>1, <1>5
  <2> QED
    BY <1>2, <1>4, <1>7, <2>1
<1>12. S \subseteq Elem
  BY DEF PlacesFor
<1> QED
  BY <1>4, <1>7, <1>9, <1>10, <1>11, <1>12 DEF Within

LEMMA RemoveStep ==
  ASSUME NEW k, NEW L, NEW N, NEW P, NEW M, NEW R, NEW h \in Queue,
         NEW s \in Seq(Elem), NEW p \in 1..Len(L[h]),
         Represents(k, L, N, P), Len(s) = Len(L[h]) - 1,
         Removed(Places(k, h, L[h]), Len(L[h]), p, Places(k, h, s)),
         Removes(k, h, Places(k, h, L[h]), Len(L[h]), p, N, P, M, R)
  PROVE  Represents(k, [L EXCEPT ![h] = s], M, R)
<1> DEFINE c == Places(k, h, L[h])
           n == Len(L[h])
           d == Places(k, h, s)
           T == Members(L[h])
<1>1. /\ L[h] \in Seq(Elem) /\ N \in Pointers /\ Linked(k, c, n, N, P)
      /\ \A g \in Queue : g # h => Members(L[g]) \cap T = {}
  BY DEF Represents
<1>2. PlacesFor(k, h, c, n, T) /\ PlacesFor(k, h, d, n - 1, Members(s))
  BY <1>1, PlacesOf
<1>4. Len(s) = n - 1 /\ p \in 1..n
  OBVIOUS
<1> HIDE DEF c, n, d
<1>5. Linked(k, d, n - 1, M, R) /\ Within({h}, T, Members(s), N, P, M, R)
  <2>1. Removed(c, n, p, d) /\ Removes(k, h, c, n, p, N, P, M, R)
    BY DEF c, n, d
  <2> QED
    BY <1>1, <1>2, <1>4, <2>1, RemovePlaces, Zenon
<1> HIDE DEF T
<1>6. Linked(k, Places(k, h, s), Len(s), M, R)
  BY <1>4, <1>5 DEF d
<1> QED
  BY <1>1, <1>5, <1>6, OneListStep

(* The pointers M and R are N and P with e for place p of head h.          *)
Replaces(k, h, c, n, p, e, N, P, M, R) ==
  /\ M = [N EXCEPT ![e] = c[p + 1], ![c[p - 1]] = e]
  /\ R \in Pointers
  /\ \A l \in Loc : l \notin {e, h, c[p + 1]} => R[l] = P[l]
  /\ k \in Backed => R[e] = c[p - 1] /\ (p < n => R[c[p + 1]] = e)
  /\ k \in Ended => R[h] = IF p = n THEN e ELSE P[h]

LEMMA ReplacePlaces ==
  ASSUME NEW k, NEW h \in Queue, NEW c, NEW n, NEW S, NEW N \in Pointers, NEW P,
         NEW M, NEW R, NEW p \in 1..n, NEW e \in Elem, e \notin S,
         NEW d, NEW U, PlacesFor(k, h, c, n, S), PlacesFor(k, h, d, n, U),
         Linked(k, c, n, N, P), Replaced(c, n, p, e, d),
         Replaces(k, h, c, n, p, e, N, P, M, R)
  PROVE  Linked(k, d, n, M, R) /\ Within({h}, S \cup {e}, U, N, P, M, R)
<1>1. /\ n \in Nat /\ c[0] = h /\ h \in Loc /\ h \notin Elem
      /\ \A i \in 0..n : c[i] \in Loc /\ c[i] \in {h} \cup S
      /\ \A i \in 1..n : c[i] \in Elem /\ c[i] \in S /\ c[i] # h
      /\ \A i \in 1..(n + 1) : c[i] \in Loc \cup {NULL} /\ c[i] \in {h, NULL} \cup S
      /\ \A i, j \in 0..n : c[i] = c[j] => i = j
      /\ \A i \in 1..n, j \in 1..(n + 1) : c[i] = c[j] => i = j
  BY PlacesApart, Zenon DEF Apart
<1>2. e # h /\ e \in Loc /\ NULL \notin Loc
  BY ListAssumption DEF Loc
<1>3. \A i \in 0..n : c[i] # e
  BY <1>1, <1>2
<1>4. /\ M = [N EXCEPT ![e] = c[p + 1], ![c[p - 1]] = e]
      /\ R \in Pointers
      /\ \A l \in Loc : l \notin {e, h, c[p + 1]} => R[l] = P[l]
      /\ k \in Backed => R[e] = c[p - 1] /\ (p < n => R[c[p + 1]] = e)
      /\ k \in Ended => R[h] = IF p = n THEN e ELSE P[h]
  BY DEF Replaces
<1>5. p - 1 \in 0..n /\ p + 1 \in 1..(n + 1) /\ p \in Nat
  BY <1>1
<1>6. c[p - 1] \in Loc /\ c[p - 1] # e /\ c[p + 1] \in Loc \cup {NULL}
  BY <1>1, <1>3, <1>5
<1>7. /\ M \in Pointers /\ M[e] = c[p + 1] /\ M[c[p - 1]] = e
      /\ \A l \in Loc : l # e /\ l # c[p - 1] => M[l] = N[l]
  BY <1>2, <1>4, <1>6 DEF Pointers
<1>8. PointersReplace(k, c, n, p, e, N, P, M, R)
  <2>1. \A i \in 0..n : i # p => M[c[i]] = IF i = p - 1 THEN e ELSE N[c[i]]
    BY <1>1, <1>3, <1>5, <1>7
  <2>2. \A i \in 1..n : i # p + 1 => R[c[i]] = P[c[i]]
    <3> SUFFICES ASSUME NEW i \in 1..n, i # p + 1
                 PROVE  R[c[i]] = P[c[i]]
      OBVIOUS
    <3>1. c[i] \in Loc /\ c[i] # e /\ c[i] # h /\ c[i] # c[p + 1]
      BY <1>1, <1>3, <1>5
    <3> QED
      BY <1>4, <3>1
  <2>3. k \in Backed =>
          /\ R[e] = c[p - 1]
          /\ \A i \in 1..n : i # p => R[c[i]] = IF i = p + 1 THEN e ELSE P[c[i]]
    <3>1. p + 1 \in 1..n => p < n
      BY <1>1
    <3> QED
      BY <1>4, <2>2, <3>1
  <2> QED
    BY <1>1, <1>4, <1>7, <2>1, <2>3, Zenon DEF PointersReplace
<1>9. Linked(k, d, n, M, R)
  BY <1>1, <1>3, <1>8, ReplaceLinked, Zenon
<1>10. U \subseteq S \cup {e}
  <2> SUFFICES ASSUME NEW x \in U, x # e
               PROVE  x \in S
    OBVIOUS
  <2>1. PICK i \in 1..n : d[i] = x
    BY DEF PlacesFor
  <2>2. d[i] = c[i]
    BY <1>1, <2>1 DEF Replaced
  <2> QED
    BY <1>1, <2>1, <2>2
<1>11. \A l \in Loc : l \notin {h} \cup S \cup {e} => M[l] = N[l] /\ R[l] = P[l]
  <2>1. c[p - 1] \in {h} \cup S /\ c[p + 1] \in {h, NULL} \cup S
    BY <1>1, <1>5
  <2> QED
    BY <1>2, <1>4, <1>7, <2>1, Zenon
<1>12. S \cup {e} \subseteq Elem
  BY DEF PlacesFor
<1> QED
  BY <1>4, <1>7, <1>9, <1>10, <1>11, <1>12, Zenon DEF Within

LEMMA ReplaceStep ==
  ASSUME NEW k, NEW L, NEW N, NEW P, NEW M, NEW R, NEW h \in Queue,
         NEW e \in Elem, NEW s \in Seq(Elem), NEW p \in 1..Len(L[h]),
         Represents(k, L, N, P), \A g \in Queue : e \notin Members(L[g]),
         Len(s) = Len(L[h]),
         Replaced(Places(k, h, L[h]), Len(L[h]), p, e, Places(k, h, s)),
         Replaces(k, h, Places(k, h, L[h]), Len(L[h]), p, e, N, P, M, R)
  PROVE  Represents(k, [L EXCEPT ![h] = s], M, R)
<1> DEFINE c == Places(k, h, L[h])
           n == Len(L[h])
           d == Places(k, h, s)
           T == Members(L[h]) \cup {e}
<1>1. /\ L[h] \in Seq(Elem) /\ N \in Pointers /\ Linked(k, c, n, N, P)
      /\ \A g \in Queue : g # h => Members(L[g]) \cap Members(L[h]) = {}
  BY DEF Represents
<1>2. PlacesFor(k, h, c, n, Members(L[h])) /\ PlacesFor(k, h, d, n, Members(s))
  BY <1>1, PlacesOf, Zenon
<1>3. \A g \in Queue : g # h => Members(L[g]) \cap T = {}
  BY <1>1
<1>4. Len(s) = n /\ e \notin Members(L[h]) /\ p \in 1..n
  OBVIOUS
<1> HIDE DEF c, n, d
<1>5. Linked(k, d, n, M, R) /\ Within({h}, T, Members(s), N, P, M, R)
  <2>1. Replaced(c, n, p, e, d) /\ Replaces(k, h, c, n, p, e, N, P, M, R)
    BY DEF c, n, d
  <2> QED
    BY <1>1, <1>2, <1>4, <2>1, ReplacePlaces, Zenon
<1> HIDE DEF T
<1>6. Linked(k, Places(k, h, s), Len(s), M, R)
  BY <1>4, <1>5 DEF d
<1> QED
  BY <1>3, <1>5, <1>6, OneListStep

(* The pointers M and R are N and P with the list of g put behind that of  *)
(* h, which ends at NULL.                                                  *)
Joins(k, h, g, c, n, b, m, N, P, M, R) ==
  /\ M = [N EXCEPT ![c[n]] = b[1], ![g] = NULL]
  /\ R \in Pointers /\ R[h] = b[m] /\ R[g] = g
  /\ k \in Backed => R[b[1]] = c[n]
  /\ \A l \in Loc : l \notin {h, g, b[1]} => R[l] = P[l]

Separate(c, n, b, m) == \A i \in 0..n, j \in 1..m : c[i] # b[j]

LEMMA JoinPointers ==
  ASSUME NEW k, NEW h \in Queue, NEW g \in Queue, h # g,
         NEW c, NEW n, NEW S, NEW b, NEW m, NEW V, NEW N \in Pointers, NEW P,
         NEW M, NEW R, m # 0, S \cap V = {}, Apart(h, c, n, S), Apart(g, b, m, V),
         Joins(k, h, g, c, n, b, m, N, P, M, R),
         NEW U, U \subseteq S \cup V, S \cup V \subseteq Elem
  PROVE  /\ PointersJoin(k, c, n, b, m, N, P, M, R)
         /\ Separate(c, n, b, m) /\ M[g] = NULL
         /\ Within({h, g}, S \cup V, U, N, P, M, R)
BY DEF Apart, Loc, Joins, Pointers, PointersJoin, Separate, Within

LEMMA JoinMembers ==
  ASSUME NEW k, NEW h, NEW g, NEW c, NEW n, NEW S, NEW b, NEW m, NEW V, NEW d, NEW U,
         PlacesFor(k, h, c, n, S), PlacesFor(k, g, b, m, V),
         PlacesFor(k, h, d, n + m, U), Joined(c, n, b, m, d)
  PROVE  U \subseteq S \cup V
<1> SUFFICES ASSUME NEW x \in U
             PROVE  x \in S \cup V
  OBVIOUS
<1>1. PICK i \in 1..(n + m) : d[i] = x
  BY DEF PlacesFor
<1>2. /\ n \in Nat /\ \A j \in 1..n : c[j] \in S
      /\ m \in Nat /\ \A j \in 1..m : b[j] \in V
  BY DEF PlacesFor
<1>3. CASE i =< n
  <2>1. d[i] = c[i] /\ i \in 1..n
    BY <1>2, <1>3 DEF Joined
  <2> QED
    BY <1>1, <1>2, <2>1
<1>4. CASE i > n
  <2>1. /\ i \in 0..(n + m + 1) /\ i - n \in 1..(m + 1) /\ i - n \in 1..m
        /\ i = n + (i - n)
    BY <1>2, <1>4
  <2>2. d[i] = b[i - n]
    BY <2>1 DEF Joined
  <2> QED
    BY <1>1, <1>2, <2>1, <2>2
<1> QED
  BY <1>2, <1>3, <1>4

LEMMA JoinPlaces ==
  ASSUME NEW k \in {"SIMPLEQ", "TAILQ"}, NEW h \in Queue, NEW g \in Queue, h # g,
         NEW c, NEW n, NEW S, NEW b, NEW m, NEW V, NEW N \in Pointers, NEW P,
         NEW M, NEW R, m # 0, S \cap V = {}, NEW d, NEW U, NEW a,
         PlacesFor(k, h, c, n, S), PlacesFor(k, g, b, m, V),
         PlacesFor(k, h, d, n + m, U), PlacesFor(k, g, a, 0, {}),
         Linked(k, c, n, N, P), Linked(k, b, m, N, P), Joined(c, n, b, m, d),
         Joins(k, h, g, c, n, b, m, N, P, M, R)
  PROVE  /\ Linked(k, d, n + m, M, R) /\ Linked(k, a, 0, M, R)
         /\ Within({h, g}, S \cup V, U, N, P, M, R)
<1>1. Apart(h, c, n, S) /\ Apart(g, b, m, V)
  BY PlacesApart
<1>2. /\ U \subseteq S \cup V /\ S \cup V \subseteq Elem
      /\ n \in Nat /\ m \in Nat \ {0}
  <2>1. U \subseteq S \cup V
    BY JoinMembers
  <2> QED
    BY <2>1 DEF PlacesFor
<1>3. /\ PointersJoin(k, c, n, b, m, N, P, M, R)
      /\ Separate(c, n, b, m) /\ M[g] = NULL
      /\ Within({h, g}, S \cup V, U, N, P, M, R)
  BY <1>1, <1>2, JoinPointers, Zenon
<1>4. Linked(k, d, n + m, M, R)
  BY <1>2, <1>3, JoinLinked DEF Separate
<1>5. a[0] = g /\ a[1] = NULL
  <2>1. a[0] = g /\ a[0 + 1] = IF k = "CIRCLEQ" THEN g ELSE NULL
    BY DEF PlacesFor
  <2>2. k # "CIRCLEQ" /\ 0 + 1 = 1
    OBVIOUS
  <2> QED
    BY <2>1, <2>2
<1>6. R[g] = g
  BY DEF Joins
<1>7. Linked(k, a, 0, M, R)
  BY <1>3, <1>5, <1>6, EmptyLinked
<1> QED
  BY <1>3, <1>4, <1>7, Zenon

LEMMA JoinStep ==
  ASSUME NEW k \in {"SIMPLEQ", "TAILQ"}, NEW L, NEW N, NEW P, NEW M, NEW R,
         NEW h \in Queue, NEW g \in Queue, h # g, L[g] # <<>>,
         NEW s \in Seq(Elem), Len(s) = Len(L[h]) + Len(L[g]),
         Represents(k, L, N, P),
         Joined(Places(k, h, L[h]), Len(L[h]), Places(k, g, L[g]), Len(L[g]),
                Places(k, h, s)),
         Joins(k, h, g, Places(k, h, L[h]), Len(L[h]), Places(k, g, L[g]), Len(L[g]),
               N, P, M, R)
  PROVE  Represents(k, [L EXCEPT ![h] = s, ![g] = <<>>], M, R)
<1> DEFINE c == Places(k, h, L[h])
           n == Len(L[h])
           b == Places(k, g, L[g])
           m == Len(L[g])
           d == Places(k, h, s)
           a == Places(k, g, <<>>)
           T == Members(L[h]) \cup Members(L[g])
           L1 == [L EXCEPT ![h] = s, ![g] = <<>>]
           H == {h, g}
<1>1. /\ L \in [Queue -> Seq(Elem)]
      /\ L[h] \in Seq(Elem) /\ L[g] \in Seq(Elem) /\ N \in Pointers
      /\ Linked(k, c, n, N, P) /\ Linked(k, b, m, N, P)
      /\ Members(L[h]) \cap Members(L[g]) = {}
      /\ \A i \in Queue : i # h /\ i # g => Members(L[i]) \cap T = {}
  BY DEF Represents
<1>2. <<>> \in Seq(Elem) /\ Len(<<>>) = 0 /\ Members(<<>>) = {} /\ m # 0
  BY <1>1, NoElements DEF Members
<1>3. /\ PlacesFor(k, h, c, n, Members(L[h])) /\ PlacesFor(k, g, b, m, Members(L[g]))
      /\ PlacesFor(k, h, d, n + m, Members(s)) /\ PlacesFor(k, g, a, 0, {})
  <2>1. PlacesFor(k, g, a, Len(<<>>), Members(<<>>))
    BY <1>2, PlacesOf, Zenon
  <2>2. PlacesFor(k, g, a, 0, {})
    BY <1>2, <2>1, Zenon
  <2>3. PlacesFor(k, h, c, n, Members(L[h])) /\ PlacesFor(k, g, b, m, Members(L[g]))
    BY <1>1, PlacesOf
  <2>4. PlacesFor(k, h, d, n + m, Members(s))
    BY PlacesOf, Zenon
  <2> QED
    BY <2>2, <2>3, <2>4, Zenon
<1>4. Joined(c, n, b, m, d) /\ Joins(k, h, g, c, n, b, m, N, P, M, R)
  BY Zenon
<1>5. /\ L1 \in [Queue -> Seq(Elem)] /\ L1[h] = s /\ L1[g] = <<>>
      /\ \A i \in Queue : i # h /\ i # g => L1[i] = L[i]
  BY <1>1, <1>2, Zenon
<1>6. Len(s) = n + m
  BY Zenon
<1> HIDE DEF c, n, b, m, d, a, L1
<1>7. /\ Linked(k, d, n + m, M, R) /\ Linked(k, a, 0, M, R)
      /\ M \in Pointers /\ R \in Pointers
      /\ Members(s) \subseteq T /\ T \subseteq Elem
      /\ \A l \in Loc : l \notin {h, g} \cup Members(L[h]) \cup Members(L[g])
           => M[l] = N[l] /\ R[l] = P[l]
  <2> DEFINE S == Members(L[h])
             V == Members(L[g])
             U == Members(s)
  <2>1. /\ S \cap V = {} /\ PlacesFor(k, h, c, n, S) /\ PlacesFor(k, g, b, m, V)
        /\ PlacesFor(k, h, d, n + m, U) /\ T = S \cup V
    BY <1>1, <1>3
  <2> HIDE DEF S, V, U, T
  <2>2. /\ Linked(k, d, n + m, M, R) /\ Linked(k, a, 0, M, R)
        /\ Within({h, g}, S \cup V, U, N, P, M, R)
    BY <1>1, <1>2, <1>3, <1>4, <2>1, JoinPlaces, Zenon
  <2> QED
    BY <2>1, <2>2, Zenon DEF S, V, U, Within
<1>8. \A i \in H : /\ Linked(k, Places(k, i, L1[i]), Len(L1[i]), M, R)
                   /\ Members(L1[i]) \subseteq T
  BY <1>5, <1>6, <1>7, <1>2 DEF d, a
<1>9. \A i, j \in H : i # j => Members(L1[i]) \cap Members(L1[j]) = {}
  BY <1>2, <1>5, Zenon
<1>10. \A l \in Loc : l \notin H \cup T => M[l] = N[l] /\ R[l] = P[l]
  BY <1>7, Zenon
<1>11. \A i \in Queue \ H : L1[i] = L[i] /\ Members(L[i]) \cap T = {}
  BY <1>1, <1>5
<1>12. H \subseteq Queue
  BY Zenon
<1> HIDE DEF T, H
<1>13. Confined(k, L, L1, N, P, M, R, H, T)
  BY <1>5, <1>7, <1>8, <1>9, <1>10, <1>11, <1>12, Zenon DEF Confined
<1>14. Represents(k, L1, M, R)
  BY <1>13, ListsStep, Zenon
<1> QED
  BY <1>14 DEF L1

-----------------------------------------------------------------------------
(* The operations on sequences move the places the way the pointers go.    *)

(* c is h, the n elements of s, and z.                                     *)
Row(c, h, s, n, z) ==
  \A i \in 0..(n + 1) : c[i] = IF i = 0 THEN h ELSE IF i =< n THEN s[i] ELSE z

(* r is s with e as element q, and s without element p.                    *)
PutInAt(s, n, q, e, r) ==
  /\ \A i \in 1..(n + 1) : i < q => r[i] = s[i]
  /\ r[q] = e
  /\ \A i \in 1..(n + 1), j \in 1..n : i > q /\ i = j + 1 => r[i] = s[j]

TakenOutAt(s, n, p, r) ==
  /\ \A i \in 1..(n - 1) : i < p => r[i] = s[i]
  /\ \A i \in 1..(n - 1), j \in 1..n : i >= p /\ j = i + 1 => r[i] = s[j]

LEMMA PlacesRow ==
  ASSUME NEW k, NEW h \in Queue, NEW s \in Seq(Elem)
  PROVE  /\ Len(s) \in Nat
         /\ Row(Places(k, h, s), h, s, Len(s), IF k = "CIRCLEQ" THEN h ELSE NULL)
BY Elements DEF Places, Row

LEMMA RowPutIn ==
  ASSUME NEW c, NEW d, NEW h, NEW s, NEW r, NEW n \in Nat, NEW z, NEW e,
         NEW q \in 1..(n + 1), Row(c, h, s, n, z), Row(d, h, r, n + 1, z),
         PutInAt(s, n, q, e, r)
  PROVE  Inserted(c, n, q, e, d)
BY DEF Row, PutInAt, Inserted

LEMMA RowTakeOut ==
  ASSUME NEW c, NEW d, NEW h, NEW s, NEW r, NEW n \in Nat, NEW z, NEW p \in 1..n,
         Row(c, h, s, n, z), Row(d, h, r, n - 1, z), TakenOutAt(s, n, p, r)
  PROVE  Removed(c, n, p, d)
BY DEF Row, TakenOutAt, Removed

(* Each operation on one list as a step.                                   *)
Fresh(e, L) == \A g \in Queue : e \notin Members(L[g])

LEMMA SequencePutIn ==
  ASSUME NEW s \in Seq(Elem), NEW e \in Elem, NEW q \in 1..(Len(s) + 1), NEW r,
         \/ r = PutIn(s, q, e)
         \/ q = 1 /\ r = <<e>> \o s
         \/ q = Len(s) + 1 /\ r = Append(s, e)
  PROVE  r \in Seq(Elem) /\ Len(r) = Len(s) + 1 /\ PutInAt(s, Len(s), q, e, r)
<1>1. Len(s) \in Nat
  BY Elements
<1>2. CASE r = PutIn(s, q, e)
  <2>1. /\ r \in Seq(Elem) /\ Len(r) = Len(s) + 1 /\ r[q] = e
        /\ \A i \in 1..(q - 1) : r[i] = s[i]
        /\ \A i \in (q + 1)..(Len(s) + 1) : r[i] = s[i - 1]
    <3>1. /\ PutIn(s, q, e) \in Seq(Elem) /\ Len(PutIn(s, q, e)) = Len(s) + 1
          /\ PutIn(s, q, e)[q] = e
          /\ \A i \in 1..(q - 1) : PutIn(s, q, e)[i] = s[i]
          /\ \A i \in (q + 1)..(Len(s) + 1) : PutIn(s, q, e)[i] = s[i - 1]
      BY PutInElements
    <3> QED
      BY <1>2, <3>1
  <2>2. \A i \in 1..(Len(s) + 1) : i < q => r[i] = s[i]
    BY <1>1, <2>1
  <2>3. ASSUME NEW i \in 1..(Len(s) + 1), NEW j \in 1..Len(s), i > q, i = j + 1
        PROVE  r[i] = s[j]
    BY <1>1, <2>3, <2>1
  <2> QED
    BY <2>1, <2>2, <2>3 DEF PutInAt
<1>3. CASE q = 1 /\ r = <<e>> \o s
  BY <1>3, PutFirstElements, <1>1 DEF PutInAt
<1>4. CASE q = Len(s) + 1 /\ r = Append(s, e)
  BY <1>4, AppendElements, <1>1 DEF PutInAt
<1> QED
  BY <1>2, <1>3, <1>4

LEMMA PutInStep ==
  ASSUME NEW k, NEW L, NEW N, NEW P, NEW M, NEW R, NEW h \in Queue,
         NEW e \in Elem, NEW q \in 1..(Len(L[h]) + 1), NEW r,
         Represents(k, L, N, P), Fresh(e, L),
         \/ r = PutIn(L[h], q, e)
         \/ q = 1 /\ r = <<e>> \o L[h]
         \/ q = Len(L[h]) + 1 /\ r = Append(L[h], e),
         Inserts(k, h, Places(k, h, L[h]), Len(L[h]), q, e, N, P, M, R)
  PROVE  Represents(k, [L EXCEPT ![h] = r], M, R)
<1>1. L[h] \in Seq(Elem) /\ \A g \in Queue : e \notin Members(L[g])
  BY DEF Represents, Fresh
<1>2. /\ r \in Seq(Elem) /\ Len(r) = Len(L[h]) + 1
      /\ PutInAt(L[h], Len(L[h]), q, e, r)
  BY <1>1, SequencePutIn, Zenon
<1>3. Inserted(Places(k, h, L[h]), Len(L[h]), q, e, Places(k, h, r))
  BY <1>1, <1>2, PlacesRow, RowPutIn
<1> QED
  BY <1>1, <1>2, <1>3, InsertStep, Zenon

LEMMA TakeOutStep ==
  ASSUME NEW k, NEW L, NEW N, NEW P, NEW M, NEW R, NEW h \in Queue,
         NEW p \in 1..Len(L[h]), Represents(k, L, N, P),
         Removes(k, h, Places(k, h, L[h]), Len(L[h]), p, N, P, M, R)
  PROVE  Represents(k, [L EXCEPT ![h] = TakeOut(L[h], p)], M, R)
<1> DEFINE n == Len(L[h])
           r == TakeOut(L[h], p)
           z == IF k = "CIRCLEQ" THEN h ELSE NULL
           c == Places(k, h, L[h])
           d == Places(k, h, r)
<1>1. L[h] \in Seq(Elem) /\ n \in Nat
  BY Elements DEF Represents
<1>2. /\ r \in Seq(Elem) /\ Len(r) = n - 1
      /\ \A i \in 1..(p - 1) : r[i] = L[h][i]
      /\ \A i \in p..(n - 1) : r[i] = L[h][i + 1]
  BY <1>1, TakeOutElements, Zenon
<1>3. Row(c, h, L[h], n, z) /\ Row(d, h, r, n - 1, z)
  <2>1. Row(d, h, r, Len(r), z)
    BY <1>2, PlacesRow, Zenon
  <2> QED
    BY <1>1, <1>2, <2>1, PlacesRow, Zenon
<1>4. p \in 1..n /\ Removes(k, h, c, n, p, N, P, M, R)
  OBVIOUS
<1> HIDE DEF n, r, z, c, d
<1>5. TakenOutAt(L[h], n, p, r)
  <2>1. \A i \in 1..(n - 1) : i < p => r[i] = L[h][i]
    BY <1>1, <1>2, <1>4
  <2>2. ASSUME NEW i \in 1..(n - 1), NEW j \in 1..n, i >= p, j = i + 1
        PROVE  r[i] = L[h][j]
    BY <1>1, <1>2, <1>4, <2>2
  <2> QED
    BY <2>1, <2>2 DEF TakenOutAt
<1>6. Removed(c, n, p, d)
  BY <1>1, <1>3, <1>4, <1>5, RowTakeOut
<1> QED
  BY <1>2, <1>6, RemoveStep DEF n, c, d, r

LEMMA PutForStep ==
  ASSUME NEW k, NEW L, NEW N, NEW P, NEW M, NEW R, NEW h \in Queue,
         NEW e \in Elem, NEW p \in 1..Len(L[h]),
         Represents(k, L, N, P), Fresh(e, L),
         Replaces(k, h, Places(k, h, L[h]), Len(L[h]), p, e, N, P, M, R)
  PROVE  Represents(k, [L EXCEPT ![h] = [L[h] EXCEPT ![p] = e]], M, R)
<1> DEFINE n == Len(L[h])
           r == [L[h] EXCEPT ![p] = e]
           z == IF k = "CIRCLEQ" THEN h ELSE NULL
           c == Places(k, h, L[h])
           d == Places(k, h, r)
<1>1. /\ L[h] \in Seq(Elem) /\ n \in Nat
      /\ \A g \in Queue : e \notin Members(L[g])
  BY Elements DEF Represents, Fresh
<1>2. /\ r \in Seq(Elem) /\ Len(r) = n /\ r[p] = e
      /\ \A i \in 1..n : i # p => r[i] = L[h][i]
  <2> DEFINE s == L[h]
             u == [s EXCEPT ![p] = e]
  <2>1. s \in Seq(Elem) /\ p \in 1..Len(s)
    BY <1>1
  <2> HIDE DEF s
  <2>2. /\ u \in Seq(Elem) /\ Len(u) = Len(s) /\ u[p] = e
        /\ \A i \in 1..Len(s) : i # p => u[i] = s[i]
    BY <2>1, PutForElements
  <2> QED
    BY <2>2, Zenon DEF s
<1>3. Row(c, h, L[h], n, z) /\ Row(d, h, r, n, z)
  <2>1. Row(d, h, r, Len(r), z)
    BY <1>2, PlacesRow, Zenon
  <2> QED
    BY <1>1, <1>2, <2>1, PlacesRow, Zenon
<1>4. p \in 1..n
  OBVIOUS
<1> HIDE DEF n, r, z, c, d
<1>5. Replaced(c, n, p, e, d)
  BY <1>1, <1>2, <1>3, <1>4 DEF Row, Replaced
<1> QED
  BY <1>1, <1>2, <1>5, ReplaceStep, Zenon DEF n, c, d, r

LEMMA PutBehindStep ==
  ASSUME NEW k \in {"SIMPLEQ", "TAILQ"}, NEW L, NEW N, NEW P, NEW M, NEW R,
         NEW h \in Queue, NEW g \in Queue, h # g, L[g] # <<>>,
         Represents(k, L, N, P),
         Joins(k, h, g, Places(k, h, L[h]), Len(L[h]), Places(k, g, L[g]), Len(L[g]),
               N, P, M, R)
  PROVE  Represents(k, [L EXCEPT ![h] = L[h] \o L[g], ![g] = <<>>], M, R)
<1> DEFINE s == L[h]
           t == L[g]
           r == s \o t
           c == Places(k, h, s)
           b == Places(k, g, t)
           d == Places(k, h, r)
<1>1. s \in Seq(Elem) /\ t \in Seq(Elem)
  BY DEF Represents
<1>2. /\ r \in Seq(Elem) /\ Len(r) = Len(s) + Len(t)
      /\ \A i \in 1..(Len(s) + Len(t)) : r[i] = IF i =< Len(s) THEN s[i] ELSE t[i - Len(s)]
  BY <1>1, ConcatElements, Zenon
<1>3. /\ Len(s) \in Nat /\ Row(c, h, s, Len(s), NULL)
      /\ Len(t) \in Nat /\ Row(b, g, t, Len(t), NULL)
  BY <1>1, PlacesRow, Zenon
<1>4. Row(d, h, r, Len(s) + Len(t), NULL)
  BY <1>2, PlacesRow
<1> DEFINE n == Len(s)
           m == Len(t)
<1> HIDE DEF r, c, b, d, n, m
<1>5. /\ n \in Nat /\ Row(c, h, s, n, NULL) /\ m \in Nat /\ Row(b, g, t, m, NULL)
      /\ Row(d, h, r, n + m, NULL)
      /\ \A i \in 1..(n + m) : r[i] = IF i =< n THEN s[i] ELSE t[i - n]
  BY <1>2, <1>3, <1>4, Zenon DEF n, m
<1>6. Joined(c, n, b, m, d)
  BY <1>5 DEF Row, Joined
<1> QED
  BY <1>2, <1>6, JoinStep, Zenon DEF n, m, c, b, d, r

-----------------------------------------------------------------------------
(* What pointers that represent the lists lead to.                         *)

LEMMA PointersAt ==
  ASSUME NEW k, NEW L, NEW N, NEW P, NEW h \in Queue, Represents(k, L, N, P)
  PROVE  ListAt(k, h, L[h], Len(L[h]), N, P)
<1> DEFINE s == L[h]
           n == Len(s)
           c == Places(k, h, s)
<1>1. s \in Seq(Elem) /\ Linked(k, c, n, N, P)
  BY DEF Represents
<1>2. n \in Nat /\ Row(c, h, s, n, EndOf(k, h)) /\ \A i \in 1..n : s[i] \in Elem
  BY <1>1, PlacesRow, Elements DEF EndOf
<1> HIDE DEF s, n, c
<1>3. c[0] = h /\ c[n + 1] = EndOf(k, h) /\ \A i \in 1..n : c[i] = s[i]
  BY <1>2 DEF Row
<1>4. \A i, j \in 1..n : s[i] = s[j] => i = j
  BY <1>1, <1>2, <1>3 DEF Linked, Distinct
<1>5. \A i \in 0..n, j \in 1..(n + 1) : j = i + 1 => N[c[i]] = c[j]
  BY <1>1 DEF Linked, Forward
<1>6. N[h] = IF n = 0 THEN EndOf(k, h) ELSE s[1]
  BY <1>2, <1>5, <1>3
<1>7. ASSUME NEW i \in 1..n
      PROVE  N[s[i]] = IF i = n THEN EndOf(k, h) ELSE s[i + 1]
  BY <1>2, <1>5, <1>3
<1>8. ASSUME k \in Backed, NEW i \in 1..n
      PROVE  P[s[i]] = IF i = 1 THEN h ELSE s[i - 1]
  BY <1>2, <1>1, <1>8, <1>3 DEF Linked, Backward
<1>9. k \in Ended => P[h] = IF n = 0 THEN h ELSE s[n]
  BY <1>1, <1>2, <1>3 DEF Linked
<1>10. ListAt(k, h, s, n, N, P)
  BY <1>1, <1>2, <1>4, <1>6, <1>7, <1>8, <1>9, Zenon DEF ListAt
<1> QED
  BY <1>10 DEF s, n

(* What Chain of Lists stands for.                                         *)
Follow(N, h, end) ==
  (CHOOSE f : Meets(f, Cardinality(Elem) + 1, N, h, end))[Cardinality(Elem) + 1]

LEMMA Followed ==
  ASSUME NEW k, NEW L, NEW N, NEW P, NEW h \in Queue, Represents(k, L, N, P),
         WellOrdered, Fits
  PROVE  Follow(N, h, EndOf(k, h)) = L[h]
<1> DEFINE s == L[h]
           K == Cardinality(Elem) + 1
           end == EndOf(k, h)
<1>1. ListAt(k, h, s, Len(s), N, P)
  BY PointersAt
<1> HIDE DEF s
<1>2. Len(s) =< K /\ K \in Nat
  BY <1>1 DEF ListAt, Fits
<1>3. s = <<>> <=> Len(s) = 0
  BY <1>1, NoElements DEF ListAt
<1>4. \A i \in 1..Len(s) : s[i] # end
  BY <1>1, ListAssumption DEF ListAt, EndOf
<1>5. Leads(s, N, h, end)
  BY <1>1, <1>3, <1>4 DEF ListAt, Leads
<1> HIDE DEF K, end
<1>6. (CHOOSE f : Meets(f, K, N, h, end))[K] = s
  BY <1>1, <1>2, <1>5, MeetsList DEF ListAt
<1> QED
  BY <1>6 DEF K, end, s, Follow

LEMMA FollowedBack ==
  ASSUME NEW L, NEW N, NEW P, NEW h \in Queue, Represents("CIRCLEQ", L, N, P),
         WellOrdered, Fits
  PROVE  Follow(P, h, h) = Backwards(L[h])
<1> DEFINE s == L[h]
           n == Len(L[h])
           r == Backwards(s)
           K == Cardinality(Elem) + 1
<1>1. ListAt("CIRCLEQ", h, s, n, N, P)
  BY PointersAt
<1>2. n =< K /\ K \in Nat
  BY <1>1 DEF ListAt, Fits
<1>3. n \in Nat /\ r = [i \in 1..n |-> s[(n - i) + 1]]
  BY <1>1 DEF ListAt, Backwards
<1> HIDE DEF s, n, r
<1>4. /\ \A i \in 1..n : s[i] \in Elem
      /\ \A i \in 1..n : P[s[i]] = IF i = 1 THEN h ELSE s[i - 1]
      /\ P[h] = IF n = 0 THEN h ELSE s[n]
  BY <1>1 DEF ListAt, Backed, Ended
<1>5. \A i \in 1..n : (n - i) + 1 \in 1..n /\ r[i] = s[(n - i) + 1]
  BY <1>3
<1>6. r \in Seq(Elem) /\ Len(r) = n
  BY <1>3, <1>4, <1>5, ElementsGiven
<1>7. r = <<>> <=> n = 0
  BY <1>6, NoElements
<1>8. P[h] = IF n = 0 THEN h ELSE r[1]
  BY <1>3, <1>4, <1>5
<1>9. ASSUME NEW i \in 1..n
      PROVE  P[r[i]] = IF i = n THEN h ELSE r[i + 1]
  BY <1>3, <1>4, <1>5
<1>10. \A i \in 1..n : r[i] # h
  BY <1>4, <1>5, ListAssumption
<1>11. Leads(r, P, h, h)
  BY <1>6, <1>7, <1>8, <1>9, <1>10 DEF Leads
<1> HIDE DEF K
<1>12. (CHOOSE f : Meets(f, K, P, h, h))[K] = r
  BY <1>2, <1>6, <1>11, MeetsList
<1> QED
  BY <1>12 DEF K, r, s, Follow

-----------------------------------------------------------------------------
(* The macros: what they write at a place puts in, takes out or replaces   *)
(* an element there.                                                       *)

Clear(c, n, e) == \A i \in 1..n : c[i] # e

Spot(k, h, c, n, N, P) ==
  /\ n \in Nat /\ N \in Pointers /\ P \in Pointers
  /\ h \in Loc /\ h \notin Elem /\ NULL \notin Loc /\ Elem \subseteq Loc
  /\ c[0] = h /\ c[n + 1] = EndOf(k, h)
  /\ \A i \in 1..n : c[i] \in Elem
  /\ \A i, j \in 1..n : c[i] = c[j] => i = j
  /\ \A i \in 0..n, j \in 1..(n + 1) : j = i + 1 => N[c[i]] = c[j]
  /\ k \in Backed => \A i \in 0..n, j \in 1..n : j = i + 1 => P[c[j]] = c[i]
  /\ k \in Ended => P[h] = c[n]

LEMMA SpotOf ==
  ASSUME NEW k, NEW L, NEW N, NEW P, NEW h \in Queue, Represents(k, L, N, P)
  PROVE  Spot(k, h, Places(k, h, L[h]), Len(L[h]), N, P)
<1> DEFINE s == L[h]
           n == Len(s)
           c == Places(k, h, s)
<1>1. /\ s \in Seq(Elem) /\ Linked(k, c, n, N, P) /\ N \in Pointers /\ P \in Pointers
  BY DEF Represents
<1>2. n \in Nat /\ Row(c, h, s, n, EndOf(k, h)) /\ \A i \in 1..n : s[i] \in Elem
  BY <1>1, PlacesRow, Elements DEF EndOf
<1> HIDE DEF s, n, c
<1>3. c[0] = h /\ c[n + 1] = EndOf(k, h) /\ \A i \in 1..n : c[i] \in Elem
  BY <1>2 DEF Row
<1>4. h \in Loc /\ h \notin Elem /\ NULL \notin Loc /\ Elem \subseteq Loc
  BY ListAssumption DEF Loc
<1>5. /\ \A i, j \in 1..n : c[i] = c[j] => i = j
      /\ \A i \in 0..n, j \in 1..(n + 1) : j = i + 1 => N[c[i]] = c[j]
      /\ k \in Backed => \A i \in 0..n, j \in 1..n : j = i + 1 => P[c[j]] = c[i]
      /\ k \in Ended => P[h] = c[n]
  <2>1. \A i, j \in 1..n : c[i] = c[j] => i = j
    BY <1>1, <1>2 DEF Linked, Distinct
  <2>2. \A i \in 0..n, j \in 1..(n + 1) : j = i + 1 => N[c[i]] = c[j]
    BY <1>1 DEF Linked, Forward
  <2>3. k \in Backed => \A i \in 0..n, j \in 1..n : j = i + 1 => P[c[j]] = c[i]
    BY <1>1 DEF Linked, Backward
  <2>4. k \in Ended => P[h] = c[n]
    BY <1>1, <1>3 DEF Linked
  <2> QED
    BY <2>1, <2>2, <2>3, <2>4
<1>6. Spot(k, h, c, n, N, P)
  BY <1>1, <1>2, <1>3, <1>4, <1>5, Zenon DEF Spot
<1> QED
  BY <1>6 DEF s, n, c

(* Around place p: what is there, before it and behind it.                 *)
Near(k, h, c, n, N, P, p) ==
  /\ n \in Nat /\ N \in Pointers /\ P \in Pointers
  /\ h \in Loc /\ h \notin Elem /\ NULL \notin Loc /\ Elem \subseteq Loc
  /\ c[p] \in Loc /\ (p # 0 => c[p] \in Elem) /\ (p = 0 => c[p] = h)
  /\ c[p + 1] \in Loc \cup {NULL}
  /\ (p # n => c[p + 1] \in Elem /\ c[p + 1] # c[p])
  /\ (p = n => c[p + 1] = EndOf(k, h))
  /\ N[c[p]] = c[p + 1]
  /\ (k \in Backed /\ p # 0 => P[c[p]] = c[p - 1])
  /\ (k \in Ended => P[h] = c[n])

LEMMA Around ==
  ASSUME NEW k, NEW h, NEW c, NEW n, NEW N, NEW P, NEW p \in 0..n,
         Spot(k, h, c, n, N, P)
  PROVE  Near(k, h, c, n, N, P, p)
<1>1. /\ n \in Nat /\ N \in Pointers /\ P \in Pointers
      /\ h \in Loc /\ h \notin Elem /\ NULL \notin Loc /\ Elem \subseteq Loc
      /\ c[0] = h /\ c[n + 1] = EndOf(k, h) /\ \A i \in 1..n : c[i] \in Elem
      /\ k \in Ended => P[h] = c[n]
  BY DEF Spot
<1>2. c[p] \in Loc /\ (p # 0 => c[p] \in Elem) /\ (p = 0 => c[p] = h)
  BY <1>1
<1>3. /\ c[p + 1] \in Loc \cup {NULL} /\ (p # n => c[p + 1] \in Elem)
      /\ (p = n => c[p + 1] = EndOf(k, h))
  BY <1>1 DEF EndOf
<1>4. p # n => c[p + 1] # c[p]
  <2>1. p # n => p + 1 \in 1..n /\ p + 1 # p
    BY <1>1
  <2>2. p # 0 => p \in 1..n
    BY <1>1
  <2>3. \A i, j \in 1..n : c[i] = c[j] => i = j
    BY DEF Spot
  <2> QED
    BY <1>1, <1>2, <1>3, <2>1, <2>2, <2>3, Zenon
<1>5. N[c[p]] = c[p + 1]
  <2>1. p + 1 \in 1..(n + 1) /\ \A i \in 0..n, j \in 1..(n + 1) : j = i + 1 => N[c[i]] = c[j]
    BY <1>1 DEF Spot
  <2> QED
    BY <2>1
<1>6. k \in Backed /\ p # 0 => P[c[p]] = c[p - 1]
  <2>1. p # 0 => p \in 1..n /\ p - 1 \in 0..n /\ p = (p - 1) + 1
    BY <1>1
  <2>2. k \in Backed => \A i \in 0..n, j \in 1..n : j = i + 1 => P[c[j]] = c[i]
    BY DEF Spot
  <2> QED
    BY <2>1, <2>2
<1> QED
  BY <1>1, <1>2, <1>3, <1>4, <1>5, <1>6, Zenon DEF Near

(* The back pointers written when e comes to stand between x and y.        *)
BackAfter(k, h, x, y, e, P, R) ==
  \/ k = "SLIST" /\ R = P
  \/ /\ k = "LIST"
     /\ R = [(IF y = NULL THEN P ELSE [P EXCEPT ![y] = e]) EXCEPT ![e] = x]
  \/ k = "SIMPLEQ" /\ R = IF y = NULL THEN [P EXCEPT ![h] = e] ELSE P
  \/ k = "CIRCLEQ" /\ R = [P EXCEPT ![e] = x, ![y] = e]
  \/ k = "TAILQ" /\ R = [P EXCEPT ![IF y # NULL THEN y ELSE h] = e, ![e] = x]

BackWritten(k, h, x, y, e, P, R, p, n) ==
  /\ R \in Pointers
  /\ \A l \in Loc : l \notin {e, h, y} => R[l] = P[l]
  /\ k \in Backed => R[e] = x /\ (p # n => R[y] = e)
  /\ k \in Ended => R[h] = IF p = n THEN e ELSE P[h]

LEMMA BackAfterWrites ==
  ASSUME NEW k, NEW h \in Loc, h \notin Elem, NULL \notin Loc, Elem \subseteq Loc,
         NEW x \in Loc, NEW y, NEW e \in Elem, NEW P \in Pointers, NEW R, NEW p, NEW n,
         p # n => y \in Elem, p = n => y = EndOf(k, h), y # e,
         BackAfter(k, h, x, y, e, P, R)
  PROVE  BackWritten(k, h, x, y, e, P, R, p, n)
<1> USE DEF BackWritten
<1>1. CASE k = "SLIST"
  BY <1>1 DEF BackAfter, Backed, Ended
<1>2. CASE k = "LIST"
  BY <1>2 DEF BackAfter, Pointers, Ended, EndOf
<1>3. CASE k = "SIMPLEQ"
  BY <1>3 DEF BackAfter, Pointers, Backed, EndOf
<1>4. CASE k = "CIRCLEQ"
  BY <1>4 DEF BackAfter, Pointers, EndOf
<1>5. CASE k = "TAILQ"
  BY <1>5 DEF BackAfter, Pointers, EndOf
<1> QED
  BY <1>1, <1>2, <1>3, <1>4, <1>5 DEF BackAfter

LEMMA InsertAfterPlace ==
  ASSUME NEW k, NEW h, NEW c, NEW n, NEW N, NEW P, NEW M, NEW R, NEW p \in 0..n,
         NEW e \in Elem, Spot(k, h, c, n, N, P), Clear(c, n, e),
         M = [N EXCEPT ![e] = c[p + 1], ![c[p]] = e],
         BackAfter(k, h, c[p], c[p + 1], e, P, R)
  PROVE  Inserts(k, h, c, n, p + 1, e, N, P, M, R)
<1> DEFINE x == c[p]
           y == c[p + 1]
<1>1. Near(k, h, c, n, N, P, p)
  BY Around
<1>2. /\ n \in Nat /\ P \in Pointers
      /\ h \in Loc /\ h \notin Elem /\ NULL \notin Loc /\ Elem \subseteq Loc
      /\ x \in Loc /\ (p # n => y \in Elem) /\ (p = n => y = EndOf(k, h))
  BY <1>1 DEF Near
<1>3. y # e
  BY <1>2 DEF EndOf, Clear
<1>4. /\ M = [N EXCEPT ![e] = y, ![x] = e] /\ BackAfter(k, h, x, y, e, P, R)
      /\ p = (p + 1) - 1 /\ (p + 1 =< n <=> p # n) /\ (p + 1 = n + 1 <=> p = n)
  BY <1>2
<1> HIDE DEF x, y
<1>5. BackWritten(k, h, x, y, e, P, R, p, n)
  BY <1>2, <1>3, <1>4, BackAfterWrites, Zenon
<1> QED
  BY <1>4, <1>5, Zenon DEF BackWritten, Inserts, x, y

(* e goes in before place q, at the end of a circular queue before h.      *)
LEMMA InsertBeforePlace ==
  ASSUME NEW k \in Backed, NEW h, NEW c, NEW n, NEW N, NEW P, NEW M, NEW R,
         NEW q \in 1..(n + 1), NEW e \in Elem, Spot(k, h, c, n, N, P),
         Clear(c, n, e), q = n + 1 => k = "CIRCLEQ",
         M = [N EXCEPT ![e] = c[q], ![P[c[q]]] = e],
         R = [P EXCEPT ![e] = P[c[q]], ![c[q]] = e]
  PROVE  Inserts(k, h, c, n, q, e, N, P, M, R)
<1> DEFINE x == c[q]
           w == c[q - 1]
<1>1. n \in Nat /\ q - 1 \in 0..n
  BY DEF Spot
<1>2. /\ N \in Pointers /\ P \in Pointers
      /\ h \in Loc /\ h \notin Elem /\ NULL \notin Loc /\ Elem \subseteq Loc
      /\ w \in Loc /\ (k \in Ended => P[h] = c[n])
  <2>1. Near(k, h, c, n, N, P, q - 1)
    BY <1>1, Around
  <2> QED
    BY <2>1 DEF Near
<1>3. /\ P[x] = w /\ x \in Loc /\ x # e
      /\ (q = n + 1 => x = h) /\ (q # n + 1 => x \in Elem)
  BY <1>1, <1>2, Around DEF Spot, EndOf, Ended, Near, Clear
<1>4. q =< n <=> q # n + 1
  BY <1>1
<1> HIDE DEF x, w
<1>5. M = [N EXCEPT ![e] = x, ![w] = e] /\ R = [P EXCEPT ![e] = w, ![x] = e]
  BY <1>3 DEF x
<1>6. /\ R \in Pointers
      /\ \A l \in Loc : l \notin {e, h, x} => R[l] = P[l]
      /\ R[e] = w /\ (q =< n => R[x] = e)
      /\ k \in Ended => R[h] = IF q = n + 1 THEN e ELSE P[h]
  BY <1>2, <1>3, <1>4, <1>5 DEF Pointers
<1> QED
  BY <1>5, <1>6, Zenon DEF Inserts, x, w

(* e goes in behind the last element, through the pointer at the head.     *)
LEMMA InsertLastPlace ==
  ASSUME NEW k \in {"SIMPLEQ", "TAILQ"}, NEW h, NEW c, NEW n, NEW N, NEW P, NEW M,
         NEW R, NEW e \in Elem, Spot(k, h, c, n, N, P), Clear(c, n, e),
         M = [N EXCEPT ![e] = NULL, ![P[h]] = e],
         R = IF k = "SIMPLEQ" THEN [P EXCEPT ![h] = e]
             ELSE [P EXCEPT ![e] = P[h], ![h] = e]
  PROVE  Inserts(k, h, c, n, n + 1, e, N, P, M, R)
<1>1. n \in Nat /\ n \in 0..n /\ (n + 1) - 1 = n
  BY DEF Spot
<1>2. /\ N \in Pointers /\ P \in Pointers
      /\ h \in Loc /\ h \notin Elem /\ NULL \notin Loc /\ Elem \subseteq Loc
      /\ c[n] \in Loc /\ P[h] = c[n]
      /\ c[n + 1] = NULL
  <2>1. Near(k, h, c, n, N, P, n)
    BY <1>1, Around
  <2> QED
    BY <2>1 DEF Near, Ended, EndOf
<1>3. /\ R \in Pointers
      /\ \A l \in Loc : l \notin {e, h, NULL} => R[l] = P[l]
      /\ k \in Backed => R[e] = c[n]
      /\ R[h] = e
  BY <1>2 DEF Pointers, Backed
<1>4. M = [N EXCEPT ![e] = NULL, ![c[n]] = e]
  BY <1>2
<1>5. c[(n + 1) - 1] = c[n] /\ ~ (n + 1 =< n)
  BY <1>1
<1> QED
  BY <1>2, <1>3, <1>4, <1>5, Zenon DEF Inserts

(* The back pointers written when what stands between w and y goes.        *)
BackOver(k, h, w, y, P, R) ==
  \/ k = "SLIST" /\ R = P
  \/ k = "LIST" /\ R = IF y = NULL THEN P ELSE [P EXCEPT ![y] = w]
  \/ k = "SIMPLEQ" /\ R = IF y = NULL THEN [P EXCEPT ![h] = w] ELSE P
  \/ k = "CIRCLEQ" /\ R = [P EXCEPT ![y] = w]
  \/ k = "TAILQ" /\ R = [P EXCEPT ![IF y # NULL THEN y ELSE h] = w]

LEMMA RemovePlace ==
  ASSUME NEW k, NEW h, NEW c, NEW n, NEW N, NEW P, NEW M, NEW R, NEW p \in 1..n,
         Spot(k, h, c, n, N, P), M = [N EXCEPT ![c[p - 1]] = c[p + 1]],
         BackOver(k, h, c[p - 1], c[p + 1], P, R)
  PROVE  Removes(k, h, c, n, p, N, P, M, R)
<1> DEFINE w == c[p - 1]
           y == c[p + 1]
           last == p = n
<1>1. n \in Nat
  BY DEF Spot
<1>2. p \in 0..n /\ p - 1 \in 0..n /\ (p < n <=> ~ last) /\ last \in BOOLEAN
  BY <1>1
<1>3. Near(k, h, c, n, N, P, p) /\ Near(k, h, c, n, N, P, p - 1)
  BY <1>2, Around
<1>4. /\ P \in Pointers
      /\ h \in Loc /\ h \notin Elem /\ NULL \notin Loc /\ Elem \subseteq Loc
      /\ w \in Loc /\ (~ last => y \in Elem) /\ (last => y = EndOf(k, h))
  BY <1>3 DEF Near
<1>5. M = [N EXCEPT ![w] = y] /\ BackOver(k, h, w, y, P, R)
  OBVIOUS
<1> HIDE DEF w, y, last
<1>6. /\ R \in Pointers
      /\ \A l \in Loc : l \notin {h, y} => R[l] = P[l]
      /\ k \in Backed => (~ last => R[y] = w)
      /\ k \in Ended => R[h] = IF last THEN w ELSE P[h]
  BY <1>4, <1>5 DEF BackOver, Backed, Ended, Pointers, EndOf
<1> QED
  BY <1>2, <1>5, <1>6, Zenon DEF Removes, w, y, last

LEMMA ReplacePlace ==
  ASSUME NEW k, NEW h, NEW c, NEW n, NEW N, NEW P, NEW M, NEW R, NEW p \in 1..n,
         NEW e \in Elem, Spot(k, h, c, n, N, P), Clear(c, n, e),
         M = [N EXCEPT ![e] = c[p + 1], ![c[p - 1]] = e],
         BackAfter(k, h, c[p - 1], c[p + 1], e, P, R)
  PROVE  Replaces(k, h, c, n, p, e, N, P, M, R)
<1> DEFINE w == c[p - 1]
           y == c[p + 1]
<1>1. n \in Nat
  BY Zenon DEF Spot
<1>2. p \in 0..n /\ p - 1 \in 0..n /\ (p < n <=> p # n) 
  BY <1>1
<1>3. Near(k, h, c, n, N, P, p) /\ Near(k, h, c, n, N, P, p - 1)
  BY <1>2, Around
<1>4. /\ P \in Pointers
      /\ h \in Loc /\ h \notin Elem /\ NULL \notin Loc /\ Elem \subseteq Loc
      /\ w \in Loc /\ (p # n => y \in Elem) /\ (p = n => y = EndOf(k, h))
  BY <1>3 DEF Near
<1>5. y # e
  BY <1>1, <1>4 DEF EndOf, Clear
<1>6. M = [N EXCEPT ![e] = y, ![w] = e] /\ BackAfter(k, h, w, y, e, P, R)
  OBVIOUS
<1> HIDE DEF w, y
<1>7. BackWritten(k, h, w, y, e, P, R, p, n)
  BY <1>2, <1>4, <1>5, <1>6, BackAfterWrites, Zenon
<1> QED
  BY <1>2, <1>6, <1>7, Zenon DEF BackWritten, Replaces, w, y

LEMMA PlacesHere ==
  ASSUME NEW k, NEW L, NEW N, NEW P, NEW h \in Queue, Represents(k, L, N, P)
  PROVE  /\ Len(L[h]) \in Nat
         /\ Spot(k, h, Places(k, h, L[h]), Len(L[h]), N, P)
         /\ Row(Places(k, h, L[h]), h, L[h], Len(L[h]), EndOf(k, h))
BY SpotOf, PlacesRow DEF Represents, EndOf

LEMMA ClearPlaces ==
  ASSUME NEW L, NEW c, NEW h \in Queue, NEW z, NEW e, L[h] \in Seq(Elem), Fresh(e, L),
         Row(c, h, L[h], Len(L[h]), z)
  PROVE  Clear(c, Len(L[h]), e)
BY Elements DEF Members, Fresh, Row, Clear

-----------------------------------------------------------------------------
(* The macros on the lists.  An element goes in behind x, which is the     *)
(* head for p = 0.                                                         *)

LEMMA AfterStep ==
  ASSUME NEW k, NEW L, NEW N, NEW P, NEW M, NEW R, NEW h \in Queue,
         NEW e \in Elem, NEW p \in 0..Len(L[h]), NEW x, NEW r,
         Represents(k, L, N, P), Fresh(e, L), x = IF p = 0 THEN h ELSE L[h][p],
         r = PutIn(L[h], p + 1, e) \/ (p = 0 /\ r = <<e>> \o L[h]),
         M = [N EXCEPT ![e] = N[x], ![x] = e], BackAfter(k, h, x, N[x], e, P, R)
  PROVE  Represents(k, [L EXCEPT ![h] = r], M, R)
<1> DEFINE n == Len(L[h])
           c == Places(k, h, L[h])
<1>1. n \in Nat /\ Spot(k, h, c, n, N, P) /\ Row(c, h, L[h], n, EndOf(k, h))
  BY PlacesHere, Zenon
<1>2. Clear(c, n, e)
  BY <1>1, ClearPlaces, Zenon DEF Represents
<1>3. p \in 0..n
  OBVIOUS
<1> HIDE DEF n, c
<1>4. c[p] = x
  BY <1>1, <1>3 DEF Row
<1>5. N[x] = c[p + 1]
  <2>1. Near(k, h, c, n, N, P, p)
    BY <1>1, <1>3, Around
  <2> QED
    BY <1>4, <2>1 DEF Near
<1>6. Inserts(k, h, c, n, p + 1, e, N, P, M, R)
  BY <1>1, <1>2, <1>3, <1>4, <1>5, InsertAfterPlace, Zenon
<1>7. p + 1 \in 1..(Len(L[h]) + 1) /\ (p = 0 => p + 1 = 1)
  BY <1>1, <1>3 DEF n
<1> QED
  BY <1>6, <1>7, PutInStep, Zenon DEF n, c

(* Before x, or before the head and so at the end of a circular queue.     *)
LEMMA BeforeStep ==
  ASSUME NEW k \in Backed, NEW L, NEW N, NEW P, NEW M, NEW R, NEW h \in Queue,
         NEW e \in Elem, NEW q \in 1..(Len(L[h]) + 1), NEW x, NEW r,
         Represents(k, L, N, P), Fresh(e, L), q = Len(L[h]) + 1 => k = "CIRCLEQ",
         x = IF q = Len(L[h]) + 1 THEN h ELSE L[h][q],
         r = PutIn(L[h], q, e) \/ (q = Len(L[h]) + 1 /\ r = Append(L[h], e)),
         M = [N EXCEPT ![e] = x, ![P[x]] = e], R = [P EXCEPT ![e] = P[x], ![x] = e]
  PROVE  Represents(k, [L EXCEPT ![h] = r], M, R)
<1> DEFINE n == Len(L[h])
           c == Places(k, h, L[h])
<1>1. n \in Nat /\ Spot(k, h, c, n, N, P) /\ Row(c, h, L[h], n, EndOf(k, h))
  BY PlacesHere
<1>2. Clear(c, n, e)
  BY <1>1, ClearPlaces, Zenon DEF Represents
<1>3. /\ q \in 1..(n + 1) /\ (q = n + 1 => k = "CIRCLEQ")
      /\ x = IF q = n + 1 THEN h ELSE L[h][q]
  OBVIOUS
<1> HIDE DEF n, c
<1>4. c[q] = x
  BY <1>1, <1>3 DEF Row, EndOf
<1>5. Inserts(k, h, c, n, q, e, N, P, M, R)
  BY <1>1, <1>2, <1>3, <1>4, InsertBeforePlace, Zenon
<1> QED
  BY <1>5, PutInStep, Zenon DEF n, c

(* At the end, through the pointer of the head.                            *)
LEMMA LastStep ==
  ASSUME NEW k \in {"SIMPLEQ", "TAILQ"}, NEW L, NEW N, NEW P, NEW M, NEW R,
         NEW h \in Queue, NEW e \in Elem, Represents(k, L, N, P), Fresh(e, L),
         M = [N EXCEPT ![e] = NULL, ![P[h]] = e],
         R = IF k = "SIMPLEQ" THEN [P EXCEPT ![h] = e]
             ELSE [P EXCEPT ![e] = P[h], ![h] = e]
  PROVE  Represents(k, [L EXCEPT ![h] = Append(L[h], e)], M, R)
<1> DEFINE n == Len(L[h])
           c == Places(k, h, L[h])
           r == Append(L[h], e)
<1>1. n \in Nat /\ Spot(k, h, c, n, N, P) /\ Row(c, h, L[h], n, EndOf(k, h))
  BY PlacesHere
<1>2. Clear(c, n, e)
  BY <1>1, ClearPlaces, Zenon DEF Represents
<1> HIDE DEF n, c
<1>3. Inserts(k, h, c, n, n + 1, e, N, P, M, R)
  BY <1>1, <1>2, InsertLastPlace, Zenon
<1>4. n + 1 \in 1..(Len(L[h]) + 1) /\ n + 1 = Len(L[h]) + 1 /\ r = Append(L[h], e)
  BY <1>1 DEF n
<1> HIDE DEF r
<1>5. Represents(k, [L EXCEPT ![h] = r], M, R)
  BY <1>3, <1>4, PutInStep, Zenon DEF n, c
<1> QED
  BY <1>5 DEF r

(* The element e of place p goes; w is the place before it, which e points *)
(* back to or a search finds.                                              *)
LEMMA OverStep ==
  ASSUME NEW k, NEW L, NEW N, NEW P, NEW M, NEW R, NEW h \in Queue,
         NEW p \in 1..Len(L[h]), NEW e, NEW w, Represents(k, L, N, P), e = L[h][p],
         \/ k \in Backed /\ w = P[e]
         \/ w = IF p = 1 THEN h ELSE L[h][p - 1],
         M = [N EXCEPT ![w] = N[e]], BackOver(k, h, w, N[e], P, R)
  PROVE  Represents(k, [L EXCEPT ![h] = TakeOut(L[h], p)], M, R)
<1> DEFINE n == Len(L[h])
           c == Places(k, h, L[h])
<1>1. n \in Nat /\ Spot(k, h, c, n, N, P) /\ Row(c, h, L[h], n, EndOf(k, h))
  BY PlacesHere
<1>2. p \in 1..n
  OBVIOUS
<1> HIDE DEF n, c
<1>3. /\ p \in 0..n /\ p # 0 /\ p - 1 \in 0..n /\ (p - 1 = 0 <=> p = 1)
      /\ (p # 1 => p - 1 \in 1..n)
  BY <1>1, <1>2
<1>4. c[p] = e /\ c[p - 1] = IF p = 1 THEN h ELSE L[h][p - 1]
  BY <1>1, <1>2, <1>3 DEF Row
<1>5. N[e] = c[p + 1] /\ w = c[p - 1]
  <2>1. Near(k, h, c, n, N, P, p)
    BY <1>1, <1>3, Around
  <2> QED
    BY <1>3, <1>4, <2>1 DEF Near
<1>6. Removes(k, h, c, n, p, N, P, M, R)
  BY <1>1, <1>2, <1>5, RemovePlace, Zenon
<1> QED
  BY <1>6, TakeOutStep DEF n, c

(* A new element e takes the place p of x.                                 *)
LEMMA InsteadStep ==
  ASSUME NEW k \in Backed, NEW L, NEW N, NEW P, NEW M, NEW R, NEW h \in Queue,
         NEW e \in Elem, NEW p \in 1..Len(L[h]), NEW x, Represents(k, L, N, P),
         Fresh(e, L), x = L[h][p], M = [N EXCEPT ![e] = N[x], ![P[x]] = e],
         BackAfter(k, h, P[x], N[x], e, P, R)
  PROVE  Represents(k, [L EXCEPT ![h] = [L[h] EXCEPT ![p] = e]], M, R)
<1> DEFINE n == Len(L[h])
           c == Places(k, h, L[h])
<1>1. n \in Nat /\ Spot(k, h, c, n, N, P) /\ Row(c, h, L[h], n, EndOf(k, h))
  BY PlacesHere
<1>2. Clear(c, n, e)
  BY <1>1, ClearPlaces, Zenon DEF Represents
<1>3. p \in 1..n
  OBVIOUS
<1> HIDE DEF n, c
<1>4. p \in 0..n /\ p # 0 /\ c[p] = x
  BY <1>1, <1>3 DEF Row
<1>5. N[x] = c[p + 1] /\ P[x] = c[p - 1]
  <2>1. Near(k, h, c, n, N, P, p)
    BY <1>1, <1>4, Around
  <2> QED
    BY <1>4, <2>1 DEF Near
<1>6. Replaces(k, h, c, n, p, e, N, P, M, R)
  BY <1>1, <1>2, <1>3, <1>5, ReplacePlace, Zenon
<1> QED
  BY <1>6, PutForStep, Zenon DEF n, c

(* The list of g goes behind that of h.                                    *)
LEMMA BehindStep ==
  ASSUME NEW k \in {"SIMPLEQ", "TAILQ"}, NEW L, NEW N, NEW P, NEW M, NEW R,
         NEW h \in Queue, NEW g \in Queue, Represents(k, L, N, P), h # g, N[g] # NULL,
         M = [N EXCEPT ![P[h]] = N[g], ![g] = NULL],
         \/ k = "SIMPLEQ" /\ R = [P EXCEPT ![h] = P[g], ![g] = g]
         \/ k = "TAILQ" /\ R = [P EXCEPT ![N[g]] = P[h], ![h] = P[g], ![g] = g]
  PROVE  Represents(k, [L EXCEPT ![h] = L[h] \o L[g], ![g] = <<>>], M, R)
<1> DEFINE n == Len(L[h])
           c == Places(k, h, L[h])
           m == Len(L[g])
           b == Places(k, g, L[g])
<1>1. n \in Nat /\ Spot(k, h, c, n, N, P)
  BY PlacesHere
<1>2. m \in Nat /\ Spot(k, g, b, m, N, P)
  BY PlacesHere
<1>3. m = 0 <=> L[g] = <<>>
  BY NoElements DEF Represents
<1> HIDE DEF n, c, m, b
<1>4. 0 \in 0..m /\ m \in 0..m /\ n \in 0..n
  BY <1>1, <1>2
<1>5. Near(k, g, b, m, N, P, 0) /\ Near(k, g, b, m, N, P, m) /\ Near(k, h, c, n, N, P, n)
  BY <1>1, <1>2, <1>4, Around
<1>6. /\ P \in Pointers /\ h \in Loc /\ g \in Loc /\ Elem \subseteq Loc
      /\ h \notin Elem /\ g \notin Elem /\ c[n] \in Loc /\ P[h] = c[n]
      /\ P[g] = b[m] /\ b[m] \in Loc
  BY <1>5, Zenon DEF Near, Ended
<1>7. N[g] = b[1] /\ m # 0 /\ b[1] \in Elem
  BY <1>5 DEF Near, EndOf
<1>8. Joins(k, h, g, c, n, b, m, N, P, M, R)
  BY <1>6, <1>7 DEF Pointers, Backed, Joins
<1> QED
  BY <1>3, <1>7, <1>8, PutBehindStep, Zenon DEF n, c, m, b

LEMMA NothingBehind ==
  ASSUME NEW k, NEW L, NEW N, NEW P, NEW h \in Queue, NEW g \in Queue,
         Represents(k, L, N, P), k # "CIRCLEQ", h # g, N[g] = NULL
  PROVE  L[g] = <<>> /\ L[h] \o L[g] = L[h]
<1>1. ListAt(k, g, L[g], Len(L[g]), N, P)
  BY PointersAt
<1>2. Len(L[g]) = 0
  BY <1>1, ListAssumption DEF ListAt, Loc
<1>3. L[g] \in Seq(Elem) /\ L[h] \in Seq(Elem)
  BY DEF Represents
<1>4. L[g] = <<>>
  BY <1>2, <1>3, NoElements
<1>5. L[h] \o L[g] = L[h]
  BY <1>3, <1>4, NoElements
<1> QED
  BY <1>4, <1>5, Zenon

(* The search for the place that points to e ends before e.                *)
Search(N, h, s, e) == CHOOSE l \in {h} \cup Members(s) : N[l] = e

(* w stands before e, the element of place p.                              *)
Before(h, s, p, w, e) ==
  p \in 1..Len(s) /\ e = s[p] /\ w = IF p = 1 THEN h ELSE s[p - 1]

LEMMA Found ==
  ASSUME NEW k, NEW L, NEW N, NEW P, NEW h \in Queue, NEW p, NEW e, NEW w,
         Represents(k, L, N, P), k # "CIRCLEQ", Before(h, L[h], p, w, e)
  PROVE  Search(N, h, L[h], e) = w
<1> DEFINE s == L[h]
           n == Len(s)
<1>1. /\ ListAt(k, h, s, n, N, P) /\ p \in 1..n
      /\ e = s[p] /\ w = IF p = 1 THEN h ELSE s[p - 1]
  BY PointersAt DEF Before
<1>2. Members(s) = {s[i] : i \in 1..n}
  BY <1>1, Elements DEF Members, ListAt
<1> HIDE DEF s, n
<1>3. /\ n \in Nat /\ NULL \notin Elem /\ h \notin Elem
      /\ \A i \in 1..n : s[i] \in Elem
      /\ \A i, j \in 1..n : s[i] = s[j] => i = j
      /\ N[h] = IF n = 0 THEN NULL ELSE s[1]
      /\ \A i \in 1..n : N[s[i]] = IF i = n THEN NULL ELSE s[i + 1]
  BY <1>1, ListAssumption, Zenon DEF ListAt, EndOf, Loc
<1>4. w \in {h} \cup Members(s) /\ N[w] = e
  BY <1>1, <1>3, <1>2
<1>5. ASSUME NEW l \in {h} \cup Members(s), N[l] = e
      PROVE  l = w
  BY <1>1, <1>3, <1>5, <1>2
<1>6. (CHOOSE l \in {h} \cup Members(s) : N[l] = e) = w
  BY <1>4, <1>5
<1> QED
  BY <1>6 DEF s, Search

(* Empty lists.                                                            *)
LEMMA EmptyLists ==
  ASSUME NEW k, NEW L, NEW N, NEW P, L = [h \in Queue |-> <<>>],
         N = [l \in Loc |-> IF l \in Queue THEN EndOf(k, l) ELSE NULL],
         P = [l \in Loc |-> IF l \in Queue THEN l ELSE NULL]
  PROVE  Represents(k, L, N, P)
BY NoElements DEF Members, Pointers, Loc, EndOf, Places, Linked, Distinct,
   Forward, Backward, Represents

(* What is taken out is on no list.                                        *)
LEMMA TakenOutFresh ==
  ASSUME NEW k, NEW L, NEW N, NEW P, NEW h \in Queue, NEW p \in 1..Len(L[h]),
         NEW e, NEW L1, Represents(k, L, N, P), e = L[h][p],
         L1 = [L EXCEPT ![h] = TakeOut(L[h], p)]
  PROVE  Fresh(e, L1)
<1> DEFINE s == L[h]
           n == Len(s)
           r == TakeOut(s, p)
<1>1. e = s[p] /\ s \in Seq(Elem) /\ L \in [Queue -> Seq(Elem)] /\ p \in 1..n
  BY DEF Represents
<1>2. ListAt(k, h, s, n, N, P)
  BY PointersAt
<1>3. n \in Nat /\ e \in Members(s) /\ \A i, j \in 1..n : s[i] = s[j] => i = j
  BY <1>1, <1>2, Elements DEF ListAt, Members
<1>4. \A g \in Queue : g # h => e \notin Members(L[g])
  BY <1>3 DEF Represents
<1>5. /\ r \in Seq(Elem) /\ Len(r) = n - 1
      /\ \A i \in 1..(p - 1) : r[i] = s[i]
      /\ \A i \in p..(n - 1) : r[i] = s[i + 1]
  BY <1>1, TakeOutElements
<1>6. DOMAIN r = 1..(n - 1)
  BY <1>5, Elements
<1> HIDE DEF s, n, r
<1>7. \A i \in 1..(n - 1) : r[i] # e
  BY <1>1, <1>3, <1>5
<1>8. e \notin Members(r)
  BY <1>6, <1>7 DEF Members
<1>9. \A g \in Queue : L1[g] = IF g = h THEN r ELSE L[g]
  BY <1>1 DEF r, s
<1> QED
  BY <1>4, <1>8, <1>9 DEF Fresh

(* An element moves from the list of h to the head of that of g.           *)
Unlinks(h, e, N, P, M, R) ==
  /\ M = [N EXCEPT ![P[e]] = N[e]]
  /\ R = [P EXCEPT ![IF N[e] # NULL THEN N[e] ELSE h] = P[e]]

LinksFirst(h, e, N, P, M, R) ==
  /\ M = [N EXCEPT ![e] = N[h], ![h] = e]
  /\ R = [P EXCEPT ![IF N[h] # NULL THEN N[h] ELSE h] = e, ![e] = h]

LEMMA UnlinksStep ==
  ASSUME NEW k, NEW L, NEW N, NEW P, NEW M, NEW R, NEW h \in Queue,
         NEW p \in 1..Len(L[h]), NEW e, Represents(k, L, N, P), k = "TAILQ",
         e = L[h][p], Unlinks(h, e, N, P, M, R)
  PROVE  Represents(k, [L EXCEPT ![h] = TakeOut(L[h], p)], M, R)
BY OverStep DEF Backed, BackOver, Unlinks

LEMMA LinksFirstStep ==
  ASSUME NEW k, NEW L, NEW N, NEW P, NEW M, NEW R, NEW h \in Queue, NEW e \in Elem,
         NEW r, Represents(k, L, N, P), k = "TAILQ", Fresh(e, L), r = <<e>> \o L[h],
         LinksFirst(h, e, N, P, M, R)
  PROVE  Represents(k, [L EXCEPT ![h] = r], M, R)
<1>1. BackAfter(k, h, h, N[h], e, P, R)
  BY DEF BackAfter, LinksFirst
<1>2. M = [N EXCEPT ![e] = N[h], ![h] = e]
  BY DEF LinksFirst
<1>3. L[h] \in Seq(Elem)
  BY DEF Represents
<1>4. 0 \in 0..Len(L[h])
  BY <1>3, Elements
<1> QED
  BY <1>1, <1>2, <1>4, AfterStep, Zenon

LEMMA MoveStep ==
  ASSUME NEW k, NEW L, NEW N, NEW P, NEW N1, NEW P1, NEW M, NEW R,
         NEW h \in Queue, NEW g \in Queue, NEW p \in 1..Len(L[h]), NEW e,
         Represents(k, L, N, P), k = "TAILQ", h # g, e = L[h][p],
         Unlinks(h, e, N, P, N1, P1), LinksFirst(g, e, N1, P1, M, R)
  PROVE  Represents(k, [L EXCEPT ![h] = TakeOut(L[h], p), ![g] = <<e>> \o L[g]],
                    M, R)
<1> DEFINE L1 == [L EXCEPT ![h] = TakeOut(L[h], p)]
           r == <<e>> \o L1[g]
<1>1. L \in [Queue -> Seq(Elem)] /\ L1[g] = L[g] /\ L[h] \in Seq(Elem)
  BY DEF Represents
<1>2. Represents(k, [L EXCEPT ![h] = TakeOut(L[h], p)], N1, P1)
  BY UnlinksStep, Zenon
<1>3. L1 = [L EXCEPT ![h] = TakeOut(L[h], p)] /\ r = <<e>> \o L1[g]
  OBVIOUS
<1>4. e \in Elem
  BY <1>1, Elements
<1> HIDE DEF L1, r
<1>5. Fresh(e, L1)
  BY <1>3, TakenOutFresh, Zenon
<1>6. Represents(k, L1, N1, P1)
  BY <1>2, <1>3
<1>7. Represents(k, [L1 EXCEPT ![g] = r], M, R)
  BY <1>3, <1>4, <1>5, <1>6, LinksFirstStep, Zenon
<1>8. [L1 EXCEPT ![g] = r] = [L EXCEPT ![h] = TakeOut(L[h], p), ![g] = <<e>> \o L[g]]
  BY <1>1, <1>3, Zenon
<1> QED
  BY <1>7, <1>8
=============================================================================
