---------------------------- MODULE SchedProofs ----------------------------
(***************************************************************************)
(* Proofs about the scheduler, for any set of threads and any time bounds: *)
(* type correctness and the safety invariants of module Sched, which are   *)
(* inductive together; and about the wait queues of rumpfiber.c on it.     *)
(***************************************************************************)
EXTENDS RumpThread, FiniteSetTheorems, TLAPS

-----------------------------------------------------------------------------
(* The tail queues of queue.h, seen as sequences: what TAILQ_REMOVE,       *)
(* TAILQ_INSERT_HEAD and TAILQ_INSERT_TAIL do to the elements of a list    *)
(* and to their order.                                                     *)

(* What a sequence is made of, and the ones that are made from it.         *)
LEMMA Elements ==
  ASSUME NEW S, NEW s \in Seq(S)
  PROVE  Len(s) \in Nat /\ DOMAIN s = 1..Len(s) /\ s \in [1..Len(s) -> S]
OBVIOUS

LEMMA ElementIn ==
  ASSUME NEW S, NEW s \in Seq(S), NEW i \in 1..Len(s)
  PROVE  s[i] \in S
OBVIOUS

LEMMA AppendElements ==
  ASSUME NEW S, NEW s \in Seq(S), NEW e \in S
  PROVE  /\ Append(s, e) \in Seq(S) /\ Len(Append(s, e)) = Len(s) + 1
         /\ Append(s, e)[Len(s) + 1] = e
         /\ \A i \in 1..Len(s) : Append(s, e)[i] = s[i]
OBVIOUS

LEMMA ConcatElements ==
  ASSUME NEW S, NEW s \in Seq(S), NEW t \in Seq(S)
  PROVE  /\ s \o t \in Seq(S) /\ Len(s \o t) = Len(s) + Len(t)
         /\ \A i \in 1..(Len(s) + Len(t)) :
              (s \o t)[i] = IF i <= Len(s) THEN s[i] ELSE t[i - Len(s)]
OBVIOUS

LEMMA PartElements ==
  ASSUME NEW S, NEW s, NEW m \in Int, NEW n \in Int, \A i \in m..n : s[i] \in S
  PROVE  /\ SubSeq(s, m, n) \in Seq(S)
         /\ Len(SubSeq(s, m, n)) = IF m <= n THEN n - m + 1 ELSE 0
         /\ \A i \in 1..(n - m + 1) : SubSeq(s, m, n)[i] = s[m + i - 1]
OBVIOUS

(* TAILQ_REMOVE: what was behind the removed element moves up by one.      *)
LEMMA RemoveAtElements ==
  ASSUME NEW S, NEW s \in Seq(S), NEW i \in DOMAIN s
  PROVE  /\ RemoveAt(s, i) \in Seq(S)
         /\ Len(RemoveAt(s, i)) = Len(s) - 1
         /\ \A k \in 1..(Len(s) - 1) :
              RemoveAt(s, i)[k] = IF k < i THEN s[k] ELSE s[k + 1]
<1> DEFINE front == SubSeq(s, 1, i - 1)
           back  == SubSeq(s, i + 1, Len(s))
<1>1. i \in 1..Len(s) /\ Len(s) \in Nat
  BY Elements
<1>2. /\ front \in Seq(S) /\ Len(front) = i - 1
      /\ \A k \in 1..(i - 1) : front[k] = s[k]
  <2>1. \A k \in 1..(i - 1) : s[k] \in S
    BY <1>1, ElementIn
  <2> QED
    BY <1>1, <2>1, PartElements
<1>3. /\ back \in Seq(S) /\ Len(back) = Len(s) - i
      /\ \A k \in 1..(Len(s) - i) : back[k] = s[i + k]
  <2>1. \A k \in (i + 1)..Len(s) : s[k] \in S
    BY <1>1, ElementIn
  <2>2. /\ back \in Seq(S)
        /\ Len(back) = IF i + 1 =< Len(s) THEN Len(s) - (i + 1) + 1 ELSE 0
        /\ \A k \in 1..(Len(s) - (i + 1) + 1) : back[k] = s[i + 1 + k - 1]
    BY <1>1, <2>1, PartElements
  <2> QED
    BY <1>1, <2>2
<1> HIDE DEF front, back
<1>4. RemoveAt(s, i) = front \o back
  BY DEF RemoveAt, front, back
<1>5. /\ front \o back \in Seq(S)
      /\ Len(front \o back) = Len(front) + Len(back)
      /\ \A k \in 1..(Len(front) + Len(back)) :
           (front \o back)[k] = IF k =< Len(front) THEN front[k]
                                ELSE back[k - Len(front)]
  BY <1>2, <1>3, ConcatElements
<1>6. Len(front) + Len(back) = Len(s) - 1
  BY <1>1, <1>2, <1>3
<1>7. ASSUME NEW k \in 1..(Len(s) - 1)
      PROVE  (front \o back)[k] = IF k < i THEN s[k] ELSE s[k + 1]
  <2>1. CASE k < i
    <3>1. k \in 1..(i - 1) /\ k =< i - 1
      BY <1>1, <2>1
    <3>2. (front \o back)[k] = front[k]
      BY <1>2, <1>5, <1>6, <3>1
    <3>3. front[k] = s[k]
      BY <1>2, <3>1
    <3> QED
      BY <2>1, <3>2, <3>3
  <2>2. CASE ~ (k < i)
    <3> DEFINE m == k - (i - 1)
    <3>1. m \in 1..(Len(s) - i) /\ i + m = k + 1 /\ ~ (k =< i - 1)
      BY <1>1, <2>2
    <3>2. (front \o back)[k] = back[m]
      BY <1>1, <1>2, <1>5, <1>6, <3>1
    <3>3. back[m] = s[k + 1]
      <4> HIDE DEF m
      <4> QED BY <1>3, <3>1
    <3> QED
      BY <2>2, <3>2, <3>3
  <2> QED
    BY <2>1, <2>2
<1> QED
  BY <1>4, <1>5, <1>6, <1>7

(* TAILQ_REMOVE takes away one element and keeps the others distinct.      *)
LEMMA RemoveAtSet ==
  ASSUME NEW S, NEW s \in Seq(S), IsInjective(s), NEW i \in DOMAIN s
  PROVE  /\ RemoveAt(s, i) \in Seq(S)
         /\ IsInjective(RemoveAt(s, i))
         /\ Range(RemoveAt(s, i)) = Range(s) \ {s[i]}
<1> DEFINE r == RemoveAt(s, i)
<1>1. Len(s) \in Nat /\ DOMAIN s = 1..Len(s)
  BY Elements
<1>2. /\ r \in Seq(S)
      /\ Len(r) = Len(s) - 1
      /\ \A k \in 1..(Len(s) - 1) : r[k] = IF k < i THEN s[k] ELSE s[k + 1]
  BY RemoveAtElements
<1>3. DOMAIN r = 1..(Len(s) - 1)
  BY <1>2, Elements
<1> HIDE DEF r
<1> DEFINE at(k) == IF k < i THEN k ELSE k + 1
<1>a. \A k \in DOMAIN r : at(k) \in DOMAIN s /\ at(k) # i /\ r[k] = s[at(k)]
  BY <1>1, <1>2, <1>3
<1>b. \A a, b \in DOMAIN r : at(a) = at(b) => a = b
  BY <1>1, <1>3
<1> HIDE DEF at
<1>4. IsInjective(r)
  BY <1>a, <1>b DEF IsInjective
<1>5. Range(r) \subseteq Range(s) \ {s[i]}
  <2> SUFFICES ASSUME NEW k \in DOMAIN r
               PROVE  r[k] \in Range(s) /\ r[k] # s[i]
    BY DEF Range
  <2>1. r[k] \in Range(s)
    BY <1>a DEF Range
  <2>2. r[k] # s[i]
    BY <1>a DEF IsInjective
  <2> QED
    BY <2>1, <2>2
<1>6. Range(s) \ {s[i]} \subseteq Range(r)
  <2> SUFFICES ASSUME NEW k \in 1..Len(s), k # i
               PROVE  \E m \in DOMAIN r : s[k] = r[m]
    BY <1>1 DEF Range
  <2>1. CASE k < i
    BY <1>1, <1>2, <1>3, <2>1
  <2>2. CASE k > i
    <3>1. k - 1 \in 1..(Len(s) - 1) /\ ~ (k - 1 < i) /\ (k - 1) + 1 = k
      BY <1>1, <2>2
    <3> QED
      BY <1>2, <1>3, <3>1
  <2> QED
    BY <1>1, <2>1, <2>2
<1> QED
  BY <1>2, <1>4, <1>5, <1>6 DEF r

(* TAILQ_INSERT_TAIL of an element that is not on the list.                *)
LEMMA AppendSet ==
  ASSUME NEW S, NEW s \in Seq(S), IsInjective(s),
         NEW e \in S, e \notin Range(s)
  PROVE  /\ Append(s, e) \in Seq(S)
         /\ IsInjective(Append(s, e))
         /\ Range(Append(s, e)) = Range(s) \cup {e}
<1> DEFINE r == Append(s, e)
<1>1. /\ Len(s) \in Nat /\ DOMAIN s = 1..Len(s)
      /\ r \in Seq(S) /\ DOMAIN r = 1..(Len(s) + 1)
      /\ \A i \in 1..Len(s) : r[i] = s[i]
      /\ r[Len(s) + 1] = e
  BY AppendElements, Elements
<1> HIDE DEF r
<1>2. IsInjective(r)
  BY <1>1 DEF IsInjective, Range
<1>3. Range(r) = Range(s) \cup {e}
  BY <1>1 DEF Range
<1> QED
  BY <1>1, <1>2, <1>3 DEF r

(* TAILQ_INSERT_HEAD of an element that is not on the list.                *)
LEMMA ConsSet ==
  ASSUME NEW S, NEW s \in Seq(S), IsInjective(s),
         NEW e \in S, e \notin Range(s)
  PROVE  /\ <<e>> \o s \in Seq(S)
         /\ Len(<<e>> \o s) = Len(s) + 1
         /\ (<<e>> \o s)[1] = e
         /\ \A i \in 1..Len(s) : (<<e>> \o s)[i + 1] = s[i]
         /\ IsInjective(<<e>> \o s)
         /\ Range(<<e>> \o s) = Range(s) \cup {e}
<1> DEFINE r == <<e>> \o s
<1>1. Len(s) \in Nat /\ DOMAIN s = 1..Len(s)
  BY Elements
<1>2. <<e>> \in Seq(S) /\ Len(<<e>>) = 1 /\ <<e>>[1] = e
  OBVIOUS
<1>3. /\ r \in Seq(S) /\ Len(r) = Len(s) + 1
      /\ \A k \in 1..(Len(s) + 1) : r[k] = IF k =< 1 THEN e ELSE s[k - 1]
  BY <1>1, <1>2, ConcatElements
<1>4. DOMAIN r = 1..(Len(s) + 1)
  BY <1>3, Elements
<1> HIDE DEF r
<1>5. r[1] = e /\ \A i \in 1..Len(s) : r[i + 1] = s[i]
  BY <1>1, <1>3
<1>6. IsInjective(r)
  <2> SUFFICES ASSUME NEW a \in DOMAIN r, NEW b \in DOMAIN r, r[a] = r[b]
               PROVE  a = b
    BY DEF IsInjective
  <2>1. \A k \in DOMAIN r : k # 1 => k - 1 \in DOMAIN s /\ r[k] = s[k - 1]
    BY <1>1, <1>3, <1>4
  <2>2. \A k \in DOMAIN r : k # 1 => r[k] # e
    BY <2>1 DEF Range
  <2>3. CASE a = 1 \/ b = 1
    BY <1>5, <2>2, <2>3
  <2>4. CASE a # 1 /\ b # 1
    <3>1. a - 1 = b - 1
      BY <2>1, <2>4 DEF IsInjective
    <3> QED
      BY <1>1, <1>4, <3>1
  <2> QED
    BY <2>3, <2>4
<1>7. Range(r) = Range(s) \cup {e}
  <2>1. 1 \in DOMAIN r /\ \A i \in 1..Len(s) : i + 1 \in DOMAIN r
    BY <1>1, <1>4
  <2>2. Range(s) \cup {e} \subseteq Range(r)
    BY <1>1, <1>5, <2>1 DEF Range
  <2>3. \A k \in DOMAIN r : k # 1 => k - 1 \in DOMAIN s /\ r[k] = s[k - 1]
    BY <1>1, <1>3, <1>4
  <2>4. \A k \in DOMAIN r : r[k] \in Range(s) \cup {e}
    BY <1>5, <2>3 DEF Range
  <2> QED
    BY <2>2, <2>4 DEF Range
<1> QED
  BY <1>3, <1>5, <1>6, <1>7 DEF r

(* TAILQ_FIRST and its TAILQ_REMOVE.                                       *)
LEMMA TailSet ==
  ASSUME NEW S, NEW s \in Seq(S), IsInjective(s), s # <<>>
  PROVE  /\ Head(s) \in Range(s)
         /\ Tail(s) \in Seq(S)
         /\ IsInjective(Tail(s))
         /\ Range(Tail(s)) = Range(s) \ {Head(s)}
<1> DEFINE r == Tail(s)
<1>1. /\ Len(s) \in Nat /\ DOMAIN s = 1..Len(s) /\ 1 \in DOMAIN s
      /\ r \in Seq(S) /\ DOMAIN r = 1..(Len(s) - 1)
      /\ \A i \in 1..(Len(s) - 1) : r[i] = s[i + 1]
      /\ Head(s) = s[1]
  OBVIOUS
<1> HIDE DEF r
<1>2. \A i, j \in DOMAIN s : s[i] = s[j] => i = j
  BY DEF IsInjective
<1>3. IsInjective(r)
  <2>1. ASSUME NEW i \in DOMAIN r, NEW j \in DOMAIN r, r[i] = r[j]
        PROVE  i = j
    <3>1. /\ i + 1 \in DOMAIN s /\ r[i] = s[i + 1]
          /\ j + 1 \in DOMAIN s /\ r[j] = s[j + 1]
      BY <1>1
    <3>2. i + 1 = j + 1
      BY <1>2, <2>1, <3>1
    <3> QED
      BY <1>1, <3>2
  <2> QED
    BY <2>1 DEF IsInjective
<1>4. ASSUME NEW x \in Range(r)
      PROVE  x \in Range(s) \ {Head(s)}
  <2>1. PICK i \in DOMAIN r : x = r[i]
    BY DEF Range
  <2>2. i + 1 \in DOMAIN s /\ i + 1 # 1 /\ x = s[i + 1]
    BY <1>1, <2>1
  <2> QED
    BY <1>1, <1>2, <2>2 DEF Range
<1>5. ASSUME NEW x \in Range(s) \ {Head(s)}
      PROVE  x \in Range(r)
  <2>1. PICK i \in DOMAIN s : x = s[i] /\ i # 1
    BY <1>1 DEF Range
  <2>2. i - 1 \in 1..(Len(s) - 1) /\ (i - 1) + 1 = i
    BY <1>1, <2>1
  <2>3. r[i - 1] = x
    BY <1>1, <2>1, <2>2
  <2> QED
    BY <1>1, <2>2, <2>3 DEF Range
<1>6. Head(s) \in Range(s)
  BY <1>1 DEF Range
<1> QED
  BY <1>1, <1>3, <1>4, <1>5, <1>6 DEF r

(* TAILQ_EMPTY.                                                            *)
LEMMA EmptySet ==
  ASSUME NEW S, NEW s \in Seq(S)
  PROVE  Range(s) = {} <=> s = <<>>
<1>1. Len(s) \in Nat /\ DOMAIN s = 1..Len(s)
  BY Elements
<1>2. CASE s = <<>>
  BY <1>2 DEF Range
<1>3. CASE s # <<>>
  <2>1. 1 \in DOMAIN s
    BY <1>3, <1>1
  <2> QED
    BY <1>3, <2>1 DEF Range
<1> QED
  BY <1>2, <1>3

LEMMA ListFinite ==
  ASSUME NEW S, NEW s \in Seq(S)
  PROVE  IsFiniteSet(Range(s))
<1>1. Len(s) \in Nat /\ DOMAIN s = 1..Len(s)
  BY Elements
<1>2. IsFiniteSet(1..Len(s))
  BY <1>1, FS_Interval
<1>3. s \in Surjection(1..Len(s), Range(s))
  BY <1>1 DEF Surjection, Range
<1> QED
  BY <1>2, <1>3, FS_Surjection

-----------------------------------------------------------------------------
(* What the operations on a thread structure write, and that they leave    *)
(* every other thread alone.                                               *)

LEMMA SetRunnableFields ==
  ASSUME NEW th \in [Thread -> BmkThread], NEW t \in Thread
  PROVE  /\ set_runnable(th, t) \in [Thread -> BmkThread]
         /\ set_runnable(th, t)[t].runnable
         /\ set_runnable(th, t)[t].wakeup_time = th[t].wakeup_time
         /\ set_runnable(th, t)[t].ip = th[t].ip
         /\ \A u \in Thread \ {t} : set_runnable(th, t)[u] = th[u]
BY DEF set_runnable, BmkThread

LEMMA ClearRunnableFields ==
  ASSUME NEW th \in [Thread -> BmkThread], NEW t \in Thread
  PROVE  /\ clear_runnable(th, t) \in [Thread -> BmkThread]
         /\ ~ clear_runnable(th, t)[t].runnable
         /\ clear_runnable(th, t)[t].wakeup_time = th[t].wakeup_time
         /\ clear_runnable(th, t)[t].ip = th[t].ip
         /\ \A u \in Thread \ {t} : clear_runnable(th, t)[u] = th[u]
BY DEF clear_runnable, BmkThread

LEMMA SetWakeupFields ==
  ASSUME NEW th \in [Thread -> BmkThread], NEW t \in Thread,
         NEW abstime \in -1..MaxTime
  PROVE  /\ bmk_sched_setwakeup(th, t, abstime) \in [Thread -> BmkThread]
         /\ bmk_sched_setwakeup(th, t, abstime)[t].runnable = th[t].runnable
         /\ bmk_sched_setwakeup(th, t, abstime)[t].wakeup_time = abstime
         /\ bmk_sched_setwakeup(th, t, abstime)[t].ip = th[t].ip
         /\ \A u \in Thread \ {t} :
              bmk_sched_setwakeup(th, t, abstime)[u] = th[u]
BY DEF bmk_sched_setwakeup, BmkThread

LEMMA WakeFields ==
  ASSUME NEW th \in [Thread -> BmkThread], NEW t \in Thread
  PROVE  /\ bmk_sched_wake(th, t) \in [Thread -> BmkThread]
         /\ bmk_sched_wake(th, t)[t].runnable
         /\ bmk_sched_wake(th, t)[t].wakeup_time = -1
         /\ bmk_sched_wake(th, t)[t].ip = th[t].ip
         /\ \A u \in Thread \ {t} : bmk_sched_wake(th, t)[u] = th[u]
<1> DEFINE mid == bmk_sched_setwakeup(th, t, -1)
<1>1. -1 \in -1..MaxTime
  BY TimeAssumption
<1>2. /\ mid \in [Thread -> BmkThread]
      /\ mid[t].wakeup_time = -1 /\ mid[t].ip = th[t].ip
      /\ \A u \in Thread \ {t} : mid[u] = th[u]
  BY <1>1, SetWakeupFields
<1> HIDE DEF mid
<1>3. /\ set_runnable(mid, t) \in [Thread -> BmkThread]
      /\ set_runnable(mid, t)[t].runnable
      /\ set_runnable(mid, t)[t].wakeup_time = mid[t].wakeup_time
      /\ set_runnable(mid, t)[t].ip = mid[t].ip
      /\ \A u \in Thread \ {t} : set_runnable(mid, t)[u] = mid[u]
  BY <1>2, SetRunnableFields
<1>4. set_runnable(mid, t) = bmk_sched_wake(th, t)
  BY DEF mid, bmk_sched_wake
<1> QED
  BY <1>2, <1>3, <1>4

LEMMA BlockFields ==
  ASSUME NEW th \in [Thread -> BmkThread], NEW t \in Thread
  PROVE  /\ bmk_sched_block(th, t) \in [Thread -> BmkThread]
         /\ ~ bmk_sched_block(th, t)[t].runnable
         /\ bmk_sched_block(th, t)[t].wakeup_time = -1
         /\ bmk_sched_block(th, t)[t].ip = th[t].ip
         /\ \A u \in Thread \ {t} : bmk_sched_block(th, t)[u] = th[u]
<1> DEFINE mid == bmk_sched_setwakeup(th, t, -1)
<1>1. -1 \in -1..MaxTime
  BY TimeAssumption
<1>2. /\ mid \in [Thread -> BmkThread]
      /\ mid[t].wakeup_time = -1 /\ mid[t].ip = th[t].ip
      /\ \A u \in Thread \ {t} : mid[u] = th[u]
  BY <1>1, SetWakeupFields
<1> HIDE DEF mid
<1>3. /\ clear_runnable(mid, t) \in [Thread -> BmkThread]
      /\ ~ clear_runnable(mid, t)[t].runnable
      /\ clear_runnable(mid, t)[t].wakeup_time = mid[t].wakeup_time
      /\ clear_runnable(mid, t)[t].ip = mid[t].ip
      /\ \A u \in Thread \ {t} : clear_runnable(mid, t)[u] = mid[u]
  BY <1>2, ClearRunnableFields
<1>4. clear_runnable(mid, t) = bmk_sched_block(th, t)
  BY DEF mid, bmk_sched_block
<1> QED
  BY <1>2, <1>3, <1>4

LEMMA SwitchFields ==
  ASSUME NEW th \in [Thread -> BmkThread], NEW t \in Thread
  PROVE  /\ sched_switch(th, t) \in [Thread -> BmkThread]
         /\ sched_switch(th, t)[t].runnable = th[t].runnable
         /\ sched_switch(th, t)[t].wakeup_time = th[t].wakeup_time
         /\ sched_switch(th, t)[t].ip = "switched"
         /\ \A u \in Thread \ {t} : sched_switch(th, t)[u] = th[u]
BY DEF sched_switch, BmkThread, SavedIp

-----------------------------------------------------------------------------

(* What a scan that finds a thread does: the list is rotated, the thread   *)
(* runs with its timeout disarmed, the previous one has a resume point, and*)
(* no live thread is otherwise touched by the switch or by the reaper.     *)
LEMMA RunEffect ==
  ASSUME TypeOK, ListsIntact, NEW i \in DOMAIN threads, bmk_sched_run(i)
  PROVE  /\ threads[i] \in Alive /\ Alive \subseteq Thread
         /\ threads' \in Seq(Thread) /\ IsInjective(threads') /\ Alive' = Alive
         /\ zombies' \subseteq zombies
         /\ bt' \in [Thread -> BmkThread]
         /\ current_thread' = threads[i]
         /\ bt'[threads[i]].runnable
         /\ \/ bt'[threads[i]].wakeup_time = -1
            \/ /\ bt[threads[i]].runnable
               /\ bt'[threads[i]].wakeup_time = bt[threads[i]].wakeup_time
         /\ \A t \in Alive \ {threads[i]} :
              /\ bt'[t].runnable = bt[t].runnable
              /\ bt'[t].wakeup_time = bt[t].wakeup_time
              /\ bt'[t].ip = IF t = current_thread THEN "switched"
                             ELSE bt[t].ip
<1> DEFINE prev   == current_thread
           next   == threads[i]
           woken  == IF Expired(next) THEN bmk_sched_wake(bt, next) ELSE bt
           saved  == IF prev = next THEN woken ELSE sched_switch(woken, prev)
           reaped == Reaped(prev, next)
           rest   == RemoveAt(threads, i)
<1>1. next \in Alive /\ Alive \subseteq Thread /\ next \in Thread
  BY Elements, ElementIn DEF TypeOK, Alive, Range
<1>2. /\ rest \in Seq(Thread) /\ IsInjective(rest)
      /\ Range(rest) = Alive \ {next}
  BY RemoveAtSet DEF TypeOK, ListsIntact, Alive
<1>3. /\ Append(rest, next) \in Seq(Thread)
      /\ IsInjective(Append(rest, next))
      /\ Range(Append(rest, next)) = Alive
  <2> HIDE DEF rest, next
  <2>1. next \notin Range(rest)
    BY <1>2
  <2>2. /\ Append(rest, next) \in Seq(Thread)
        /\ IsInjective(Append(rest, next))
        /\ Range(Append(rest, next)) = Range(rest) \cup {next}
    BY <1>1, <1>2, <2>1, AppendSet
  <2> QED
    BY <1>1, <1>2, <2>2
<1>4. /\ threads' = Append(rest, next) /\ current_thread' = next
      /\ zombies' = zombies \ reaped /\ Pickable(next)
      /\ bt' = [t \in Thread |-> IF t \in reaped THEN Unallocated
                                 ELSE saved[t]]
  BY DEF bmk_sched_run, Requeued, FirstPickable
<1>5. reaped \subseteq zombies /\ next \notin reaped
  BY <1>1 DEF Reaped, ListsIntact
<1>6. /\ woken \in [Thread -> BmkThread]
      /\ woken[next].runnable
      /\ \/ woken[next].wakeup_time = -1
         \/ bt[next].runnable /\ woken[next].wakeup_time = bt[next].wakeup_time
      /\ \A t \in Thread \ {next} : woken[t] = bt[t]
  <2>1. CASE Expired(next)
    BY <1>1, <2>1, WakeFields DEF TypeOK
  <2>2. CASE ~ Expired(next)
    BY <1>4, <2>2 DEF Pickable, TypeOK
  <2> QED
    BY <2>1, <2>2
<1> HIDE DEF woken
<1>7. /\ saved \in [Thread -> BmkThread]
      /\ saved[next].runnable = woken[next].runnable
      /\ saved[next].wakeup_time = woken[next].wakeup_time
      /\ \A t \in Thread \ {next} :
           /\ saved[t].runnable = woken[t].runnable
           /\ saved[t].wakeup_time = woken[t].wakeup_time
           /\ saved[t].ip = IF t = prev THEN "switched" ELSE woken[t].ip
  <2>1. CASE prev = next
    BY <1>6, <2>1
  <2>2. CASE prev # next
    <3>1. /\ sched_switch(woken, prev) \in [Thread -> BmkThread]
          /\ sched_switch(woken, prev)[prev].runnable = woken[prev].runnable
          /\ sched_switch(woken, prev)[prev].wakeup_time
               = woken[prev].wakeup_time
          /\ sched_switch(woken, prev)[prev].ip = "switched"
          /\ \A u \in Thread \ {prev} : sched_switch(woken, prev)[u] = woken[u]
      BY <1>6, SwitchFields DEF TypeOK
    <3>2. saved = sched_switch(woken, prev)
      BY <2>2
    <3> HIDE DEF saved, next
    <3> QED
      BY <1>1, <2>2, <3>1, <3>2
  <2> QED
    BY <2>1, <2>2
<1> HIDE DEF saved, reaped
<1>8. Alive \cap reaped = {} /\ \A t \in Alive : bt'[t] = saved[t]
  BY <1>1, <1>4, <1>5 DEF ListsIntact
<1>9. bt' \in [Thread -> BmkThread]
  <2>1. Unallocated \in BmkThread
    BY TimeAssumption DEF Unallocated, BmkThread, SavedIp
  <2> QED
    BY <1>4, <1>7, <2>1
<1>10. Alive' = Alive
  BY <1>3, <1>4 DEF Alive
<1> HIDE DEF next
<1>11. /\ bt'[next].runnable
       /\ \/ bt'[next].wakeup_time = -1
          \/ bt[next].runnable /\ bt'[next].wakeup_time = bt[next].wakeup_time
  BY <1>1, <1>6, <1>7, <1>8
<1>12. \A t \in Alive \ {next} :
         /\ bt'[t].runnable = bt[t].runnable
         /\ bt'[t].wakeup_time = bt[t].wakeup_time
         /\ bt'[t].ip = IF t = prev THEN "switched" ELSE bt[t].ip
  BY <1>1, <1>6, <1>7, <1>8
<1> QED
  BY <1>1, <1>3, <1>4, <1>9, <1>10, <1>11, <1>12 DEF next

(* Every step of the scheduler keeps the variables within their types.     *)
LEMMA TypeStep == TypeOK /\ ListsIntact /\ [Next]_vars => TypeOK'
<1> SUFFICES ASSUME TypeOK, ListsIntact, [Next]_vars
             PROVE  TypeOK'
  OBVIOUS
<1> USE TimeAssumption
<1>1. ASSUME NEW t \in Thread, bmk_sched_create(t)
      PROVE  TypeOK'
  <2>1. threads' \in Seq(Thread)
    BY <1>1, ConsSet DEF bmk_sched_create, TypeOK, ListsIntact, Alive
  <2>2. bt' \in [Thread -> BmkThread]
    BY <1>1 DEF bmk_sched_create, TypeOK, BmkThread, SavedIp
  <2> QED
    BY <1>1, <2>1, <2>2 DEF bmk_sched_create, TypeOK
<1>2. ASSUME NEW t \in Thread, Wake(t)
      PROVE  TypeOK'
  BY <1>2, WakeFields DEF Wake, TypeOK
<1>3. ASSUME NEW nsec \in Durations, Wait(nsec)
      PROVE  TypeOK'
  <2>1. now + nsec \in -1..MaxTime
    BY <1>3 DEF Wait, Durations, TypeOK
  <2>2. bmk_sched_block(bt, current_thread) \in [Thread -> BmkThread]
    BY BlockFields DEF TypeOK
  <2>3. bmk_sched_setwakeup(bmk_sched_block(bt, current_thread),
                            current_thread, now + nsec)
          \in [Thread -> BmkThread]
    BY <2>1, <2>2, SetWakeupFields DEF TypeOK
  <2> QED
    BY <1>3, <2>2, <2>3 DEF Wait, TypeOK
<1>4. ASSUME NEW nsec \in Durations, bmk_sched_nanosleep(nsec)
      PROVE  TypeOK'
  <2>1. now + nsec \in -1..MaxTime
    BY <1>4 DEF bmk_sched_nanosleep, Durations, TypeOK
  <2>2. bmk_sched_setwakeup(bt, current_thread, now + nsec)
          \in [Thread -> BmkThread]
    BY <2>1, SetWakeupFields DEF TypeOK
  <2>3. bt' \in [Thread -> BmkThread]
    BY <1>4, <2>2, ClearRunnableFields DEF bmk_sched_nanosleep, TypeOK
  <2> QED
    BY <1>4, <2>3 DEF bmk_sched_nanosleep, TypeOK
<1>5. CASE bmk_sched_exit
  <2>1. threads' \in Seq(Thread)
    BY <1>5, RemoveAtSet DEF bmk_sched_exit, unlink_current, bury_current, TypeOK, ListsIntact
  <2>2. bt' \in [Thread -> BmkThread]
    BY <1>5, ClearRunnableFields DEF bmk_sched_exit, unlink_current, bury_current, TypeOK
  <2> QED
    BY <1>5, <2>1, <2>2 DEF bmk_sched_exit, unlink_current, bury_current, TypeOK
<1>6. ASSUME NEW i \in DOMAIN threads, bmk_sched_run(i)
      PROVE  TypeOK'
  <2>1. /\ threads' \in Seq(Thread) /\ zombies' \subseteq zombies
        /\ bt' \in [Thread -> BmkThread] /\ current_thread' \in Thread
    BY <1>6, RunEffect
  <2> QED
    BY <1>6, <2>1 DEF bmk_sched_run, Requeued, TypeOK
<1>7. CASE bmk_sched_idle
  BY <1>7 DEF bmk_sched_idle, TypeOK
<1>8. CASE nanohlt_return
  BY <1>8 DEF nanohlt_return, TypeOK
<1>9. CASE Tick
  BY <1>9 DEF Tick, TypeOK
<1>10. CASE UNCHANGED vars
  BY <1>10 DEF vars, TypeOK
<1> QED
  BY <1>1, <1>2, <1>3, <1>4, <1>5, <1>6, <1>7, <1>8, <1>9, <1>10
  DEF Next, Yield, bmk_sched

-----------------------------------------------------------------------------

(* A step that keeps the lists, the saved contexts and the current thread  *)
(* keeps the invariants, if the thread structures it writes stay disarmed  *)
(* while runnable.                                                         *)
LEMMA SameListsStep ==
  ASSUME Safety,
         UNCHANGED <<threads, zombies, current_thread>>,
         cpu = "thread" \/ cpu' # "thread",
         \A t \in Alive : bt'[t].ip = bt[t].ip,
         \A t \in Alive : bt'[t].runnable => bt'[t].wakeup_time = -1,
         cpu' = "thread" => bt'[current_thread].runnable
  PROVE  Safety'
<1>1. Alive' = Alive
  BY DEF Alive
<1>2. ListsIntact' /\ StackNotFreed'
  BY <1>1 DEF Safety, ListsIntact, StackNotFreed
<1>3. ContextSaved'
  BY <1>1 DEF Safety, ContextSaved
<1>4. RunnableDisarmed'
  BY <1>1 DEF RunnableDisarmed
<1> QED
  BY <1>2, <1>3, <1>4 DEF Safety

(* Every step of the scheduler preserves the safety invariants.            *)
LEMMA SafetyStep == TypeOK /\ Safety /\ [Next]_vars => Safety'
<1> SUFFICES ASSUME TypeOK, Safety, [Next]_vars
             PROVE  Safety'
  OBVIOUS
<1>0. Alive \subseteq Thread /\ ListsIntact
  BY Elements, ElementIn DEF TypeOK, Safety, Alive, Range
<1>1. ASSUME NEW t \in Thread, bmk_sched_create(t)
      PROVE  Safety'
  <2>1. IsInjective(threads') /\ Alive' = Alive \cup {t}
    BY <1>0, <1>1, ConsSet DEF bmk_sched_create, TypeOK, ListsIntact, Alive
  <2>2. /\ bt'[t].runnable /\ bt'[t].wakeup_time = -1 /\ bt'[t].ip = "bouncer"
        /\ \A u \in Thread \ {t} : bt'[u] = bt[u]
        /\ zombies' = zombies /\ current_thread' = current_thread
        /\ cpu' = cpu /\ cpu = "thread" /\ t \notin Alive \cup zombies
    BY <1>1 DEF bmk_sched_create, TypeOK
  <2>3. current_thread \in Alive
    BY <2>2 DEF Safety, StackNotFreed
  <2>4. ListsIntact'
    BY <1>0, <2>1, <2>2 DEF ListsIntact
  <2>5. StackNotFreed'
    BY <2>1, <2>2, <2>3 DEF StackNotFreed
  <2>6. ContextSaved'
    BY <1>0, <2>1, <2>2 DEF Safety, ContextSaved
  <2>7. RunnableDisarmed'
    BY <1>0, <2>1, <2>2, <2>3 DEF Safety, RunnableDisarmed
  <2> QED
    BY <2>4, <2>5, <2>6, <2>7 DEF Safety
<1>2. ASSUME NEW t \in Thread, Wake(t)
      PROVE  Safety'
  <2>1. /\ bt'[t].runnable /\ bt'[t].wakeup_time = -1 /\ bt'[t].ip = bt[t].ip
        /\ \A u \in Thread \ {t} : bt'[u] = bt[u]
    BY <1>2, WakeFields DEF Wake, TypeOK
  <2>2. cpu = "thread" => bt'[current_thread].runnable
    BY <2>1 DEF Safety, RunnableDisarmed, TypeOK
  <2> QED
    BY <1>0, <1>2, <2>1, <2>2, SameListsStep DEF Wake, Safety, RunnableDisarmed
<1>3. ASSUME NEW nsec \in Durations, Wait(nsec)
      PROVE  Safety'
  <2> DEFINE blocked == bmk_sched_block(bt, current_thread)
  <2>1. /\ blocked \in [Thread -> BmkThread]
        /\ ~ blocked[current_thread].runnable
        /\ blocked[current_thread].ip = bt[current_thread].ip
        /\ \A u \in Thread \ {current_thread} : blocked[u] = bt[u]
    BY BlockFields DEF TypeOK
  <2>2. now + nsec \in -1..MaxTime
    BY <1>3, TimeAssumption DEF Wait, Durations, TypeOK
  <2>3. bt' = IF nsec = 0 THEN blocked
              ELSE bmk_sched_setwakeup(blocked, current_thread, now + nsec)
    BY <1>3 DEF Wait
  <2> HIDE DEF blocked
  <2>4. /\ ~ bt'[current_thread].runnable
        /\ bt'[current_thread].ip = bt[current_thread].ip
        /\ \A u \in Thread \ {current_thread} : bt'[u] = bt[u]
    BY <2>1, <2>2, <2>3, SetWakeupFields DEF TypeOK
  <2> QED
    BY <1>0, <1>3, <2>4, SameListsStep DEF Wait, Safety, RunnableDisarmed
<1>4. ASSUME NEW nsec \in Durations, bmk_sched_nanosleep(nsec)
      PROVE  Safety'
  <2> DEFINE armed == bmk_sched_setwakeup(bt, current_thread, now + nsec)
  <2>1. now + nsec \in -1..MaxTime
    BY <1>4, TimeAssumption DEF bmk_sched_nanosleep, Durations, TypeOK
  <2>2. /\ armed \in [Thread -> BmkThread]
        /\ armed[current_thread].ip = bt[current_thread].ip
        /\ \A u \in Thread \ {current_thread} : armed[u] = bt[u]
    BY <2>1, SetWakeupFields DEF TypeOK
  <2>3. bt' = clear_runnable(armed, current_thread)
    BY <1>4 DEF bmk_sched_nanosleep
  <2> HIDE DEF armed
  <2>4. /\ ~ bt'[current_thread].runnable
        /\ bt'[current_thread].ip = bt[current_thread].ip
        /\ \A u \in Thread \ {current_thread} : bt'[u] = bt[u]
    BY <2>2, <2>3, ClearRunnableFields DEF TypeOK
  <2> QED
    BY <1>0, <1>4, <2>4, SameListsStep
    DEF bmk_sched_nanosleep, Safety, RunnableDisarmed
<1>5. CASE bmk_sched_exit
  <2>1. /\ IsInjective(threads') /\ Alive' = Alive \ {current_thread}
    BY <1>0, <1>5, RemoveAtSet DEF bmk_sched_exit, unlink_current, bury_current, TypeOK, ListsIntact, Alive
  <2>2. /\ zombies' = zombies \cup {current_thread} /\ cpu' = "sched"
        /\ current_thread' = current_thread
        /\ \A u \in Thread \ {current_thread} : bt'[u] = bt[u]
    BY <1>5, ClearRunnableFields DEF bmk_sched_exit, unlink_current, bury_current, TypeOK
  <2>3. ListsIntact' /\ StackNotFreed'
    BY <1>0, <2>1, <2>2 DEF ListsIntact, StackNotFreed
  <2>4. ContextSaved'
    BY <1>0, <2>1, <2>2 DEF Safety, ContextSaved
  <2>5. RunnableDisarmed'
    BY <1>0, <2>1, <2>2 DEF Safety, RunnableDisarmed
  <2> QED
    BY <2>3, <2>4, <2>5 DEF Safety
<1>6. ASSUME NEW i \in DOMAIN threads, bmk_sched_run(i)
      PROVE  Safety'
  <2> DEFINE next == threads[i]
  <2>1. /\ next \in Alive /\ IsInjective(threads') /\ Alive' = Alive
        /\ zombies' \subseteq zombies /\ current_thread' = next
    BY <1>0, <1>6, RunEffect
  <2>2. /\ bt'[next].runnable
        /\ \/ bt'[next].wakeup_time = -1
           \/ bt[next].runnable /\ bt'[next].wakeup_time = bt[next].wakeup_time
    BY <1>0, <1>6, RunEffect
  <2>3. \A t \in Alive \ {next} :
          /\ bt'[t].runnable = bt[t].runnable
          /\ bt'[t].wakeup_time = bt[t].wakeup_time
          /\ bt'[t].ip = IF t = current_thread THEN "switched" ELSE bt[t].ip
    BY <1>0, <1>6, RunEffect
  <2> HIDE DEF next
  <2>4. ListsIntact'
    BY <1>0, <2>1 DEF ListsIntact
  <2>5. StackNotFreed'
    BY <2>1 DEF StackNotFreed
  <2>6. ContextSaved'
    BY <2>1, <2>3 DEF Safety, ContextSaved
  <2>7. RunnableDisarmed'
    BY <2>1, <2>2, <2>3 DEF Safety, RunnableDisarmed
  <2> QED
    BY <2>4, <2>5, <2>6, <2>7 DEF Safety
<1>7. CASE bmk_sched_idle
  BY <1>7, SameListsStep DEF bmk_sched_idle, Safety, RunnableDisarmed
<1>8. CASE nanohlt_return
  BY <1>8, SameListsStep DEF nanohlt_return, Safety, RunnableDisarmed
<1>9. CASE Tick
  BY <1>9, SameListsStep DEF Tick, Safety, RunnableDisarmed
<1>10. CASE UNCHANGED vars
  BY <1>10, SameListsStep DEF vars, Safety, RunnableDisarmed
<1> QED
  BY <1>1, <1>2, <1>3, <1>4, <1>5, <1>6, <1>7, <1>8, <1>9, <1>10
  DEF Next, Yield, bmk_sched

-----------------------------------------------------------------------------
(* What the calls of bmk_sched do to the list and to the flags of the      *)
(* other threads.                                                          *)

LEMMA CreateEffect ==
  ASSUME TypeOK, Safety, NEW t \in Thread, bmk_sched_create(t)
  PROVE  /\ t \notin Alive /\ Alive' = Alive \cup {t}
         /\ bt'[t].runnable
         /\ \A u \in Thread \ {t} : bt'[u] = bt[u]
<1>1. Alive' = Alive \cup {t}
  BY ConsSet DEF bmk_sched_create, TypeOK, Safety, ListsIntact, Alive
<1> QED
  BY <1>1 DEF bmk_sched_create, TypeOK

LEMMA ExitEffect ==
  ASSUME TypeOK, Safety, bmk_sched_exit
  PROVE  /\ Alive' = Alive \ {current_thread}
         /\ \A u \in Thread \ {current_thread} : bt'[u] = bt[u]
<1>1. Alive' = Alive \ {current_thread}
  BY RemoveAtSet
  DEF bmk_sched_exit, unlink_current, TypeOK, Safety, ListsIntact, Alive
<1> QED
  BY <1>1, ClearRunnableFields DEF bmk_sched_exit, bury_current, TypeOK

LEMMA BlockEffect ==
  ASSUME TypeOK, NEW nsec \in Durations, Wait(nsec) \/ bmk_sched_nanosleep(nsec)
  PROVE  /\ cpu = "thread" /\ cpu' = "sched"
         /\ Alive' = Alive /\ current_thread' = current_thread
         /\ \A u \in Thread \ {current_thread} : bt'[u] = bt[u]
<1> DEFINE blocked == bmk_sched_block(bt, current_thread)
           armed == bmk_sched_setwakeup(bt, current_thread, now + nsec)
<1>0. now + nsec \in -1..MaxTime
  BY TimeAssumption DEF Wait, bmk_sched_nanosleep, Durations, TypeOK
<1>1. /\ blocked \in [Thread -> BmkThread] /\ armed \in [Thread -> BmkThread]
      /\ \A u \in Thread \ {current_thread} : blocked[u] = bt[u] /\ armed[u] = bt[u]
  BY <1>0, BlockFields, SetWakeupFields DEF TypeOK
<1>2. \/ bt' = blocked
      \/ bt' = bmk_sched_setwakeup(blocked, current_thread, now + nsec)
      \/ bt' = clear_runnable(armed, current_thread)
  BY DEF Wait, bmk_sched_nanosleep
<1> HIDE DEF blocked, armed
<1>3. \A u \in Thread \ {current_thread} : bt'[u] = bt[u]
  <2>0. current_thread \in Thread
    BY DEF TypeOK
  <2>1. CASE bt' = blocked
    BY <1>1, <2>1
  <2>2. CASE bt' = bmk_sched_setwakeup(blocked, current_thread, now + nsec)
    BY <1>0, <1>1, <2>0, <2>2, SetWakeupFields
  <2>3. CASE bt' = clear_runnable(armed, current_thread)
    BY <1>1, <2>0, <2>3, ClearRunnableFields
  <2> QED
    BY <1>2, <2>1, <2>2, <2>3
<1> QED
  BY <1>3 DEF Wait, bmk_sched_nanosleep, Alive

LEMMA WakeEffect ==
  ASSUME TypeOK, NEW t \in Thread, Wake(t)
  PROVE  /\ Alive' = Alive /\ current_thread' = current_thread /\ cpu' = cpu
         /\ bt'[t].runnable
         /\ \A u \in Thread \ {t} : bt'[u] = bt[u]
BY WakeFields DEF Wake, TypeOK, Alive

(* A thread leaves the list, or stops being runnable, only by a call that  *)
(* it makes itself; and nobody takes the CPU from it.                      *)
LEMMA OnlyByItself ==
  ASSUME TypeOK, Safety, [Next]_vars
  PROVE  /\ \A t \in Alive :
              (cpu = "thread" => t # current_thread) =>
                t \in Alive' /\ (bt[t].runnable => bt'[t].runnable)
         /\ cpu = "thread" => current_thread' = current_thread
<1>0. Alive \subseteq Thread /\ ListsIntact
  BY Elements, ElementIn DEF TypeOK, Safety, Alive, Range
<1>1. ASSUME NEW t \in Thread, bmk_sched_create(t)
      PROVE  /\ Alive \subseteq Alive' /\ \A u \in Alive : bt'[u] = bt[u]
             /\ current_thread' = current_thread
  BY <1>0, <1>1, CreateEffect DEF bmk_sched_create
<1>2. ASSUME NEW t \in Thread, Wake(t)
      PROVE  /\ Alive' = Alive /\ current_thread' = current_thread
             /\ \A u \in Alive : bt[u].runnable => bt'[u].runnable
  BY <1>0, <1>2, WakeEffect
<1>3. ASSUME Yield
      PROVE  /\ cpu = "thread" /\ current_thread' = current_thread
             /\ \A u \in Alive \ {current_thread} : u \in Alive' /\ bt'[u] = bt[u]
  BY <1>0, <1>3, BlockEffect, ExitEffect DEF Yield, bmk_sched_exit
<1>4. ASSUME NEW i \in DOMAIN threads, bmk_sched_run(i)
      PROVE  /\ cpu # "thread" /\ Alive' = Alive
             /\ \A t \in Alive : bt[t].runnable => bt'[t].runnable
  <2>1. cpu # "thread"
    BY <1>4 DEF bmk_sched_run
  <2> QED
    BY <1>0, <1>4, <2>1, RunEffect
<1>5. ASSUME bmk_sched_idle \/ nanohlt_return \/ Tick \/ UNCHANGED vars
      PROVE  Alive' = Alive /\ bt' = bt /\ current_thread' = current_thread
  BY <1>5 DEF bmk_sched_idle, nanohlt_return, Tick, vars, Alive
<1> QED
  BY <1>1, <1>2, <1>3, <1>4, <1>5 DEF Next, bmk_sched

(* The state in which bmk_sched_init() leaves the scheduler.               *)
LEMMA InitSafe == Init => TypeOK /\ Safety
<1> SUFFICES ASSUME Init
             PROVE  TypeOK /\ Safety
  OBVIOUS
<1>1. /\ threads \in Seq(Thread) /\ IsInjective(threads)
      /\ Alive = {init_thread}
  BY ThreadAssumption DEF Init, Alive, Range, IsInjective
<1>2. TypeOK
  <2>1. \A b \in BOOLEAN : [Unallocated EXCEPT !.runnable = b] \in BmkThread
    BY TimeAssumption DEF Unallocated, BmkThread, SavedIp
  <2>2. bt \in [Thread -> BmkThread]
    BY <2>1 DEF Init
  <2> QED
    BY <1>1, <2>2, ThreadAssumption, TimeAssumption DEF Init, TypeOK
<1>3. bt[init_thread].runnable /\ bt[init_thread].wakeup_time = -1
  BY ThreadAssumption DEF Init, Unallocated
<1> QED
  BY <1>1, <1>2, <1>3
  DEF Init, Safety, ListsIntact, StackNotFreed, ContextSaved, RunnableDisarmed

(* Type correctness: whatever the threads do, the scheduler's variables    *)
(* stay within their types, the clock and the timeouts included.           *)
THEOREM TypeCorrect == Spec => []TypeOK
<1>1. Init => TypeOK /\ Safety
  BY InitSafe
<1>2. TypeOK /\ Safety /\ [Next]_vars => (TypeOK /\ Safety)'
  BY TypeStep, SafetyStep DEF Safety
<1> QED
  BY <1>1, <1>2, PTL DEF Spec

(* The safety invariants of bmk_sched() and its callers, for any number of *)
(* threads: lists intact, no execution on a freed stack, a saved context   *)
(* for every thread off the CPU, no armed timeout on a runnable thread.    *)
THEOREM SchedSafe == Spec => []Safety
<1>1. Init => TypeOK /\ Safety
  BY InitSafe
<1>2. TypeOK /\ Safety /\ [Next]_vars => (TypeOK /\ Safety)'
  BY TypeStep, SafetyStep DEF Safety
<1> QED
  BY <1>1, <1>2, PTL DEF Spec

(* No thread is twice on the run queue or both schedulable and a zombie.   *)
COROLLARY ListsStayIntact == Spec => []ListsIntact
BY SchedSafe, PTL DEF Safety

(* bmk_sched() and the threads never execute on a freed stack.             *)
COROLLARY StacksOutliveUse == Spec => []StackNotFreed
BY SchedSafe, PTL DEF Safety

(* bmk_sched() only switches to threads that have a context to resume.     *)
COROLLARY ContextsSaved == Spec => []ContextSaved
BY SchedSafe, PTL DEF Safety

(* A runnable thread has no timeout left that could wake it once more.     *)
COROLLARY TimeoutsDisarmed == Spec => []RunnableDisarmed
BY SchedSafe, PTL DEF Safety

-----------------------------------------------------------------------------
(* What wait(), wakeup_one() and the scheduler do to the wait queues of    *)
(* rumpfiber.c, whatever is built on them: every step of a rumpuser call   *)
(* keeps WaitersLive.  The proofs about mutexes, condition variables and   *)
(* reader/writer locks rest on these lemmas.                               *)

QueueType ==
  /\ waiters \in [WaitHead -> Seq(Thread)]
  /\ onlist \in [Thread -> BOOLEAN]

(* What holds between any two steps of any rumpuser calls.                 *)
QueueInv == TypeOK /\ Safety /\ QueueType /\ WaitersLive

(* The frames of all threads but the running one stay as they are.         *)
OthersKeepFrame ==
  \A t \in Thread \ {current_thread} : frame'[t] = frame[t]

-----------------------------------------------------------------------------

LEMMA AliveThreads ==
  ASSUME TypeOK
  PROVE  Alive \subseteq Thread
BY Elements, ElementIn DEF TypeOK, Alive, Range

(* The thread that makes a call is live and runnable.                      *)
LEMMA CallerLive ==
  ASSUME TypeOK, Safety, cpu = "thread"
  PROVE  current_thread \in Alive /\ bt[current_thread].runnable
BY DEF Safety, StackNotFreed, RunnableDisarmed

LEMMA GotoEffect ==
  ASSUME NEW F, frame \in [Thread -> F], NEW t \in Thread, NEW f \in F,
         frame' = [frame EXCEPT ![t] = f]
  PROVE  /\ frame' \in [Thread -> F] /\ frame'[t] = f
         /\ \A u \in Thread \ {t} : frame'[u] = frame[u]
OBVIOUS

(* A step that leaves the queues alone, and in which no thread that waits  *)
(* appears, vanishes or is blocked.                                        *)
LEMMA QuietStep ==
  ASSUME QueueType, WaitersLive, UNCHANGED wqvars,
         \A t \in Alive' : \A h \in WaitHead :
           WaitsOn(t, h)' => t \in Alive /\ WaitsOn(t, h),
         \A t \in Alive : \A h \in WaitHead :
           WaitsOn(t, h) => /\ t \in Alive' /\ WaitsOn(t, h)'
                            /\ bt[t].runnable => bt'[t].runnable
  PROVE  QueueType' /\ WaitersLive'
<1>1. waiters' = waiters /\ onlist' = onlist
  BY DEF wqvars
<1>2. ASSUME NEW h \in WaitHead
      PROVE  /\ IsInjective(waiters'[h])
             /\ Range(waiters'[h]) = {t \in Alive' : WaitsOn(t, h)' /\ onlist'[t]}
             /\ \A t \in Alive' : WaitsOn(t, h)' /\ ~ onlist'[t] => bt'[t].runnable
  <2>1. /\ IsInjective(waiters[h])
        /\ Range(waiters[h]) = {t \in Alive : WaitsOn(t, h) /\ onlist[t]}
        /\ \A t \in Alive : WaitsOn(t, h) /\ ~ onlist[t] => bt[t].runnable
    BY DEF WaitersLive
  <2>2. \A t : t \in Alive' /\ WaitsOn(t, h)' <=> t \in Alive /\ WaitsOn(t, h)
    OBVIOUS
  <2> QED
    BY <1>1, <2>1, <2>2
<1> QED
  BY <1>1, <1>2 DEF WaitersLive, QueueType

(* wait(), up to its call of bmk_sched().                                  *)
LEMMA WaitStep ==
  ASSUME QueueInv, NEW h \in WaitHead, NEW nsec \in Durations, wait(h, nsec),
         OthersKeepFrame,
         \A k \in WaitHead : ~ WaitsOn(current_thread, k),
         \A k \in WaitHead : WaitsOn(current_thread, k)' <=> k = h
  PROVE  /\ QueueType' /\ WaitersLive'
         /\ Wait(nsec)
         /\ \A k \in WaitHead \ {h} : waiters'[k] = waiters[k]
<1> DEFINE me == current_thread
<1>0. TypeOK /\ Safety /\ QueueType /\ WaitersLive /\ me \in Thread
  BY DEF QueueInv, TypeOK
<1>1. /\ Wait(nsec)
      /\ waiters' = [waiters EXCEPT ![h] = Append(waiters[h], me)]
      /\ onlist' = [onlist EXCEPT ![me] = TRUE]
  BY DEF wait, wait_block
<1>2. /\ Alive' = Alive /\ current_thread' = me /\ me \in Alive
      /\ \A u \in Thread \ {me} : bt'[u] = bt[u]
  BY <1>0, <1>1, BlockEffect, CallerLive
<1>3. Alive \subseteq Thread
  BY <1>0, AliveThreads
<1>4. /\ \A k \in WaitHead \ {h} : waiters'[k] = waiters[k]
      /\ waiters'[h] = Append(waiters[h], me) /\ waiters[h] \in Seq(Thread)
      /\ onlist' \in [Thread -> BOOLEAN] /\ onlist'[me]
      /\ \A u \in Thread \ {me} : onlist'[u] = onlist[u]
  BY <1>0, <1>1 DEF QueueType
<1>5. me \notin Range(waiters[h])
  BY <1>0 DEF WaitersLive
<1>6. /\ waiters'[h] \in Seq(Thread) /\ IsInjective(waiters'[h])
      /\ Range(waiters'[h]) = Range(waiters[h]) \cup {me}
  BY <1>0, <1>4, <1>5, AppendSet DEF WaitersLive
<1>7. QueueType'
  BY <1>0, <1>1, <1>4, <1>6 DEF QueueType
<1> HIDE DEF me
<1>8. ASSUME NEW k \in WaitHead
      PROVE  /\ IsInjective(waiters'[k])
             /\ Range(waiters'[k]) = {t \in Alive' : WaitsOn(t, k)' /\ onlist'[t]}
             /\ \A t \in Alive' : WaitsOn(t, k)' /\ ~ onlist'[t] => bt'[t].runnable
  <2>1. /\ IsInjective(waiters[k])
        /\ Range(waiters[k]) = {t \in Alive : WaitsOn(t, k) /\ onlist[t]}
        /\ \A t \in Alive : WaitsOn(t, k) /\ ~ onlist[t] => bt[t].runnable
    BY <1>0 DEF WaitersLive
  <2>2. /\ \A t \in Thread \ {me} : WaitsOn(t, k)' <=> WaitsOn(t, k)
        /\ ~ WaitsOn(me, k) /\ (WaitsOn(me, k)' <=> k = h)
    BY DEF WaitsOn, OthersKeepFrame, me
  <2>3. CASE k = h
    <3>1. Range(waiters'[k]) = Range(waiters[k]) \cup {me}
      BY <1>6, <2>3
    <3>2. \A t : t \in Range(waiters'[k]) <=> t \in Alive' /\ WaitsOn(t, k)' /\ onlist'[t]
      BY <1>2, <1>3, <1>4, <2>1, <2>2, <2>3, <3>1
    <3>3. \A t \in Alive' : WaitsOn(t, k)' /\ ~ onlist'[t] => bt'[t].runnable
      BY <1>2, <1>3, <1>4, <2>1, <2>2, <2>3
    <3> QED
      BY <1>6, <2>3, <3>2, <3>3
  <2>4. CASE k # h
    BY <1>2, <1>3, <1>4, <2>1, <2>2, <2>4
  <2> QED
    BY <2>3, <2>4
<1> QED
  BY <1>1, <1>4, <1>7, <1>8 DEF WaitersLive

(* The rest of wait(): the thread is off the queue, woken or timed out.    *)
LEMMA ReturnStep ==
  ASSUME QueueInv, NEW h \in WaitHead, cpu = "thread", wait_return(h),
         UNCHANGED vars, OthersKeepFrame,
         \A k \in WaitHead : WaitsOn(current_thread, k) <=> k = h,
         \A k \in WaitHead : ~ WaitsOn(current_thread, k)'
  PROVE  /\ QueueType' /\ WaitersLive'
         /\ \A k \in WaitHead \ {h} : waiters'[k] = waiters[k]
<1> DEFINE me == current_thread
<1>0. TypeOK /\ Safety /\ QueueType /\ WaitersLive /\ me \in Thread
  BY DEF QueueInv, TypeOK
<1>2. Alive' = Alive /\ current_thread' = me /\ bt' = bt /\ Alive \subseteq Thread
  BY <1>0, AliveThreads DEF vars, Alive
<1>3. waiters[h] \in Seq(Thread) /\ IsInjective(waiters[h])
  BY <1>0 DEF QueueType, WaitersLive
<1>4. /\ \A k \in WaitHead \ {h} : waiters'[k] = waiters[k]
      /\ waiters'[h] \in Seq(Thread) /\ IsInjective(waiters'[h])
      /\ Range(waiters'[h]) = Range(waiters[h]) \ {me}
      /\ onlist' = onlist
      /\ QueueType'
  <2>1. CASE onlist[me]
    <3>1. PICK i \in DOMAIN waiters[h] :
               /\ waiters[h][i] = me
               /\ waiters' = [waiters EXCEPT ![h] = RemoveAt(waiters[h], i)]
      BY <2>1 DEF wait_return
    <3>2. /\ RemoveAt(waiters[h], i) \in Seq(Thread)
          /\ IsInjective(RemoveAt(waiters[h], i))
          /\ Range(RemoveAt(waiters[h], i)) = Range(waiters[h]) \ {me}
      BY <1>3, <3>1, RemoveAtSet
    <3> QED
      BY <1>0, <2>1, <3>1, <3>2 DEF wait_return, QueueType
  <2>2. CASE ~ onlist[me]
    <3>1. me \notin Range(waiters[h])
      BY <1>0, <2>2 DEF WaitersLive
    <3> QED
      BY <1>0, <1>3, <2>2, <3>1 DEF wait_return, wqvars, QueueType
  <2> QED
    BY <2>1, <2>2
<1> HIDE DEF me
<1>8. ASSUME NEW k \in WaitHead
      PROVE  /\ IsInjective(waiters'[k])
             /\ Range(waiters'[k]) = {t \in Alive' : WaitsOn(t, k)' /\ onlist'[t]}
             /\ \A t \in Alive' : WaitsOn(t, k)' /\ ~ onlist'[t] => bt'[t].runnable
  <2>1. /\ IsInjective(waiters[k])
        /\ Range(waiters[k]) = {t \in Alive : WaitsOn(t, k) /\ onlist[t]}
        /\ \A t \in Alive : WaitsOn(t, k) /\ ~ onlist[t] => bt[t].runnable
    BY <1>0 DEF WaitersLive
  <2>2. /\ \A t \in Thread \ {me} : WaitsOn(t, k)' <=> WaitsOn(t, k)
        /\ ~ WaitsOn(me, k)' /\ (WaitsOn(me, k) <=> k = h)
    BY DEF WaitsOn, OthersKeepFrame, me
  <2>3. CASE k = h
    BY <1>2, <1>4, <2>1, <2>2, <2>3
  <2>4. CASE k # h
    BY <1>2, <1>4, <2>1, <2>2, <2>4
  <2> QED
    BY <2>3, <2>4
<1> QED
  BY <1>4, <1>8 DEF WaitersLive

(* wakeup_one(), and a running thread that is not in wait() before or      *)
(* after it.                                                               *)
LEMMA WakeupStep ==
  ASSUME QueueInv, NEW h \in WaitHead, wakeup_one(h), OthersKeepFrame,
         \A k \in WaitHead : ~ WaitsOn(current_thread, k),
         \A k \in WaitHead : ~ WaitsOn(current_thread, k)'
  PROVE  /\ QueueType' /\ WaitersLive'
         /\ [Next]_vars
         /\ Alive' = Alive /\ UNCHANGED <<current_thread, cpu, now>>
         /\ \A t \in Alive : bt[t].runnable => bt'[t].runnable
         /\ \A k \in WaitHead \ {h} : waiters'[k] = waiters[k]
         /\ waiters[h] = <<>> => waiters'[h] = <<>>
         /\ waiters[h] # <<>> =>
              \E t \in Alive : WaitsOn(t, h) /\ bt'[t].runnable
<1> DEFINE me == current_thread
           who == Head(waiters[h])
<1>0. TypeOK /\ Safety /\ QueueType /\ WaitersLive /\ me \in Thread
  BY DEF QueueInv, TypeOK
<1>1. Alive \subseteq Thread
  BY <1>0, AliveThreads
<1>2. \A t \in Thread : \A k \in WaitHead : WaitsOn(t, k)' <=> WaitsOn(t, k)
  <2>1. current_thread' = current_thread
    BY DEF wakeup_one, wakeup_who, Wake, vars
  <2> QED
    BY <2>1 DEF OthersKeepFrame, WaitsOn
<1>3. CASE waiters[h] = <<>>
  <2>1. UNCHANGED vars /\ UNCHANGED wqvars /\ Alive' = Alive /\ bt' = bt
    BY <1>3 DEF wakeup_one, vars, Alive
  <2>2. QueueType' /\ WaitersLive'
    BY <1>0, <1>1, <1>2, <2>1, QuietStep
  <2> QED
    BY <1>3, <2>1, <2>2 DEF vars, wqvars
<1>4. CASE waiters[h] # <<>>
  <2>1. /\ waiters[h] \in Seq(Thread) /\ IsInjective(waiters[h])
        /\ Range(waiters[h]) = {t \in Alive : WaitsOn(t, h) /\ onlist[t]}
    BY <1>0 DEF QueueType, WaitersLive
  <2>2. /\ who \in Range(waiters[h]) /\ Tail(waiters[h]) \in Seq(Thread)
        /\ IsInjective(Tail(waiters[h]))
        /\ Range(Tail(waiters[h])) = Range(waiters[h]) \ {who}
    BY <1>4, <2>1, TailSet
  <2>3. who \in Alive /\ who \in Thread /\ WaitsOn(who, h) /\ onlist[who]
    BY <1>1, <2>1, <2>2
  <2>4. /\ waiters' = [waiters EXCEPT ![h] = Tail(waiters[h])]
        /\ onlist' = [onlist EXCEPT ![who] = FALSE]
        /\ Wake(who)
    BY <1>4 DEF wakeup_one, wakeup_who
  <2>5. /\ \A k \in WaitHead \ {h} : waiters'[k] = waiters[k]
        /\ waiters'[h] = Tail(waiters[h])
        /\ ~ onlist'[who] /\ \A u \in Thread \ {who} : onlist'[u] = onlist[u]
        /\ QueueType'
    BY <1>0, <2>2, <2>3, <2>4 DEF QueueType
  <2>6. /\ Alive' = Alive /\ UNCHANGED <<current_thread, cpu>>
        /\ bt'[who].runnable
        /\ \A u \in Thread \ {who} : bt'[u] = bt[u]
    BY <1>0, <2>3, <2>4, WakeEffect
  <2>7. [Next]_vars /\ UNCHANGED now
    BY <2>3, <2>4 DEF Next, Wake
  <2> HIDE DEF who
  <2>8. ASSUME NEW k \in WaitHead
        PROVE  /\ IsInjective(waiters'[k])
               /\ Range(waiters'[k]) = {t \in Alive' : WaitsOn(t, k)' /\ onlist'[t]}
               /\ \A t \in Alive' : WaitsOn(t, k)' /\ ~ onlist'[t] => bt'[t].runnable
    <3>1. /\ IsInjective(waiters[k])
          /\ Range(waiters[k]) = {t \in Alive : WaitsOn(t, k) /\ onlist[t]}
          /\ \A t \in Alive : WaitsOn(t, k) /\ ~ onlist[t] => bt[t].runnable
      BY <1>0 DEF WaitersLive
    <3>2. CASE k = h
      BY <1>1, <1>2, <2>2, <2>3, <2>5, <2>6, <3>1, <3>2
    <3>3. CASE k # h
      <4>1. ~ WaitsOn(who, k)
        BY <2>3, <3>3 DEF WaitsOn
      <4> QED
        BY <1>1, <1>2, <2>3, <2>5, <2>6, <3>1, <3>3, <4>1
    <3> QED
      BY <3>2, <3>3
  <2> QED
    BY <1>1, <1>4, <2>3, <2>5, <2>6, <2>7, <2>8 DEF WaitersLive
<1> QED
  BY <1>3, <1>4

(* The scheduler, hlt, the clock and interrupts block nobody, and leave    *)
(* the CPU to a thread that runs.                                          *)
LEMMA SchedulerKeeps ==
  ASSUME TypeOK, Safety,
         bmk_sched \/ nanohlt_return \/ Tick \/ \E t \in Thread : Wake(t)
  PROVE  /\ [Next]_vars /\ Alive' = Alive
         /\ \A t \in Alive : bt[t].runnable => bt'[t].runnable
         /\ cpu = "thread" => cpu' = cpu /\ current_thread' = current_thread
<1>1. [Next]_vars
  BY DEF Next
<1>2. CASE bmk_sched \/ nanohlt_return
  <2>1. cpu # "thread" /\ Alive' = Alive
    BY <1>2, RunEffect
    DEF bmk_sched, bmk_sched_run, bmk_sched_idle, nanohlt_return, Alive, Safety
  <2> QED
    BY <1>1, <2>1, OnlyByItself
<1>3. CASE Tick
  BY <1>1, <1>3 DEF Tick, Alive
<1>4. ASSUME NEW t \in Thread, Wake(t)
      PROVE  /\ Alive' = Alive /\ \A u \in Alive : bt[u].runnable => bt'[u].runnable
             /\ cpu' = cpu /\ current_thread' = current_thread
  BY <1>4, WakeEffect, AliveThreads
<1> QED
  BY <1>1, <1>2, <1>3, <1>4
=============================================================================
