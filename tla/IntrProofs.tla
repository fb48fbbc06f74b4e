----------------------------- MODULE IntrProofs -----------------------------
(***************************************************************************)
(* Proofs about what decides when a thread runs, for any set of lines, of  *)
(* threads and of handlers that sleep.  The scheduler is round robin.      *)
(* isr() and the interrupt stubs implement the scheduler, and no interrupt *)
(* is lost, left unacknowledged or delivered into a handler.               *)
(***************************************************************************)
EXTENDS Intr, SchedRR, SchedProofs

-----------------------------------------------------------------------------
(* bmk_sched() is round robin: whoever gets the CPU goes to the tail of    *)
(* the list, so it is behind all that wait, and the scan finds the first   *)
(* one that can run.                                                       *)

(* The inductive invariant: the threads that overtook t are behind t, and  *)
(* an address that is on no list has been overtaken by nobody.             *)
RRInv ==
  /\ overtakers \in [Thread -> SUBSET Thread]
  /\ OvertakersBehind
  /\ \A t \in Thread \ Alive : overtakers[t] = {}

AllInv == TypeOK /\ Safety /\ RRInv

(* Elements keep their order when one is taken out: the positions they     *)
(* come from are in the same order.                                        *)
LEMMA RemoveAtOrder ==
  ASSUME NEW S, NEW s \in Seq(S), NEW i \in DOMAIN s,
         NEW a \in DOMAIN RemoveAt(s, i), NEW b \in DOMAIN RemoveAt(s, i)
  PROVE  \E k, m \in DOMAIN s : /\ RemoveAt(s, i)[a] = s[k] /\ k # i
                                /\ RemoveAt(s, i)[b] = s[m] /\ m # i
                                /\ k < m => a < b
<1> DEFINE at(k) == IF k < i THEN k ELSE k + 1
           r == RemoveAt(s, i)
<1>1. /\ r \in Seq(S) /\ Len(r) = Len(s) - 1
      /\ \A k \in 1..(Len(s) - 1) : r[k] = IF k < i THEN s[k] ELSE s[k + 1]
  BY RemoveAtElements
<1>2. Len(s) \in Nat /\ DOMAIN s = 1..Len(s) /\ DOMAIN r = 1..(Len(s) - 1)
  BY <1>1, Elements
<1>3. /\ at(a) \in DOMAIN s /\ at(a) # i
      /\ at(b) \in DOMAIN s /\ at(b) # i
      /\ at(a) < at(b) => a < b
  BY <1>2
<1>4. r[a] = s[at(a)] /\ r[b] = s[at(b)]
  BY <1>1, <1>2
<1> QED
  BY <1>3, <1>4

(* The threads that have overtaken t after a step.                         *)
LEMMA OvertakersOf ==
  ASSUME RRInv, RRNext, NEW t \in Thread
  PROVE  /\ t \in Waiting' => overtakers'[t] = (overtakers[t] \cup Dispatched) \ Created
         /\ t \notin Waiting' => overtakers'[t] = {}
BY DEF RRNext

(* A step in which nobody gets the CPU and the list stays as it is.        *)
LEMMA SameList ==
  ASSUME TypeOK, RRInv, RRNext, threads' = threads, Dispatched = {}
  PROVE  OvertakersBehind'
<1> SUFFICES ASSUME NEW i \in DOMAIN threads, NEW j \in DOMAIN threads,
                    threads[j] \in overtakers'[threads[i]]
             PROVE  i < j
  BY DEF OvertakersBehind
<1>1. threads[i] \in Thread
  BY Elements, ElementIn DEF TypeOK
<1>2. threads[j] \in overtakers[threads[i]]
  BY <1>1, OvertakersOf
<1> QED
  BY <1>2 DEF RRInv, OvertakersBehind

(* A new thread is at the head and has been overtaken by nobody.           *)
LEMMA CreateBehind ==
  ASSUME TypeOK, Safety, RRInv, RRNext, NEW t \in Thread, bmk_sched_create(t)
  PROVE  OvertakersBehind'
<1>1. /\ t \notin Alive /\ threads' = <<t>> \o threads
      /\ Dispatched = {}
  BY DEF bmk_sched_create, Dispatched
<1>2. threads \in Seq(Thread) /\ IsInjective(threads) /\ t \notin Range(threads)
  BY <1>1 DEF TypeOK, Safety, ListsIntact, Alive
<1>3. /\ threads' \in Seq(Thread) /\ Len(threads') = Len(threads) + 1
      /\ threads'[1] = t
      /\ \A k \in 1..Len(threads) : threads'[k + 1] = threads[k]
      /\ Range(threads') = Alive \cup {t}
  BY <1>1, <1>2, ConsSet DEF Alive
<1>4. t \in Created /\ overtakers'[t] = {}
  BY <1>1, <1>3, OvertakersOf DEF Created, Alive, RRInv
<1>5. /\ Len(threads) \in Nat /\ DOMAIN threads = 1..Len(threads)
      /\ DOMAIN threads' = 1..(Len(threads) + 1)
  BY <1>2, <1>3, Elements
<1> SUFFICES ASSUME NEW i \in DOMAIN threads', NEW j \in DOMAIN threads',
                    threads'[j] \in overtakers'[threads'[i]]
             PROVE  i < j
  BY DEF OvertakersBehind
<1>6. threads'[i] \in Thread
  BY <1>3, Elements, ElementIn
<1>7. threads'[j] \in overtakers[threads'[i]] /\ threads'[j] \notin Created
  BY <1>1, <1>6, OvertakersOf
<1>8. i # 1 /\ j # 1
  BY <1>3, <1>4, <1>7
<1>9. /\ i - 1 \in DOMAIN threads /\ j - 1 \in DOMAIN threads
      /\ threads'[i] = threads[i - 1] /\ threads'[j] = threads[j - 1]
  BY <1>3, <1>5, <1>8
<1>10. i - 1 < j - 1
  BY <1>7, <1>9 DEF RRInv, OvertakersBehind
<1> QED
  BY <1>5, <1>10

(* The thread that exits leaves the others in their order.                 *)
LEMMA ExitBehind ==
  ASSUME TypeOK, Safety, RRInv, RRNext, bmk_sched_exit
  PROVE  OvertakersBehind'
<1>1. PICK x \in DOMAIN threads : threads' = RemoveAt(threads, x)
  BY DEF bmk_sched_exit, unlink_current
<1>2. threads \in Seq(Thread) /\ Dispatched = {}
  BY DEF TypeOK, bmk_sched_exit, Dispatched
<1> SUFFICES ASSUME NEW i \in DOMAIN threads', NEW j \in DOMAIN threads',
                    threads'[j] \in overtakers'[threads'[i]]
             PROVE  i < j
  BY DEF OvertakersBehind
<1>3. PICK k \in DOMAIN threads, m \in DOMAIN threads :
        /\ threads'[i] = threads[k] /\ threads'[j] = threads[m]
        /\ k < m => i < j
  BY <1>1, <1>2, RemoveAtOrder
<1>4. threads[k] \in Thread
  BY <1>2, Elements, ElementIn
<1>5. threads[m] \in overtakers[threads[k]]
  BY <1>2, <1>3, <1>4, OvertakersOf
<1> QED
  BY <1>3, <1>5 DEF RRInv, OvertakersBehind

(* The thread that gets the CPU goes behind all others.                    *)
LEMMA RunBehind ==
  ASSUME TypeOK, Safety, RRInv, RRNext, NEW x \in DOMAIN threads, bmk_sched_run(x)
  PROVE  OvertakersBehind'
<1> DEFINE rest == RemoveAt(threads, x)
<1>1. /\ threads' = Append(rest, threads[x]) /\ Dispatched = {threads[x]}
      /\ cpu' = "thread" /\ current_thread' = threads[x]
  BY DEF bmk_sched_run, Requeued, Dispatched
<1>2. threads \in Seq(Thread) /\ IsInjective(threads)
  BY DEF TypeOK, Safety, ListsIntact
<1>3. threads[x] \in Thread /\ Len(threads) \in Nat
  BY <1>2, Elements, ElementIn
<1>4. rest \in Seq(Thread) /\ Len(rest) = Len(threads) - 1
  BY <1>2, RemoveAtElements
<1>5. /\ Len(rest) \in Nat /\ DOMAIN rest = 1..Len(rest)
      /\ DOMAIN threads' = 1..(Len(rest) + 1)
      /\ \A k \in 1..Len(rest) : threads'[k] = rest[k]
      /\ threads'[Len(rest) + 1] = threads[x]
  <2> HIDE DEF rest
  <2> QED BY <1>1, <1>3, <1>4, AppendElements, Elements
<1>6. overtakers'[threads[x]] = {}
  BY <1>1, <1>3, OvertakersOf DEF Waiting
<1> HIDE DEF rest
<1> SUFFICES ASSUME NEW i \in DOMAIN threads', NEW j \in DOMAIN threads',
                    threads'[j] \in overtakers'[threads'[i]]
             PROVE  i < j
  BY DEF OvertakersBehind
<1>7. i # Len(rest) + 1
  BY <1>5, <1>6
<1>8. CASE j = Len(rest) + 1
  BY <1>5, <1>7, <1>8
<1>9. CASE j # Len(rest) + 1
  <2>1. /\ i \in DOMAIN rest /\ j \in DOMAIN rest
        /\ threads'[i] = rest[i] /\ threads'[j] = rest[j]
    BY <1>5, <1>7, <1>9
  <2>2. PICK k \in DOMAIN threads, m \in DOMAIN threads :
          /\ rest[i] = threads[k] /\ rest[j] = threads[m] /\ m # x
          /\ k < m => i < j
    BY <1>2, <2>1, RemoveAtOrder DEF rest
  <2>3. threads[k] \in Thread
    BY <1>2, Elements, ElementIn
  <2>4. threads[m] # threads[x]
    BY <1>2, <2>2 DEF IsInjective
  <2>5. threads[m] \in overtakers[threads[k]]
    BY <1>1, <2>1, <2>2, <2>3, <2>4, OvertakersOf
  <2> QED
    BY <2>2, <2>5 DEF RRInv, OvertakersBehind
<1> QED
  BY <1>8, <1>9

(* Every step keeps the order of those who wait and those who overtook.    *)
LEMMA RRStep == AllInv /\ [RRNext]_rrvars => RRInv'
<1> SUFFICES ASSUME TypeOK, Safety, RRInv, [RRNext]_rrvars
             PROVE  RRInv'
  BY DEF AllInv
<1>1. CASE UNCHANGED rrvars
  BY <1>1 DEF rrvars, vars, RRInv, OvertakersBehind, Alive
<1>2. CASE RRNext
  <2>1. Next
    BY <1>2 DEF RRNext
  <2>2. OvertakersBehind'
    <3>1. ASSUME NEW t \in Thread, bmk_sched_create(t)
          PROVE  OvertakersBehind'
      BY <1>2, <3>1, CreateBehind
    <3>2. ASSUME NEW t \in Thread, Wake(t)
          PROVE  OvertakersBehind'
      BY <1>2, <3>2, SameList DEF Wake, Dispatched
    <3>3. ASSUME NEW nsec \in Durations, Wait(nsec) \/ bmk_sched_nanosleep(nsec)
          PROVE  OvertakersBehind'
      BY <1>2, <3>3, SameList DEF Wait, bmk_sched_nanosleep, Dispatched
    <3>4. CASE bmk_sched_exit
      BY <1>2, <3>4, ExitBehind
    <3>5. ASSUME NEW x \in DOMAIN threads, bmk_sched_run(x)
          PROVE  OvertakersBehind'
      BY <1>2, <3>5, RunBehind
    <3>6. CASE bmk_sched_idle \/ nanohlt_return \/ Tick
      BY <1>2, <3>6, SameList DEF bmk_sched_idle, nanohlt_return, Tick, Dispatched
    <3> QED
      BY <2>1, <3>1, <3>2, <3>3, <3>4, <3>5, <3>6 DEF Next, Yield, bmk_sched
  <2>3. (TypeOK /\ ListsIntact)'
    BY <2>1, TypeStep, SafetyStep DEF Safety
  <2>4. Dispatched \subseteq Thread
    BY <2>3 DEF Dispatched, TypeOK
  <2>5. overtakers' \in [Thread -> SUBSET Thread]
    BY <1>2, <2>4 DEF RRNext, RRInv
  <2>6. \A t \in Thread \ Alive' : overtakers'[t] = {}
    BY <1>2, OvertakersOf DEF Waiting
  <2> QED
    BY <2>2, <2>5, <2>6 DEF RRInv
<1> QED
  BY <1>1, <1>2

(* bmk_sched() "schedules according to Round Robin algorithm": while a     *)
(* thread waits for the CPU no other one gets it twice, with any number of *)
(* threads that block, time out, exit and are created meanwhile.           *)
THEOREM SchedulerIsRoundRobin == RRSpec => RoundRobin
<1>1. RRInit => AllInv
  <2> SUFFICES ASSUME RRInit
               PROVE  AllInv
    OBVIOUS
  <2>1. TypeOK /\ Safety
    BY InitSafe DEF RRInit
  <2>2. RRInv
    <3>1. overtakers = [t \in Thread |-> {}]
      BY DEF RRInit
    <3>2. \A i \in DOMAIN threads : threads[i] \in Thread
      BY <2>1, Elements, ElementIn DEF TypeOK
    <3> QED
      BY <3>1, <3>2 DEF RRInv, OvertakersBehind
  <2> QED
    BY <2>1, <2>2 DEF AllInv
<1>2. AllInv /\ [RRNext]_rrvars => AllInv'
  <2> SUFFICES ASSUME AllInv, [RRNext]_rrvars
               PROVE  AllInv'
    OBVIOUS
  <2>1. [Next]_vars
    BY DEF RRNext, rrvars
  <2>2. (TypeOK /\ Safety)'
    BY <2>1, TypeStep, SafetyStep DEF AllInv, Safety
  <2> QED
    BY <2>2, RRStep DEF AllInv
<1>3. AllInv /\ [RRNext]_rrvars => [NoSecondTurn]_rrvars
  <2> SUFFICES ASSUME AllInv, RRNext, NEW t \in Waiting, NEW d \in Dispatched,
                      d \in overtakers[t]
               PROVE  FALSE
    BY DEF NoSecondTurn
  <2>1. Next /\ cpu = "sched" /\ cpu' = "thread" /\ d = current_thread'
    BY DEF RRNext, Dispatched
  <2>2. PICK x \in DOMAIN threads : bmk_sched_run(x)
    BY <2>1 DEF Next, Yield, bmk_sched, bmk_sched_create, Wake, Wait,
                bmk_sched_nanosleep, bmk_sched_exit, bmk_sched_idle,
                nanohlt_return, Tick
  <2>3. d = threads[x] /\ FirstPickable(x)
    BY <2>1, <2>2 DEF bmk_sched_run
  <2>4. PICK k \in DOMAIN threads : t = threads[k] /\ Pickable(threads[k])
    BY DEF Waiting, Alive, Range
  <2>5. DOMAIN threads = 1..Len(threads) /\ Len(threads) \in Nat
    BY Elements DEF AllInv, TypeOK
  <2>6. ~ (k < x)
    BY <2>3, <2>4, <2>5 DEF FirstPickable
  <2>7. k < x
    BY <2>3, <2>4 DEF AllInv, RRInv, OvertakersBehind
  <2> QED
    BY <2>6, <2>7
<1> QED
  BY <1>1, <1>2, <1>3, PTL DEF RRSpec, RoundRobin

-----------------------------------------------------------------------------
(* Where isr_thread is decides whether interrupts are off, who has the CPU *)
(* and what is left of the lines it has taken over.                        *)
IsrControl ==
  /\ isrpc \in {"none", "top", "test", "taken", "idle", "deliver"}
  /\ spldepth = IF isrpc \in {"test", "taken", "idle"} THEN 1 ELSE 0
  /\ isrpc \in {"test", "taken", "idle"} => cpu = "thread" /\ current_thread = isr_thread
  /\ isrpc \notin {"taken", "deliver"} => isrcopy = {}
  /\ isrpc = "taken" => isrcopy = isr_todo /\ isr_todo # {}
  /\ isrpc # "none" => isr_thread \in Alive
  /\ isrpc = "none" => established = {} /\ masked = Irq /\ isr_todo = {}

(* A line is in service from its stub to the end of isr()'s round.         *)
ServiceBegun == inservice = {} => isr_todo = {} /\ isrpc # "deliver"

IntrInv ==
  /\ IsrControl
  /\ ServiceBegun
  /\ NoLostInterrupt
  /\ NeverWedged
  /\ HandlerUndisturbed

-----------------------------------------------------------------------------

(* Every step of the interrupt machinery is one of the scheduler or leaves *)
(* it alone: a stub wakes isr_thread, which blocks as wait() does.         *)
LEMMA IntrStepIsSchedStep ==
  ASSUME TypeOK, [IntrNext]_<<vars, ivars>>
  PROVE  [Next]_vars
<1> USE DEF Next
<1>1. CASE UNCHANGED <<vars, ivars>>
  BY <1>1
<1>2. CASE bmk_isr_init
  BY <1>2, IntrAssumption DEF bmk_isr_init
<1>3. ASSUME NEW irq \in Irq, bmk_isr_netinit(irq) \/ Raise(irq) \/ ih_fun(irq)
      PROVE  UNCHANGED vars
  BY <1>3 DEF bmk_isr_netinit, Raise, ih_fun
<1>4. ASSUME NEW irq \in Irq, Interrupt(irq)
      PROVE  Next
  BY <1>4, IntrAssumption DEF Interrupt, bmk_isr
<1>5. CASE isr_block
  <2>1. Wait(0)
    BY <1>5, TimeAssumption
    DEF isr_block, isr_sched, At, Wait, TypeOK
  <2>2. 0 \in Durations
    BY TimeAssumption DEF Durations
  <2> QED
    BY <2>1, <2>2 DEF Yield
<1>6. CASE isr_splhigh \/ isr_take \/ isr_reset \/ isr_none \/ isr_ack
  BY <1>6 DEF isr_splhigh, isr_take, isr_reset, isr_none, isr_ack
<1>7. ASSUME NEW nsec \in Durations, ih_sleep(nsec)
      PROVE  Next
  BY <1>7 DEF ih_sleep, Yield
<1>8. CASE OtherThreads
  BY <1>8 DEF OtherThreads
<1>9. CASE IntrSched \/ IntrHltReturn \/ IntrTick
  BY <1>9 DEF IntrSched, IntrHltReturn, IntrTick
<1> QED
  BY <1>1, <1>2, <1>3, <1>4, <1>5, <1>6, <1>7, <1>8, <1>9 DEF IntrNext, isr

(* The invariant is inductive.                                             *)
LEMMA IntrStep ==
  ASSUME TypeOK, Safety, IntrInv, [IntrNext]_<<vars, ivars>>
  PROVE  IntrInv'
<1> USE DEF IntrInv, IsrControl, ServiceBegun, NoLostInterrupt, NeverWedged,
            HandlerUndisturbed
<1>0. isr_thread \in Thread
  BY IntrAssumption
<1>1. CASE UNCHANGED <<vars, ivars>>
  BY <1>1 DEF vars, ivars, Alive
<1>2. CASE bmk_isr_init
  <2>1. Range(threads') = Range(threads) \cup {isr_thread}
    BY <1>0, <1>2, ConsSet
    DEF bmk_isr_init, bmk_sched_create, TypeOK, Safety, ListsIntact, Alive
  <2>2. bt'[isr_thread].runnable
    BY <1>0, <1>2 DEF bmk_isr_init, bmk_sched_create, TypeOK
  <2> QED
    BY <1>2, <2>1, <2>2 DEF bmk_isr_init, Alive
<1>3. ASSUME NEW irq \in Irq, bmk_isr_netinit(irq)
      PROVE  IntrInv'
  BY <1>3 DEF bmk_isr_netinit, Elsewhere, vars, Alive
<1>4. ASSUME NEW irq \in Irq, Raise(irq)
      PROVE  IntrInv'
  BY <1>4 DEF Raise, vars, Alive
<1>5. ASSUME NEW irq \in Irq, Interrupt(irq)
      PROVE  IntrInv'
  <2>1. bt'[isr_thread].runnable
    BY <1>0, <1>5, WakeFields DEF Interrupt, bmk_isr, Wake, TypeOK
  <2>2. UNCHANGED <<threads, cpu, current_thread>> /\ isr_thread \in Alive
    BY <1>5 DEF Interrupt, bmk_isr, Wake
  <2> QED
    BY <1>5, <2>1, <2>2 DEF Interrupt, bmk_isr, stub_noack, Alive
<1>6. ASSUME NEW irq \in Irq, ih_fun(irq)
      PROVE  IntrInv'
  <2>1. /\ UNCHANGED <<vars, isr_todo, isrpc, spldepth, established, masked, pending,
                       inservice>>
        /\ isrpc = "deliver"
        /\ isrcopy' = isrcopy \ {irq} /\ owed' = owed \ {irq}
    BY <1>6 DEF ih_fun, At
  <2>2. IsrControl' /\ ServiceBegun' /\ NeverWedged' /\ HandlerUndisturbed'
    BY <2>1 DEF vars, Alive
  <2>3. NoLostInterrupt'
    BY <2>1 DEF vars
  <2> QED
    BY <2>2, <2>3
<1>7. CASE isr_splhigh
  BY <1>7 DEF isr_splhigh, splhigh, At, vars, Alive
<1>8. CASE isr_take
  BY <1>8 DEF isr_take, At, vars, Alive
<1>9. CASE isr_none
  BY <1>9 DEF isr_none, At, vars, Alive
<1>10. CASE isr_block
  BY <1>10 DEF isr_block, isr_sched, spl0, At, Alive
<1>11. CASE isr_ack
  BY <1>11 DEF isr_ack, pic_ack, At, vars, Alive
<1>12. ASSUME NEW nsec \in Durations, ih_sleep(nsec)
       PROVE  IntrInv'
  BY <1>12 DEF ih_sleep, bmk_sched_nanosleep, At, ivars, Alive
<1>13. CASE OtherThreads
  <2>1. isr_thread \in Alive' /\ (bt[isr_thread].runnable => bt'[isr_thread].runnable)
    BY <1>13, IntrStepIsSchedStep, OnlyByItself DEF OtherThreads, Elsewhere
  <2> QED
    BY <1>13, <2>1 DEF OtherThreads, Elsewhere, ivars
<1>14. CASE IntrSched \/ IntrHltReturn \/ IntrTick
  <2>1. /\ UNCHANGED ivars
        /\ cpu = "thread" => UNCHANGED <<cpu, current_thread>>
    BY <1>14 DEF IntrSched, IntrHltReturn, IntrTick, bmk_sched, bmk_sched_run,
                 bmk_sched_idle, nanohlt_return, Tick
  <2>2. isr_thread \in Alive =>
          isr_thread \in Alive' /\ (bt[isr_thread].runnable => bt'[isr_thread].runnable)
    <3>1. CASE IntrTick
      BY <3>1 DEF IntrTick, Tick, Alive
    <3>2. CASE IntrSched \/ IntrHltReturn
      <4>1. cpu # "thread"
        BY <3>2 DEF IntrSched, IntrHltReturn, bmk_sched, bmk_sched_run,
                    bmk_sched_idle, nanohlt_return
      <4> QED
        BY <4>1, IntrStepIsSchedStep, OnlyByItself
    <3> QED
      BY <1>14, <3>1, <3>2
  <2> QED
    BY <2>1, <2>2 DEF ivars
<1>15. CASE isr_reset
  BY <1>15 DEF isr_reset, spl0, At, vars, Alive
<1> QED
  BY <1>1, <1>2, <1>3, <1>4, <1>5, <1>6, <1>7, <1>8, <1>9, <1>10, <1>11,
     <1>12, <1>13, <1>14, <1>15
  DEF IntrNext, isr

(* The three invariants hold together with those of the scheduler.         *)
LEMMA IntrInvariant == IntrSpec => [](TypeOK /\ Safety /\ IntrInv)
<1>1. IntrInit => TypeOK /\ Safety /\ IntrInv
  <2>1. IntrInit => IntrInv
    BY DEF IntrInit, Init, IntrInv, IsrControl, ServiceBegun, NoLostInterrupt,
           NeverWedged, HandlerUndisturbed
  <2> QED
    BY <2>1, InitSafe DEF IntrInit
<1>2. TypeOK /\ Safety /\ IntrInv /\ [IntrNext]_<<vars, ivars>>
        => (TypeOK /\ Safety /\ IntrInv)'
  BY IntrStepIsSchedStep, TypeStep, SafetyStep, IntrStep DEF Safety
<1> QED
  BY <1>1, <1>2, PTL DEF IntrSpec

(* The interrupt machinery implements the scheduler, so that all that is   *)
(* proved of the scheduler holds with interrupts.                          *)
THEOREM IntrImplementsSched == IntrSpec => Spec
<1>1. IntrInit => Init
  BY DEF IntrInit
<1>2. TypeOK /\ [IntrNext]_<<vars, ivars>> => [Next]_vars
  BY IntrStepIsSchedStep
<1> QED
  BY <1>1, <1>2, IntrInvariant, PTL DEF IntrSpec, Spec

(* splhigh() around the test of isr_todo loses no request and no wakeup.   *)
THEOREM InterruptsKept == IntrSpec => []NoLostInterrupt
BY IntrInvariant, PTL DEF IntrInv

(* Whatever is in service will be acknowledged by isr(), spl0() does not   *)
(* panic, and interrupts are off only while isr_thread runs.               *)
THEOREM InterruptsNeverWedge == IntrSpec => []NeverWedged
BY IntrInvariant, PTL DEF IntrInv

(* The late acknowledgement keeps the stubs out of isr()'s handlers.       *)
THEOREM HandlersUndisturbed == IntrSpec => []HandlerUndisturbed
BY IntrInvariant, PTL DEF IntrInv
=============================================================================
