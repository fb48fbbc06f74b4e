---------------------------- MODULE FiberProofs ----------------------------
(***************************************************************************)
(* Proofs about mutexes and condition variables, for any number of threads,*)
(* mutexes and condition variables: no wakeup is lost, waiters are counted,*)
(* the virtual CPU is released by whoever blocks, and, as long as the      *)
(* mutexes used with condition variables are spin mutexes, nothing panics. *)
(***************************************************************************)
EXTENDS FiberSteps

-----------------------------------------------------------------------------
(* The steps that wake.                                                    *)

(* Leaving a mutex: who waits for it is woken and will try.                *)
LEMMA ReleaseStep ==
  ASSUME TypeOK, Safety, FiberInv, NEW m \in Mutex, cpu = "thread",
         m \in Held(current_thread), mutex_exit(m), OthersKeepFrame,
         frame' \in [Thread -> Frame],
         frame[current_thread][1] = "run",
         frame'[current_thread][1] \in {"run", "cv_exit"}
  PROVE  /\ [Next]_vars
         /\ Alive' = Alive /\ UNCHANGED <<current_thread, cpu>>
         /\ QueueType' /\ WaitersLive' /\ OwnersLive' /\ HandedOver'
         /\ mtx' \in [Mutex -> [v : Nat, o : Thread \cup {None}]]
         /\ mtx'[m].v = mtx[m].v - 1
         /\ mtx'[m].v > 0 => mtx'[m].o = current_thread
         /\ \A k \in Mutex \ {m} : mtx'[k] = mtx[k]
<1> DEFINE me == current_thread
<1>1. /\ me \in Thread /\ me \in Alive /\ Alive \subseteq Thread
      /\ mtx[m].v \in Nat \ {0} /\ mtx[m].o = me /\ m \in WaitHead
      /\ mtx \in [Mutex -> [v : Nat, o : Thread \cup {None}]]
  BY CallerLive, AliveThreads, FiberAssumption
  DEF TypeOK, Held, FiberInv, FiberType
<1> USE <1>1
<1>2. /\ \A k : ~ WaitsOn(me, k) /\ ~ Tries(me, k)
      /\ \A t \in Thread \ {me} : \A k : Tries(t, k)' <=> Tries(t, k)
  BY DEF WaitsOn, Tries, OthersKeepFrame
<1> USE <1>2
<1>3. CASE mtx[m].v = 1
  <2>1. /\ mtx' = [mtx EXCEPT ![m] = [v |-> 0, o |-> None]]
        /\ wakeup_one(m)
    BY <1>3 DEF mutex_exit
  <2>2. current_thread' = me
    BY <2>1 DEF wakeup_one, wakeup_who, Wake, vars
  <2>3. \A k \in WaitHead : ~ WaitsOn(current_thread, k)'
    BY <2>2 DEF WaitsOn
  <2>4. QueueInv
    BY DEF QueueInv, FiberInv, FiberType
  <2>5. /\ QueueType' /\ WaitersLive' /\ [Next]_vars
        /\ Alive' = Alive /\ UNCHANGED <<current_thread, cpu>>
        /\ \A t \in Alive : bt[t].runnable => bt'[t].runnable
        /\ \A k \in WaitHead \ {m} : waiters'[k] = waiters[k]
        /\ waiters[m] = <<>> => waiters'[m] = <<>>
        /\ waiters[m] # <<>> =>
             \E t \in Alive : WaitsOn(t, m) /\ bt'[t].runnable
    BY <2>1, <2>3, <2>4, WakeupStep
  <2> USE <2>5
  <2>6. /\ mtx' \in [Mutex -> [v : Nat, o : Thread \cup {None}]]
        /\ mtx'[m].v = 0 /\ mtx'[m].o = None
        /\ \A k \in Mutex \ {m} : mtx'[k] = mtx[k]
    BY <2>1
  <2> USE <2>6
  <2>7. frame'[me][1] \notin {"enter", "enter_wait"}
    OBVIOUS
  <2>8. OwnersLive'
    <3>1. ASSUME NEW k \in Mutex \ {m}
          PROVE  /\ mtx'[k].v = 0 <=> mtx'[k].o = None
                 /\ mtx'[k].o # None => mtx'[k].o \in Alive' /\ ~ Tries(mtx[k].o, k)'
      <4>1. /\ mtx[k].v = 0 <=> mtx[k].o = None
            /\ mtx[k].o # None => mtx[k].o \in Alive /\ ~ Tries(mtx[k].o, k)
            /\ mtx'[k] = mtx[k]
        BY DEF FiberInv, OwnersLive
      <4>2. CASE mtx[k].o = me
        BY <2>7, <4>1, <4>2 DEF Tries
      <4>3. CASE mtx[k].o # me
        BY <4>1, <4>3
      <4> QED
        BY <4>2, <4>3
    <3> QED
      BY <3>1 DEF OwnersLive
  <2>9. ASSUME NEW k \in Mutex, mtx'[k].v = 0, waiters'[k] # <<>>
        PROVE  \E t \in Alive' : bt'[t].runnable /\ Tries(t, k)'
    <3>1. CASE k = m
      <4>1. PICK t \in Alive : WaitsOn(t, m) /\ bt'[t].runnable
        BY <2>9, <3>1
      <4>2. Tries(t, m) /\ t # me
        BY <4>1, EnterFrame DEF WaitsOn, Tries, FiberInv, FiberType
      <4> QED
        BY <3>1, <4>1, <4>2
    <3>2. CASE k # m
      <4>1. mtx[k].v = 0 /\ waiters[k] # <<>>
        BY <2>9, <3>2, FiberAssumption
      <4>2. PICK t \in Alive : bt[t].runnable /\ Tries(t, k)
        BY <4>1 DEF FiberInv, HandedOver
      <4> QED
        BY <4>2
    <3> QED
      BY <3>1, <3>2
  <2> QED
    BY <1>3, <2>8, <2>9 DEF HandedOver
<1>4. CASE mtx[m].v # 1
  <2>a. mtx[m] \in [v : Nat, o : Thread \cup {None}] /\ mtx[m].v - 1 \in Nat \ {0}
    BY <1>4
  <2>1. /\ mtx' = [mtx EXCEPT ![m].v = @ - 1]
        /\ UNCHANGED <<vars, wqvars>>
    BY <1>4 DEF mutex_exit
  <2> USE <2>1
  <2>2. /\ Alive' = Alive /\ UNCHANGED <<current_thread, cpu, bt, waiters, onlist>>
    BY DEF vars, wqvars, Alive
  <2> USE <2>2
  <2>3. /\ mtx' \in [Mutex -> [v : Nat, o : Thread \cup {None}]]
        /\ mtx'[m].v = mtx[m].v - 1 /\ mtx'[m].v # 0 /\ mtx'[m].o = me
        /\ \A k \in Mutex \ {m} : mtx'[k] = mtx[k]
    <3> DEFINE r == [mtx[m] EXCEPT !.v = mtx[m].v - 1]
    <3>2. /\ r \in [v : Nat, o : Thread \cup {None}]
          /\ r.v = mtx[m].v - 1 /\ r.o = mtx[m].o
      BY <2>a
    <3>3. mtx' = [mtx EXCEPT ![m] = r]
      OBVIOUS
    <3> HIDE DEF r
    <3> QED
      BY <2>a, <3>2, <3>3
  <2> USE <2>3
  <2>4. \A t \in Thread : \A k : WaitsOn(t, k)' <=> WaitsOn(t, k)
    BY DEF WaitsOn, OthersKeepFrame
  <2>5. QueueType' /\ WaitersLive'
    BY <2>4, QuietStep DEF FiberInv, FiberType
  <2>6. frame'[me][1] \notin {"enter", "enter_wait"}
    OBVIOUS
  <2>7. OwnersLive'
    <3>1. ASSUME NEW k \in Mutex \ {m}
          PROVE  /\ mtx'[k].v = 0 <=> mtx'[k].o = None
                 /\ mtx'[k].o # None => mtx'[k].o \in Alive' /\ ~ Tries(mtx[k].o, k)'
      <4>1. /\ mtx[k].v = 0 <=> mtx[k].o = None
            /\ mtx[k].o # None => mtx[k].o \in Alive /\ ~ Tries(mtx[k].o, k)
            /\ mtx'[k] = mtx[k]
        BY DEF FiberInv, OwnersLive
      <4>2. CASE mtx[k].o = me
        BY <2>6, <4>1, <4>2 DEF Tries
      <4>3. CASE mtx[k].o # me
        BY <4>1, <4>3
      <4> QED
        BY <4>2, <4>3
    <3>2. me # None /\ ~ Tries(mtx[m].o, m)'
      BY <2>6, RumpThreadAssumption DEF Tries
    <3> QED
      BY <3>1, <3>2 DEF OwnersLive
  <2>8. HandedOver'
    BY DEF FiberInv, HandedOver
  <2> QED
    BY <2>5, <2>7, <2>8
<1> QED
  BY <1>3, <1>4

LEMMA MutexExitStep ==
  ASSUME TypeOK, Safety, FiberInv, NEW m \in Mutex, rumpuser_mutex_exit(m)
  PROVE  FiberInv' /\ [Next]_vars
<1> DEFINE me == current_thread
<1>1. /\ cpu = "thread" /\ frame[me] = <<"run">> /\ frame[me][1] = "run"
      /\ m \in Held(me) /\ mutex_exit(m)
      /\ UNCHANGED <<nwaiters, vcpu, frame>>
  BY DEF rumpuser_mutex_exit, In
<1> USE <1>1
<1>2. OthersKeepFrame /\ frame' \in [Thread -> Frame] /\ frame'[me][1] = "run"
  BY DEF OthersKeepFrame, FiberInv, FiberType
<1>3. /\ [Next]_vars
      /\ Alive' = Alive /\ UNCHANGED <<current_thread, cpu>>
      /\ QueueType' /\ WaitersLive' /\ OwnersLive' /\ HandedOver'
      /\ mtx' \in [Mutex -> [v : Nat, o : Thread \cup {None}]]
      /\ mtx'[m].v > 0 => mtx'[m].o = me
      /\ \A k \in Mutex \ {m} : mtx'[k] = mtx[k]
  BY <1>2, ReleaseStep
<1>4. VcpuOnCpu' /\ SpinOnCpu'
  BY <1>3, FiberAssumption DEF FiberInv, VcpuOnCpu, SpinOnCpu, OnCpu
<1>5. WaitersCounted'
  BY <1>3, CountedSame DEF FiberInv, InsideCv
<1> QED
  BY <1>2, <1>3, <1>4, <1>5 DEF FiberInv, FiberType

LEMMA CvWaitStep ==
  ASSUME TypeOK, Safety, FiberInv, NEW c \in CV, NEW m \in Mutex,
         NEW nsec \in Durations, rumpuser_cv_wait(c, m, nsec)
  PROVE  FiberInv' /\ [Next]_vars
<1> DEFINE me == current_thread
           g == <<"cv_exit", c, m, nsec, vcpu = me>>
<1>1. /\ cpu = "thread" /\ frame[me] = <<"run">> /\ frame[me][1] = "run"
      /\ m \in Interlock /\ m \in Held(me) /\ mtx[m].v = 1
      /\ (Held(me) \ {m}) \cap Spin = {}
      /\ cv_count(c) /\ vcpu' = None /\ mutex_exit(m)
      /\ frame' = [frame EXCEPT ![me] = g]
      /\ me \in Thread /\ me \in Alive
  BY CallerLive
  DEF rumpuser_cv_wait, In, Goto, cv_unsched, rumpkern_unsched, TypeOK
<1> USE <1>1
<1>2. g \in Frame /\ g[1] = "cv_exit" /\ g[2] = c
  BY KindOfFrame
<1> HIDE DEF g
<1>3. /\ frame' \in [Thread -> Frame] /\ frame'[me] = g
      /\ \A u \in Thread \ {me} : frame'[u] = frame[u]
  BY <1>2, GotoEffect DEF FiberInv, FiberType
<1> USE <1>3
<1>4. /\ [Next]_vars
      /\ Alive' = Alive /\ UNCHANGED <<current_thread, cpu>>
      /\ QueueType' /\ WaitersLive' /\ OwnersLive' /\ HandedOver'
      /\ mtx' \in [Mutex -> [v : Nat, o : Thread \cup {None}]]
      /\ mtx'[m].v = mtx[m].v - 1
      /\ \A k \in Mutex \ {m} : mtx'[k] = mtx[k]
  BY <1>2, ReleaseStep DEF OthersKeepFrame
<1> USE <1>4
<1>5. ASSUME NEW k \in Spin
      PROVE  ~ (mtx'[k].v > 0)
  <2>1. CASE k = m
    BY <2>1
  <2>2. CASE k # m
    BY <2>2, FiberAssumption
    DEF FiberInv, SpinOnCpu, OnCpu, Held
  <2> QED
    BY <2>1, <2>2
<1>6. VcpuOnCpu' /\ SpinOnCpu'
  BY <1>5 DEF VcpuOnCpu, SpinOnCpu
<1>7. WaitersCounted'
  <2>1. \A d : ~ InsideCv(me, d)
    BY DEF InsideCv
  <2>2. \A d \in CV : InsideCv(current_thread, d)' <=> d = c
    BY <1>2 DEF InsideCv
  <2>3. \A t \in Alive : t = me => \A d \in CV : InsideCv(t, d)' <=> d = c
    BY <2>2
  <2> QED
    BY <2>1, <2>3, CountedMore DEF FiberInv
<1>8. nwaiters' \in [CV -> Int]
  BY DEF cv_count, FiberInv, FiberType
<1> QED
  BY <1>6, <1>7, <1>8 DEF FiberInv, FiberType

(* rumpuser_cv_signal() and one round of rumpuser_cv_broadcast().          *)
LEMMA SignalStep ==
  ASSUME TypeOK, Safety, FiberInv, NEW c \in CV, cpu = "thread", wakeup_one(c),
         UNCHANGED <<mtx, nwaiters, vcpu>>, OthersKeepFrame,
         frame' \in [Thread -> Frame],
         frame[current_thread][1] \in {"run", "broadcast"},
         frame'[current_thread][1] \in {"run", "broadcast"}
  PROVE  FiberInv' /\ [Next]_vars
<1> DEFINE me == current_thread
<1>1. c \in WaitHead /\ c \notin Mutex /\ Mutex \subseteq WaitHead
  BY FiberAssumption
<1>2. current_thread' = me /\ me \in Thread /\ Alive \subseteq Thread
  BY AliveThreads DEF wakeup_one, wakeup_who, Wake, vars, TypeOK
<1> USE <1>2
<1>3. \A t \in Thread : \A k : /\ WaitsOn(t, k)' <=> WaitsOn(t, k)
                               /\ InsideCv(t, k)' <=> InsideCv(t, k)
                               /\ Tries(t, k)' <=> Tries(t, k)
  BY DEF WaitsOn, InsideCv, Tries, OthersKeepFrame
<1>4. /\ \A k \in WaitHead : ~ WaitsOn(me, k)
      /\ \A k \in WaitHead : ~ WaitsOn(current_thread, k)'
  BY DEF WaitsOn
<1>5. QueueInv
  BY DEF QueueInv, FiberInv, FiberType
<1>6. /\ QueueType' /\ WaitersLive' /\ [Next]_vars
      /\ Alive' = Alive /\ UNCHANGED <<current_thread, cpu>>
      /\ \A t \in Alive : bt[t].runnable => bt'[t].runnable
      /\ \A k \in WaitHead \ {c} : waiters'[k] = waiters[k]
  BY <1>1, <1>4, <1>5, WakeupStep
<1> USE <1>6
<1>7. VcpuOnCpu' /\ SpinOnCpu'
  BY DEF FiberInv, VcpuOnCpu, SpinOnCpu, OnCpu
<1>8. OwnersLive'
  BY <1>3 DEF FiberInv, OwnersLive
<1>9. HandedOver'
  BY <1>1, <1>3 DEF FiberInv, HandedOver
<1>10. WaitersCounted'
  BY <1>3, CountedSame DEF FiberInv
<1> QED
  BY <1>7, <1>8, <1>9, <1>10 DEF FiberInv, FiberType

LEMMA BroadcastStep ==
  ASSUME TypeOK, Safety, FiberInv, NEW c \in CV, rumpuser_cv_broadcast(c)
  PROVE  FiberInv' /\ [Next]_vars
<1> DEFINE me == current_thread
<1>1. /\ cpu = "thread" /\ me \in Thread
      /\ frame[me] = <<"run">> \/ frame[me] = <<"broadcast", c>>
      /\ wakeup_one(c) /\ UNCHANGED <<mtx, nwaiters, vcpu>>
      /\ \/ frame' = [frame EXCEPT ![me] = <<"run">>]
         \/ frame' = [frame EXCEPT ![me] = <<"broadcast", c>>]
  BY DEF rumpuser_cv_broadcast, In, Goto, TypeOK
<1> USE <1>1
<1>2. cpu = "thread" /\ frame[me][1] \in {"run", "broadcast"}
  BY DEF rumpuser_cv_broadcast, In
<1>3. PICK g \in Frame : /\ frame' = [frame EXCEPT ![me] = g]
                         /\ g[1] \in {"run", "broadcast"}
  BY KindOfFrame
<1>4. /\ frame' \in [Thread -> Frame] /\ frame'[me] = g
      /\ \A u \in Thread \ {me} : frame'[u] = frame[u]
  BY <1>3, GotoEffect DEF FiberInv, FiberType
<1> QED
  BY <1>2, <1>3, <1>4, SignalStep DEF OthersKeepFrame

(* The end of rumpuser_cv_wait(): it takes the mutex back unless somebody  *)
(* else has it, which cannot be if it is a spin mutex.                     *)
LEMMA CvEndStep ==
  ASSUME TypeOK, Safety, FiberInv, NEW c \in CV, NEW m \in Mutex,
         NEW nsec \in Durations, NEW wrap \in BOOLEAN,
         cv_wait_end(c, m, nsec, wrap)
  PROVE  /\ panicked' \/ FiberInv'
         /\ Interlock \subseteq Spin => ~ panicked'
<1> DEFINE me == current_thread
           f == <<"cv_wait", c, m, nsec, wrap>>
<1>1. /\ cpu = "thread" /\ frame[me] = f /\ me \in Thread /\ ~ panicked
      /\ wait_return(c) /\ UNCHANGED vars
  <2>1. In(f) /\ wait_return(c) /\ UNCHANGED vars
    BY DEF cv_wait_end
  <2> QED
    BY <2>1 DEF In, TypeOK
<1> USE <1>1
<1>2. f[1] = "cv_wait" /\ f[2] = c /\ f \in Frame
  BY DEF FiberInv, FiberType
<1> USE <1>2
<1>3. m \in Interlock
  BY FrameKinds
<1>4. vcpu = None /\ \A k \in Spin : mtx[k].v = 0
  BY InsideCall
<1>5. CASE Free(m)
  <2>1. /\ mtx' = [mtx EXCEPT ![m] = [v |-> mtx[m].v + 1, o |-> me]]
        /\ vcpu' = me \/ vcpu' = None
        /\ nwaiters' = [nwaiters EXCEPT ![c] = @ - 1]
        /\ frame' = [frame EXCEPT ![me] = <<"run">>]
        /\ ~ panicked'
    BY <1>4, <1>5 DEF cv_wait_end, tryenter, Goto
  <2> USE <2>1
  <2> HIDE DEF f
  <2>2. /\ mtx' \in [Mutex -> [v : Nat, o : Thread \cup {None}]]
        /\ mtx'[m].v # 0 /\ mtx'[m].o = me
        /\ \A k \in Mutex \ {m} : mtx'[k] = mtx[k]
    BY DEF FiberInv, FiberType
  <2> USE <2>2
  <2>3. /\ frame' \in [Thread -> Frame] /\ frame'[me] = <<"run">>
        /\ \A u \in Thread \ {me} : frame'[u] = frame[u]
    BY KindOfFrame, GotoEffect DEF FiberInv, FiberType
  <2> USE <2>3
  <2>4. frame'[me][1] = "run"
    OBVIOUS
  <2> USE <2>4
  <2>5. /\ Alive' = Alive /\ current_thread' = me /\ bt' = bt /\ cpu' = cpu
        /\ Alive \subseteq Thread /\ me \in Alive
    BY CallerLive, AliveThreads DEF vars, Alive
  <2> USE <2>5
  <2>6. VcpuOnCpu' /\ SpinOnCpu'
    BY <1>4, FiberAssumption
    DEF VcpuOnCpu, SpinOnCpu, OnCpu
  <2>7. \A t \in Thread : \A k : Tries(t, k)' <=> Tries(t, k)
    BY DEF Tries
  <2>8. OwnersLive'
    <3>1. ~ Tries(mtx[m].o, m)' /\ me # None
      BY RumpThreadAssumption DEF Tries
    <3> QED
      BY <2>7, <3>1 DEF FiberInv, OwnersLive
  <2>9. c \in WaitHead /\ c \notin Mutex /\ Mutex \subseteq WaitHead
    BY FiberAssumption
  <2>10. /\ QueueType' /\ WaitersLive'
         /\ \A k \in WaitHead \ {c} : waiters'[k] = waiters[k]
    <3>1. \A k \in WaitHead : WaitsOn(me, k) <=> k = c
      BY DEF WaitsOn
    <3>2. \A k \in WaitHead : ~ WaitsOn(current_thread, k)'
      BY DEF WaitsOn
    <3>3. QueueInv
      BY DEF QueueInv, FiberInv, FiberType
    <3> QED
      BY <2>9, <3>1, <3>2, <3>3, ReturnStep DEF OthersKeepFrame
  <2>11. HandedOver'
    <3>1. ASSUME NEW k \in Mutex, mtx'[k].v = 0, waiters'[k] # <<>>
          PROVE  \E t \in Alive' : bt'[t].runnable /\ Tries(t, k)'
      <4>1. waiters[k] # <<>>
        BY <2>9, <2>10, <3>1
      <4>2. PICK t \in Alive : bt[t].runnable /\ Tries(t, k)
        BY <3>1, <4>1 DEF FiberInv, HandedOver
      <4> QED
        BY <2>7, <4>2
    <3> QED
      BY <3>1 DEF HandedOver
  <2>12. WaitersCounted'
    <3>1. \A d \in CV : InsideCv(me, d) <=> d = c
      BY DEF InsideCv
    <3>2. \A t \in Alive : t = me => \A d \in CV : ~ InsideCv(t, d)'
      BY DEF InsideCv
    <3> QED
      BY <3>1, <3>2, CountedLess DEF FiberInv
  <2>13. nwaiters' \in [CV -> Int]
    BY DEF FiberInv, FiberType
  <2> QED
    BY <2>6, <2>8, <2>10, <2>11, <2>12, <2>13
    DEF FiberInv, FiberType
<1>6. CASE ~ Free(m)
  <2>1. panicked'
    BY <1>6 DEF cv_wait_end
  <2>2. m \notin Spin
    BY <1>4, <1>6 DEF Free
  <2> QED
    BY <1>3, <2>1, <2>2
<1> QED
  BY <1>5, <1>6

-----------------------------------------------------------------------------
(* All steps together.                                                     *)

(* What every step does.                                                   *)
StepKeeps ==
  /\ [Next]_vars
  /\ panicked' \/ FiberInv'
  /\ Interlock \subseteq Spin /\ ~ panicked => ~ panicked'

LEMMA ThreadCallStep ==
  ASSUME TypeOK, Safety, FiberInv, ThreadCall
  PROVE  StepKeeps
<1>1. UNCHANGED mvars
  BY DEF ThreadCall
<1> USE <1>1
<1>2. CASE hyp_schedule \/ hyp_unschedule
  BY <1>2, ScheduleStep DEF hyp_schedule, hyp_unschedule, StepKeeps
<1>3. CASE Held(current_thread) = {} /\ rumpuser_thread_exit
  BY <1>3, ExitStep
  DEF rumpuser_thread_exit, rvars, Next, Yield, StepKeeps
<1>4. ASSUME NEW t \in Thread, rumpuser_thread_create(t)
      PROVE  StepKeeps
  BY <1>4, CreateStep DEF rumpuser_thread_create, Next, StepKeeps
<1>5. ASSUME NEW nsec \in Durations, rumpuser_clock_sleep(nsec),
             Held(current_thread) \cap Spin = {}
      PROVE  StepKeeps
  BY <1>5, SleepStep DEF rumpuser_clock_sleep, Next, Yield, StepKeeps
<1> QED
  BY <1>2, <1>3, <1>4, <1>5 DEF ThreadCall

LEMMA MutexCallStep ==
  ASSUME TypeOK, Safety, FiberInv, MutexCall
  PROVE  StepKeeps
<1>1. PICK m \in Mutex : \/ rumpuser_mutex_enter(m)
                         \/ rumpuser_mutex_enter_nowrap(m)
                         \/ rumpuser_mutex_exit(m)
                         \/ rumpuser_mutex_destroy(m)
  BY DEF MutexCall
<1>2. CASE rumpuser_mutex_enter(m)
  BY <1>2, EnterStep DEF rumpuser_mutex_enter, StepKeeps
<1>3. CASE rumpuser_mutex_enter_nowrap(m)
  BY <1>3, NowrapStep DEF rumpuser_mutex_enter_nowrap, StepKeeps
<1>4. CASE rumpuser_mutex_exit(m)
  BY <1>4, MutexExitStep DEF rumpuser_mutex_exit, StepKeeps
<1>5. CASE rumpuser_mutex_destroy(m)
  BY <1>5, DestroyStep DEF rumpuser_mutex_destroy, StepKeeps
<1> QED
  BY <1>1, <1>2, <1>3, <1>4, <1>5

LEMMA CvCallStep ==
  ASSUME TypeOK, Safety, FiberInv, CvCall
  PROVE  StepKeeps
<1>1. PICK c \in CV :
        \/ \E m \in Mutex, nsec \in Durations : rumpuser_cv_wait(c, m, nsec)
        \/ rumpuser_cv_signal(c)
        \/ rumpuser_cv_destroy(c)
        \/ In(<<"run">>) /\ rumpuser_cv_broadcast(c)
  BY DEF CvCall
<1>2. ASSUME NEW m \in Mutex, NEW nsec \in Durations, rumpuser_cv_wait(c, m, nsec)
      PROVE  StepKeeps
  BY <1>2, CvWaitStep DEF rumpuser_cv_wait, StepKeeps
<1>3. CASE rumpuser_cv_signal(c)
  <2>1. /\ cpu = "thread" /\ frame[current_thread][1] = "run"
        /\ wakeup_one(c) /\ UNCHANGED <<mtx, nwaiters, vcpu, frame, panicked>>
    BY <1>3 DEF rumpuser_cv_signal, In, rvars, mvars
  <2>2. OthersKeepFrame /\ frame' \in [Thread -> Frame]
    BY <2>1 DEF OthersKeepFrame, FiberInv, FiberType
  <2> QED
    BY <2>1, <2>2, SignalStep DEF StepKeeps
<1>4. CASE rumpuser_cv_destroy(c)
  BY <1>4, CvDestroyStep DEF rumpuser_cv_destroy, StepKeeps
<1>5. CASE rumpuser_cv_broadcast(c)
  BY <1>5, BroadcastStep DEF rumpuser_cv_broadcast, StepKeeps
<1> QED
  BY <1>1, <1>2, <1>3, <1>4, <1>5

LEMMA ContinueStep ==
  ASSUME TypeOK, Safety, FiberInv, Continue
  PROVE  StepKeeps
<1>1. ASSUME NEW m \in Mutex, mutex_enter_loop(m)
      PROVE  StepKeeps
  BY <1>1, LoopStep DEF mutex_enter_loop, StepKeeps
<1>2. ASSUME NEW m \in Mutex, mutex_enter_woken(m)
      PROVE  StepKeeps
  BY <1>2, WokenStep DEF mutex_enter_woken, StepKeeps
<1>3. ASSUME NEW c \in CV, NEW m \in Mutex, NEW nsec \in Durations,
             NEW wrap \in BOOLEAN, cv_wait_begin(c, m, nsec, wrap)
      PROVE  StepKeeps
  BY <1>3, CvBeginStep DEF cv_wait_begin, StepKeeps
<1>4. ASSUME NEW c \in CV, NEW m \in Mutex, NEW nsec \in Durations,
             NEW wrap \in BOOLEAN, cv_wait_end(c, m, nsec, wrap)
      PROVE  StepKeeps
  <2>1. UNCHANGED vars
    BY <1>4 DEF cv_wait_end
  <2> QED
    BY <1>4, <2>1, CvEndStep DEF StepKeeps
<1>5. ASSUME NEW c \in CV, rumpuser_cv_broadcast(c)
      PROVE  StepKeeps
  BY <1>5, BroadcastStep DEF rumpuser_cv_broadcast, StepKeeps
<1>6. CASE clock_sleep_return /\ UNCHANGED mvars
  BY <1>6, SleepReturnStep DEF clock_sleep_return, StepKeeps
<1> QED
  BY <1>1, <1>2, <1>3, <1>4, <1>5, <1>6 DEF Continue

LEMMA FiberStep ==
  ASSUME TypeOK, Safety, panicked \/ FiberInv, [FiberNext]_allvars
  PROVE  StepKeeps
<1>1. CASE UNCHANGED allvars
  <2>1. UNCHANGED <<vars, wqvars, rvars, mvars>>
    BY <1>1 DEF allvars
  <2>2. /\ UNCHANGED <<threads, bt, current_thread, cpu, waiters, onlist>>
        /\ UNCHANGED <<vcpu, frame, mtx, nwaiters>>
    BY <2>1 DEF vars, wqvars, rvars, mvars
  <2> USE <2>2
  <2>3. Alive' = Alive
    BY DEF Alive
  <2>4. FiberType => FiberType'
    BY DEF FiberType, QueueType
  <2>5. WaitersLive => WaitersLive'
    BY <2>3 DEF WaitersLive, WaitsOn
  <2>6. VcpuOnCpu /\ SpinOnCpu => VcpuOnCpu' /\ SpinOnCpu'
    BY DEF VcpuOnCpu, SpinOnCpu, OnCpu
  <2>7. OwnersLive /\ HandedOver => OwnersLive' /\ HandedOver'
    BY <2>3 DEF OwnersLive, HandedOver, Tries
  <2>8. WaitersCounted => WaitersCounted'
    BY <2>3 DEF WaitersCounted
  <2> QED
    BY <2>1, <2>4, <2>5, <2>6, <2>7, <2>8 DEF rvars, FiberInv, StepKeeps
<1>2. CASE Call \/ Continue
  <2>1. ~ panicked
    BY <1>2 DEF Call, ThreadCall, hyp_schedule, hyp_unschedule,
      rumpuser_thread_exit, rumpuser_thread_create, rumpuser_clock_sleep,
      MutexCall, rumpuser_mutex_enter, rumpuser_mutex_enter_nowrap,
      rumpuser_mutex_exit, rumpuser_mutex_destroy, CvCall, rumpuser_cv_wait,
      rumpuser_cv_signal, rumpuser_cv_destroy, rumpuser_cv_broadcast, Continue,
      mutex_enter_loop, mutex_enter_woken, cv_wait_begin, cv_wait_end,
      clock_sleep_return, Running, In
  <2> QED
    BY <1>2, <2>1, ThreadCallStep, MutexCallStep, CvCallStep, ContinueStep DEF Call
<1>3. CASE /\ RumpSched \/ RumpHltReturn \/ FiberTick \/ \E t \in Thread : isr_wakes(t)
           /\ UNCHANGED mvars
  <2>1. /\ UNCHANGED <<wqvars, rvars, mvars>> /\ UNCHANGED panicked
        /\ bmk_sched \/ nanohlt_return \/ Tick \/ \E t \in Thread : Wake(t)
    BY <1>3 DEF RumpSched, RumpHltReturn, FiberTick, RumpTick, isr_wakes, rvars
  <2>2. [Next]_vars
    BY <2>1 DEF Next
  <2> QED
    BY <2>1, <2>2, SchedulerStep DEF StepKeeps
<1> QED
  BY <1>1, <1>2, <1>3 DEF FiberNext

LEMMA FiberInitially ==
  ASSUME FiberInit
  PROVE  TypeOK /\ Safety /\ FiberInv /\ ~ panicked
<1>1. /\ Init /\ TypeOK /\ Safety /\ WaitInit /\ ~ panicked
      /\ vcpu = None /\ frame = [t \in Thread |-> <<"run">>]
      /\ mtx = [m \in Mutex |-> [v |-> 0, o |-> None]]
      /\ nwaiters = [c \in CV |-> 0]
  BY InitSafe DEF FiberInit, RumpInit
<1> USE <1>1
<1>2. FiberType
  BY KindOfFrame DEF FiberType, QueueType, WaitInit
<1>3. \A t \in Thread : frame[t][1] = "run"
  OBVIOUS
<1>4. Alive \subseteq Thread
  BY AliveThreads
<1>5. WaitersLive
  <2>1. \A h \in WaitHead : waiters[h] = <<>> /\ \A t \in Alive : ~ WaitsOn(t, h)
    BY <1>3, <1>4 DEF WaitInit, WaitsOn
  <2>2. IsInjective(<<>>) /\ Range(<<>>) = {}
    BY DEF IsInjective, Range
  <2> QED
    BY <2>1, <2>2 DEF WaitersLive
<1>6. VcpuOnCpu /\ SpinOnCpu /\ OwnersLive /\ HandedOver
  BY FiberAssumption
  DEF WaitInit, VcpuOnCpu, SpinOnCpu, OwnersLive, HandedOver
<1>7. WaitersCounted
  <2>1. \A c \in CV : {t \in Alive : InsideCv(t, c)} = {}
    BY <1>3, <1>4 DEF InsideCv
  <2> QED
    BY <2>1, FS_EmptySet DEF WaitersCounted, InsideCv
<1> QED
  BY <1>2, <1>5, <1>6, <1>7 DEF FiberInv

(* Until a panic the invariant holds, whatever mutexes are used with the   *)
(* condition variables.                                                    *)
LEMMA FiberInvariant == FiberSpec => [](TypeOK /\ Safety /\ (panicked \/ FiberInv))
<1>1. FiberInit => TypeOK /\ Safety /\ (panicked \/ FiberInv)
  BY FiberInitially
<1>2. TypeOK /\ Safety /\ (panicked \/ FiberInv) /\ [FiberNext]_allvars
        => (TypeOK /\ Safety /\ (panicked \/ FiberInv))'
  BY FiberStep, TypeStep, SafetyStep DEF StepKeeps, Safety
<1> QED
  BY <1>1, <1>2, PTL DEF FiberSpec

LEMMA FiberInvariants ==
  ASSUME TypeOK, FiberInv
  PROVE  WaitersLive /\ NoLostWakeup /\ VcpuReleased /\ WaitersCounted
<1>1. VcpuReleased
  BY DEF FiberInv, VcpuOnCpu, OnCpu, VcpuReleased
<1>2. Alive \subseteq Thread /\ frame \in [Thread -> Frame]
  BY AliveThreads DEF FiberInv, FiberType
<1>3. ASSUME NEW m \in Mutex, NEW t \in Alive, Tries(t, m)
      PROVE  frame[t] = <<"enter", m>> \/ frame[t] = <<"enter_wait", m>>
  BY <1>2, <1>3, EnterFrame DEF Tries
<1>4. ASSUME NEW m \in Mutex, NEW t \in Alive, ~ Tries(t, m)
      PROVE  frame[t] # <<"enter_wait", m>>
  BY <1>4 DEF Tries
<1>5. NoLostWakeup
  BY <1>3, <1>4 DEF FiberInv, OwnersLive, HandedOver, NoLostWakeup
<1> QED
  BY <1>1, <1>5 DEF FiberInv

(* Mutexes and condition variables implement the scheduler: rumpfiber.c    *)
(* calls it only as its contract allows.                                   *)
THEOREM FiberImplementsSched == FiberSpec => Spec
<1>1. FiberInit => Init
  BY DEF FiberInit, RumpInit
<1>2. TypeOK /\ Safety /\ (panicked \/ FiberInv) /\ [FiberNext]_allvars => [Next]_vars
  BY FiberStep DEF StepKeeps
<1> QED
  BY <1>1, <1>2, FiberInvariant, PTL DEF FiberSpec, Spec

(* Until rumpuser_mutex_enter_nowrap() panics, the wait queues hold live   *)
(* waiters, no wakeup is lost, a blocked thread has no virtual CPU and the *)
(* waiters of every condition variable are counted.                        *)
THEOREM FiberSafeUntilPanic ==
  FiberSpec => [](panicked \/ (WaitersLive /\ NoLostWakeup /\ VcpuReleased /\ WaitersCounted))
<1>1. TypeOK /\ Safety /\ (panicked \/ FiberInv)
        => panicked \/ (WaitersLive /\ NoLostWakeup /\ VcpuReleased /\ WaitersCounted)
  BY FiberInvariants
<1> QED
  BY <1>1, FiberInvariant, PTL

-----------------------------------------------------------------------------
(* With spin mutexes only as interlocks there is no panic.                 *)

LEMMA SpinInvariant ==
  ASSUME Interlock \subseteq Spin
  PROVE  FiberSpec => [](TypeOK /\ Safety /\ FiberInv /\ ~ panicked)
<1>1. FiberInit => TypeOK /\ Safety /\ FiberInv /\ ~ panicked
  BY FiberInitially
<1>2. TypeOK /\ Safety /\ FiberInv /\ ~ panicked /\ [FiberNext]_allvars
        => (TypeOK /\ Safety /\ FiberInv /\ ~ panicked)'
  BY FiberStep, TypeStep, SafetyStep DEF StepKeeps, Safety
<1> QED
  BY <1>1, <1>2, PTL DEF FiberSpec

(* rumpuser_mutex_enter_nowrap() "must succeed", and it does if the mutexes*)
(* used with condition variables are spin mutexes: nobody blocks with one. *)
THEOREM SpinMutexesSucceed ==
  ASSUME Interlock \subseteq Spin
  PROVE  FiberSpec => []NowrapSucceeds
BY SpinInvariant, PTL DEF NowrapSucceeds

(* Then all the invariants of the wait queues hold for ever.               *)
THEOREM WaitQueuesLive ==
  ASSUME Interlock \subseteq Spin
  PROVE  FiberSpec => []WaitersLive
BY SpinInvariant, PTL DEF FiberInv

(* No mutex is left free with all its waiters asleep.                      *)
THEOREM NoWakeupLost ==
  ASSUME Interlock \subseteq Spin
  PROVE  FiberSpec => []NoLostWakeup
<1>1. TypeOK /\ Safety /\ FiberInv /\ ~ panicked => NoLostWakeup
  BY FiberInvariants
<1> QED
  BY <1>1, SpinInvariant, PTL

(* rumpkern_sched() finds the virtual CPU free whenever a blocked call of  *)
(* a mutex, a condition variable or a sleep ends.                          *)
THEOREM BlockedWithoutVcpu ==
  ASSUME Interlock \subseteq Spin
  PROVE  FiberSpec => []VcpuReleased
<1>1. TypeOK /\ Safety /\ FiberInv /\ ~ panicked => VcpuReleased
  BY FiberInvariants
<1> QED
  BY <1>1, SpinInvariant, PTL

(* rumpuser_cv_has_waiters() is right: nwaiters is the number of threads   *)
(* inside rumpuser_cv_wait().                                              *)
THEOREM CvWaitersCounted ==
  ASSUME Interlock \subseteq Spin
  PROVE  FiberSpec => []WaitersCounted
BY SpinInvariant, PTL DEF FiberInv
=============================================================================
