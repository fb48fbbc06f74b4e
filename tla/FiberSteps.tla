----------------------------- MODULE FiberSteps -----------------------------
(***************************************************************************)
(* The inductive invariant of mutexes and condition variables, and that    *)
(* the steps that call, block and return keep it.  The steps that wake,    *)
(* and the theorems, are in FiberProofs.                                   *)
(***************************************************************************)
EXTENDS Fiber, SchedProofs

-----------------------------------------------------------------------------
(* The inductive invariant.                                                *)

Frame ==
  {<<"run">>, <<"sleep">>}
    \cup {<<p, m>> : p \in {"enter", "enter_wait"}, m \in Mutex}
    \cup {<<p, c, m, nsec, wrap>> : p \in {"cv_exit", "cv_wait"}, c \in CV,
                                    m \in Interlock, nsec \in Durations,
                                    wrap \in BOOLEAN}
    \cup {<<"broadcast", c>> : c \in CV}

FiberType ==
  /\ QueueType
  /\ frame \in [Thread -> Frame]
  /\ vcpu \in Thread \cup {None}
  /\ mtx \in [Mutex -> [v : Nat, o : Thread \cup {None}]]
  /\ nwaiters \in [CV -> Int]

(* Thread t runs and is not on its way to block.                           *)
OnCpu(t) ==
  /\ cpu = "thread" /\ current_thread = t
  /\ frame[t][1] \in {"run", "broadcast"}

(* Thread t is in the loop of rumpuser_mutex_enter() for m.                *)
Tries(t, m) == frame[t][1] \in {"enter", "enter_wait"} /\ frame[t][2] = m

(* Thread t is inside rumpuser_cv_wait() for c.                            *)
InsideCv(t, c) == frame[t][1] \in {"cv_exit", "cv_wait"} /\ frame[t][2] = c

(* Nobody takes the virtual CPU along when it blocks, nor a spin mutex.    *)
VcpuOnCpu == vcpu # None => OnCpu(vcpu)
SpinOnCpu == \A m \in Spin : mtx[m].v > 0 => OnCpu(mtx[m].o)

OwnersLive ==
  \A m \in Mutex :
    /\ mtx[m].v = 0 <=> mtx[m].o = None
    /\ mtx[m].o # None => mtx[m].o \in Alive /\ ~ Tries(mtx[m].o, m)

(* A free mutex somebody waits for will be tried by a runnable thread.     *)
HandedOver ==
  \A m \in Mutex :
    mtx[m].v = 0 /\ waiters[m] # <<>> =>
      \E t \in Alive : bt[t].runnable /\ Tries(t, m)

FiberInv ==
  /\ FiberType
  /\ WaitersLive
  /\ VcpuOnCpu /\ SpinOnCpu
  /\ OwnersLive /\ HandedOver
  /\ WaitersCounted

-----------------------------------------------------------------------------
(* Frames.                                                                 *)

LEMMA FrameKinds ==
  ASSUME NEW f \in Frame
  PROVE  \/ f = <<"run">> \/ f = <<"sleep">>
         \/ \E m \in Mutex : f = <<"enter", m>> \/ f = <<"enter_wait", m>>
         \/ \E c \in CV, m \in Interlock, nsec \in Durations, wrap \in BOOLEAN :
              f = <<"cv_exit", c, m, nsec, wrap>> \/ f = <<"cv_wait", c, m, nsec, wrap>>
         \/ \E c \in CV : f = <<"broadcast", c>>
BY DEF Frame

LEMMA KindOfFrame ==
  /\ <<"run">> \in Frame /\ <<"sleep">> \in Frame
  /\ \A m \in Mutex : <<"enter", m>> \in Frame /\ <<"enter_wait", m>> \in Frame
  /\ \A c \in CV, m \in Interlock, nsec \in Durations, wrap \in BOOLEAN :
       /\ <<"cv_exit", c, m, nsec, wrap>> \in Frame
       /\ <<"cv_wait", c, m, nsec, wrap>> \in Frame
  /\ \A c \in CV : <<"broadcast", c>> \in Frame
BY DEF Frame

LEMMA EnterFrame ==
  ASSUME NEW f \in Frame, NEW m \in Mutex, f[2] = m
  PROVE  /\ f[1] = "enter" <=> f = <<"enter", m>>
         /\ f[1] \in {"enter_wait", "cv_wait"} <=> f = <<"enter_wait", m>>
<1>1. Mutex \cap CV = {}
  BY FiberAssumption
<1> QED
  BY <1>1, FrameKinds

-----------------------------------------------------------------------------
(* How the parts of the invariant are kept.                                *)

LEMMA CountedSame ==
  ASSUME WaitersCounted, UNCHANGED nwaiters,
         \A c \in CV : \A t : t \in Alive' /\ InsideCv(t, c)' <=> t \in Alive /\ InsideCv(t, c)
  PROVE  WaitersCounted'
<1>1. ASSUME NEW c \in CV
      PROVE  {t \in Alive' : InsideCv(t, c)'} = {t \in Alive : InsideCv(t, c)}
  OBVIOUS
<1> QED
  BY <1>1 DEF WaitersCounted, InsideCv

(* What is held is with the thread that runs: a call sees to it.           *)
LEMMA HeldByCaller ==
  ASSUME FiberInv
  PROVE  /\ vcpu = None \/ vcpu = current_thread
         /\ \A m \in Spin : mtx[m].v = 0 \/ (mtx[m].v > 0 /\ mtx[m].o = current_thread)
BY FiberAssumption DEF FiberInv, VcpuOnCpu, SpinOnCpu, OnCpu, FiberType

LEMMA NothingHeld ==
  ASSUME vcpu' = None, \A m \in Spin : mtx'[m].v = 0
  PROVE  VcpuOnCpu' /\ SpinOnCpu'
BY DEF VcpuOnCpu, SpinOnCpu

LEMMA HeldByRunner ==
  ASSUME NEW me, cpu' = "thread", current_thread' = me,
         frame'[me][1] \in {"run", "broadcast"},
         vcpu' = None \/ vcpu' = me,
         \A m \in Spin : mtx'[m].v = 0 \/ mtx'[m].o = me
  PROVE  VcpuOnCpu' /\ SpinOnCpu'
BY DEF VcpuOnCpu, SpinOnCpu, OnCpu

(* One thread more, or less, between the two ends of rumpuser_cv_wait().   *)
LEMMA CountedMore ==
  ASSUME TypeOK, WaitersCounted, FiberType, NEW c \in CV, Alive' = Alive,
         NEW me \in Alive, ~ InsideCv(me, c), cv_count(c),
         \A d \in CV : InsideCv(me, d)' <=> d = c,
         \A d \in CV \ {c} : ~ InsideCv(me, d),
         \A t \in Thread \ {me} : frame'[t] = frame[t]
  PROVE  WaitersCounted'
<1> DEFINE In0(d) == {t \in Alive : InsideCv(t, d)}
<1>0. Alive \subseteq Thread /\ IsFiniteSet(Alive)
  BY AliveThreads, ListFinite DEF TypeOK, Alive
<1>1. \A t \in Alive \ {me} : \A d \in CV : InsideCv(t, d)' <=> InsideCv(t, d)
  BY <1>0 DEF InsideCv
<1>2. ASSUME NEW d \in CV \ {c}
      PROVE  {t \in Alive' : InsideCv(t, d)'} = In0(d) /\ nwaiters'[d] = nwaiters[d]
  BY <1>1 DEF cv_count, FiberType
<1>3. {t \in Alive' : InsideCv(t, c)'} = In0(c) \cup {me} /\ me \notin In0(c)
  BY <1>1
<1>4. nwaiters'[c] = nwaiters[c] + 1
  BY DEF cv_count, FiberType
<1>5. IsFiniteSet(In0(c))
  BY <1>0, FS_Subset
<1> HIDE DEF In0
<1>6. Cardinality(In0(c) \cup {me}) = Cardinality(In0(c)) + 1
  BY <1>3, <1>5, FS_AddElement
<1>7. \A d \in CV : nwaiters[d] = Cardinality(In0(d))
  BY DEF WaitersCounted, In0, InsideCv
<1>8. \A d \in CV : nwaiters'[d] = Cardinality({t \in Alive' : InsideCv(t, d)'})
  BY <1>2, <1>3, <1>4, <1>6, <1>7
<1> QED
  BY <1>8 DEF WaitersCounted, InsideCv

LEMMA CountedLess ==
  ASSUME TypeOK, WaitersCounted, FiberType, NEW c \in CV, Alive' = Alive,
         NEW me \in Alive, InsideCv(me, c),
         nwaiters' = [nwaiters EXCEPT ![c] = @ - 1],
         \A d \in CV : ~ InsideCv(me, d)',
         \A d \in CV \ {c} : ~ InsideCv(me, d),
         \A t \in Thread \ {me} : frame'[t] = frame[t]
  PROVE  WaitersCounted'
<1> DEFINE In0(d) == {t \in Alive : InsideCv(t, d)}
<1>0. Alive \subseteq Thread /\ IsFiniteSet(Alive)
  BY AliveThreads, ListFinite DEF TypeOK, Alive
<1>1. \A t \in Alive \ {me} : \A d \in CV : InsideCv(t, d)' <=> InsideCv(t, d)
  BY <1>0 DEF InsideCv
<1>2. ASSUME NEW d \in CV \ {c}
      PROVE  {t \in Alive' : InsideCv(t, d)'} = In0(d) /\ nwaiters'[d] = nwaiters[d]
  BY <1>1 DEF FiberType
<1>3. {t \in Alive' : InsideCv(t, c)'} = In0(c) \ {me} /\ me \in In0(c)
  BY <1>1
<1>4. nwaiters'[c] = nwaiters[c] - 1
  BY DEF FiberType
<1>5. IsFiniteSet(In0(c))
  BY <1>0, FS_Subset
<1> HIDE DEF In0
<1>6. Cardinality(In0(c) \ {me}) = Cardinality(In0(c)) - 1
  BY <1>3, <1>5, FS_RemoveElement
<1>7. \A d \in CV : nwaiters[d] = Cardinality(In0(d))
  BY DEF WaitersCounted, In0, InsideCv
<1>8. \A d \in CV : nwaiters'[d] = Cardinality({t \in Alive' : InsideCv(t, d)'})
  BY <1>2, <1>3, <1>4, <1>6, <1>7
<1> QED
  BY <1>8 DEF WaitersCounted, InsideCv

(* A call of the running thread that neither blocks nor wakes anybody.     *)
LEMMA CallStep ==
  ASSUME TypeOK, Safety, FiberInv, cpu = "thread",
         UNCHANGED <<vars, wqvars, nwaiters>>, OthersKeepFrame,
         frame' \in [Thread -> Frame], vcpu' \in Thread \cup {None},
         mtx' \in [Mutex -> [v : Nat, o : Thread \cup {None}]],
         frame[current_thread][1] \notin {"enter_wait", "cv_wait", "cv_exit"},
         frame'[current_thread][1] \notin {"enter_wait", "cv_wait", "cv_exit"},
         VcpuOnCpu', SpinOnCpu', OwnersLive',
         \A m \in Mutex : mtx'[m].v = 0 =>
                            mtx[m].v = 0 /\ ~ Tries(current_thread, m)
  PROVE  FiberInv'
<1>1. /\ Alive' = Alive /\ bt' = bt /\ current_thread' = current_thread
      /\ waiters' = waiters /\ onlist' = onlist /\ nwaiters' = nwaiters
      /\ Alive \subseteq Thread
  BY AliveThreads DEF vars, wqvars, Alive
<1> USE <1>1
<1>2. \A t \in Thread : \A h : WaitsOn(t, h)' <=> WaitsOn(t, h)
  BY DEF WaitsOn, OthersKeepFrame
<1>3. \A t \in Thread : \A c : InsideCv(t, c)' <=> InsideCv(t, c)
  BY DEF InsideCv, OthersKeepFrame
<1>4. QueueType' /\ WaitersLive'
  BY <1>2, QuietStep DEF FiberInv, FiberType
<1>5. WaitersCounted'
  BY <1>3, CountedSame DEF FiberInv
<1>6. HandedOver'
  <2>1. \A t \in Alive \ {current_thread} : \A m \in Mutex : Tries(t, m) => Tries(t, m)'
    BY DEF Tries, OthersKeepFrame
  <2> QED
    BY <2>1 DEF HandedOver, FiberInv
<1>7. FiberType'
  BY <1>4 DEF FiberType, FiberInv
<1> QED
  BY <1>4, <1>5, <1>6, <1>7 DEF FiberInv

-----------------------------------------------------------------------------
(* One lemma for each call, or part of a call between two waits.           *)

LEMMA ScheduleStep ==
  ASSUME TypeOK, Safety, FiberInv, UNCHANGED mvars,
         hyp_schedule \/ hyp_unschedule
  PROVE  FiberInv'
<1>1. /\ cpu = "thread" /\ frame[current_thread] = <<"run">>
      /\ vcpu' = current_thread \/ vcpu' = None
      /\ UNCHANGED <<vars, wqvars, frame>>
  BY DEF hyp_schedule, hyp_unschedule, Running, In
<1> USE <1>1
<1>2. current_thread \in Thread /\ frame[current_thread][1] = "run"
  BY DEF TypeOK
<1>3. Alive' = Alive /\ UNCHANGED <<cpu, current_thread, mtx, nwaiters>>
  BY DEF vars, mvars, Alive
<1>4. VcpuOnCpu' /\ SpinOnCpu' /\ OwnersLive'
  BY <1>2, <1>3
  DEF FiberInv, VcpuOnCpu, SpinOnCpu, OwnersLive, OnCpu, Tries
<1> QED
  BY <1>2, <1>3, <1>4, CallStep
  DEF FiberInv, FiberType, OthersKeepFrame, Tries

LEMMA EnterStep ==
  ASSUME TypeOK, Safety, FiberInv, NEW m \in Mutex, rumpuser_mutex_enter(m)
  PROVE  FiberInv'
<1> DEFINE me == current_thread
<1>1. /\ cpu = "thread" /\ frame[me] = <<"run">> /\ frame[me][1] = "run"
      /\ me \in Thread /\ me \in Alive
      /\ UNCHANGED <<vars, wqvars, nwaiters>>
      /\ UNCHANGED <<cpu, current_thread>> /\ Alive' = Alive
  BY CallerLive DEF rumpuser_mutex_enter, Running, In, TypeOK, vars, Alive
<1> USE <1>1
<1>2. \A k \in Spin : mtx[k].v = 0
  BY FiberAssumption
  DEF rumpuser_mutex_enter, Held, FiberInv, SpinOnCpu, OnCpu, FiberType
<1>3. m \notin Spin
  BY DEF rumpuser_mutex_enter
<1>4. CASE Free(m)
  <2>1. /\ mtx' = [mtx EXCEPT ![m] = [v |-> mtx[m].v + 1, o |-> me]]
        /\ UNCHANGED <<vcpu, frame>>
    BY <1>4 DEF rumpuser_mutex_enter, tryenter
  <2> USE <2>1
  <2>2. /\ mtx' \in [Mutex -> [v : Nat, o : Thread \cup {None}]]
        /\ mtx'[m].v # 0 /\ mtx'[m].o = me
        /\ \A k \in Mutex \ {m} : mtx'[k] = mtx[k]
    BY DEF FiberInv, FiberType
  <2>3. SpinOnCpu'
    BY <1>2, <1>3, <2>2, FiberAssumption DEF SpinOnCpu
  <2>4. VcpuOnCpu'
    BY DEF FiberInv, VcpuOnCpu, OnCpu
  <2>5. OwnersLive'
    BY <2>2, RumpThreadAssumption DEF FiberInv, OwnersLive, Tries
  <2> QED
    BY <2>2, <2>3, <2>4, <2>5, CallStep
    DEF FiberInv, FiberType, OthersKeepFrame, Tries
<1>5. CASE ~ Free(m)
  <2>1. vcpu' = None /\ Goto(<<"enter", m>>) /\ mtx' = mtx
    BY <1>5 DEF rumpuser_mutex_enter, rumpkern_unsched
  <2> USE <2>1
  <2>2. /\ frame' \in [Thread -> Frame] /\ frame'[me] = <<"enter", m>>
        /\ \A u \in Thread \ {me} : frame'[u] = frame[u]
    BY KindOfFrame, GotoEffect DEF FiberInv, FiberType, Goto
  <2>3. frame'[me][1] = "enter" /\ frame'[me][2] = m
    BY <2>2
  <2>4. VcpuOnCpu' /\ SpinOnCpu'
    BY <1>2, FiberAssumption DEF VcpuOnCpu, SpinOnCpu
  <2>5. OwnersLive'
    BY <1>5, <2>2, <2>3, AliveThreads
    DEF FiberInv, OwnersLive, Tries, Free
  <2> QED
    BY <2>2, <2>3, <2>4, <2>5, CallStep
    DEF FiberInv, FiberType, OthersKeepFrame, Tries
<1> QED
  BY <1>4, <1>5

LEMMA NowrapStep ==
  ASSUME TypeOK, Safety, FiberInv, NEW m \in Mutex, rumpuser_mutex_enter_nowrap(m)
  PROVE  FiberInv' /\ ~ panicked'
<1> DEFINE me == current_thread
<1>1. /\ cpu = "thread" /\ frame[me] = <<"run">> /\ frame[me][1] = "run"
      /\ me \in Thread /\ me \in Alive /\ ~ panicked
      /\ UNCHANGED <<vars, wqvars, nwaiters, vcpu, frame>>
      /\ UNCHANGED <<cpu, current_thread>> /\ Alive' = Alive
  BY CallerLive DEF rumpuser_mutex_enter_nowrap, In, TypeOK, vars, Alive
<1> USE <1>1
<1>2. m \in Spin /\ mtx[m].v = 0
  BY DEF rumpuser_mutex_enter_nowrap, FiberInv, SpinOnCpu, OnCpu, FiberType
<1>3. mtx' = [mtx EXCEPT ![m] = [v |-> mtx[m].v + 1, o |-> me]] /\ ~ panicked'
  BY <1>2 DEF rumpuser_mutex_enter_nowrap, Free, tryenter
<1>4. /\ mtx' \in [Mutex -> [v : Nat, o : Thread \cup {None}]]
      /\ mtx'[m].v # 0 /\ mtx'[m].o = me
      /\ \A k \in Mutex \ {m} : mtx'[k] = mtx[k]
  BY <1>3 DEF FiberInv, FiberType
<1>5. SpinOnCpu' /\ VcpuOnCpu'
  BY <1>4, FiberAssumption DEF FiberInv, SpinOnCpu, VcpuOnCpu, OnCpu
<1>6. OwnersLive'
  BY <1>4, RumpThreadAssumption DEF FiberInv, OwnersLive, Tries
<1>7. FiberInv'
  BY <1>4, <1>5, <1>6, CallStep
  DEF FiberInv, FiberType, OthersKeepFrame, Tries
<1> QED
  BY <1>3, <1>7

(* The asserts of rumpuser_mutex_destroy() and rumpuser_cv_destroy() hold. *)
LEMMA DestroyStep ==
  ASSUME TypeOK, Safety, FiberInv, NEW m \in Mutex, rumpuser_mutex_destroy(m)
  PROVE  FiberInv' /\ ~ panicked'
<1> DEFINE me == current_thread
<1>1. /\ cpu = "thread" /\ frame[me] = <<"run">> /\ frame[me][1] = "run"
      /\ me \in Thread /\ ~ panicked
      /\ UNCHANGED <<vars, wqvars, nwaiters, vcpu, frame>>
      /\ UNCHANGED <<cpu, current_thread>> /\ Alive' = Alive
      /\ ~ Used(m) /\ \A t \in Alive : m \notin Held(t)
  BY DEF rumpuser_mutex_destroy, In, TypeOK, vars, Alive
<1> USE <1>1
<1>2. waiters[m] = <<>>
  <2>1. ASSUME NEW t \in Alive, WaitsOn(t, m)
        PROVE  FALSE
    <3>1. frame[t] = <<"enter_wait", m>>
      BY <2>1, EnterFrame, AliveThreads DEF WaitsOn, FiberInv, FiberType
    <3>2. m \in Range(<<"enter_wait", m>>)
      BY DEF Range
    <3> QED
      BY <3>1, <3>2 DEF Used
  <2>2. Range(waiters[m]) = {}
    BY <2>1, FiberAssumption DEF FiberInv, WaitersLive
  <2> QED
    BY <2>2, EmptySet, FiberAssumption DEF FiberInv, FiberType, QueueType
<1>3. mtx[m].o = None /\ mtx[m].v = 0
  BY DEF Held, FiberInv, OwnersLive, FiberType
<1>4. mtx' = [mtx EXCEPT ![m] = [v |-> 0, o |-> None]] /\ ~ panicked'
  BY <1>2, <1>3 DEF rumpuser_mutex_destroy, rumpuser_mutex_owner
<1>5. /\ mtx' \in [Mutex -> [v : Nat, o : Thread \cup {None}]]
      /\ mtx'[m].v = 0 /\ mtx'[m].o = None
      /\ \A k \in Mutex \ {m} : mtx'[k] = mtx[k]
  BY <1>4 DEF FiberInv, FiberType
<1>6. SpinOnCpu' /\ VcpuOnCpu'
  BY <1>5, FiberAssumption DEF FiberInv, SpinOnCpu, VcpuOnCpu, OnCpu
<1>7. OwnersLive'
  BY <1>5 DEF FiberInv, OwnersLive, Tries
<1>8. FiberInv'
  BY <1>3, <1>5, <1>6, <1>7, CallStep
  DEF FiberInv, FiberType, OthersKeepFrame, Tries
<1> QED
  BY <1>4, <1>8

LEMMA CvDestroyStep ==
  ASSUME TypeOK, Safety, FiberInv, NEW c \in CV, rumpuser_cv_destroy(c)
  PROVE  FiberInv' /\ ~ panicked'
<1>1. /\ cpu = "thread" /\ frame[current_thread] = <<"run">>
      /\ frame[current_thread][1] = "run"
      /\ UNCHANGED <<vars, wqvars, mvars, vcpu, frame>> /\ ~ Used(c)
      /\ UNCHANGED <<cpu, current_thread, mtx, nwaiters>> /\ Alive' = Alive
  BY DEF rumpuser_cv_destroy, In, vars, mvars, Alive
<1>2. ASSUME NEW t \in Alive, InsideCv(t, c)
      PROVE  FALSE
  <2>1. frame[t] \in Frame
    BY AliveThreads DEF FiberInv, FiberType
  <2>2. PICK m \in Interlock, nsec \in Durations, wrap \in BOOLEAN,
              p \in {"cv_exit", "cv_wait"} : frame[t] = <<p, c, m, nsec, wrap>>
    BY <1>2, <2>1, FrameKinds DEF InsideCv
  <2>3. c \in Range(<<p, c, m, nsec, wrap>>)
    BY DEF Range
  <2> QED
    BY <1>1, <2>2, <2>3 DEF Used
<1>3. nwaiters[c] = 0
  <2>1. {t \in Alive : InsideCv(t, c)} = {}
    BY <1>2
  <2>2. nwaiters[c] = Cardinality({t \in Alive : InsideCv(t, c)})
    BY DEF FiberInv, WaitersCounted, InsideCv
  <2> QED
    BY <2>1, <2>2, FS_EmptySet
<1>4. ~ panicked'
  BY <1>3 DEF rumpuser_cv_destroy, rumpuser_cv_has_waiters
<1>5. VcpuOnCpu' /\ SpinOnCpu' /\ OwnersLive'
  BY <1>1 DEF FiberInv, VcpuOnCpu, SpinOnCpu, OwnersLive, OnCpu, Tries
<1>6. FiberInv'
  BY <1>1, <1>5, CallStep DEF FiberInv, FiberType, OthersKeepFrame, Tries
<1> QED
  BY <1>4, <1>6

(* The virtual CPU is given up, and back.                                  *)
LEMMA SleepReturnStep ==
  ASSUME TypeOK, Safety, FiberInv, clock_sleep_return, UNCHANGED mvars
  PROVE  FiberInv'
<1> DEFINE me == current_thread
<1>1. /\ cpu = "thread" /\ frame[me] = <<"sleep">> /\ frame[me][1] = "sleep"
      /\ me \in Thread
      /\ UNCHANGED <<vars, wqvars>> /\ vcpu' = me
      /\ frame' = [frame EXCEPT ![me] = <<"run">>]
      /\ UNCHANGED <<cpu, current_thread, mtx, nwaiters>> /\ Alive' = Alive
  BY DEF clock_sleep_return, In, Resume, rumpkern_sched, Goto, TypeOK, vars,
         mvars, Alive
<1> USE <1>1
<1>2. /\ frame' \in [Thread -> Frame] /\ frame'[me] = <<"run">>
      /\ \A u \in Thread \ {me} : frame'[u] = frame[u]
  BY KindOfFrame, GotoEffect DEF FiberInv, FiberType
<1>3. frame'[me][1] = "run"
  BY <1>2
<1>4. VcpuOnCpu' /\ SpinOnCpu'
  BY <1>3 DEF FiberInv, VcpuOnCpu, SpinOnCpu, OnCpu
<1>5. OwnersLive'
  BY <1>2, <1>3, AliveThreads DEF FiberInv, OwnersLive, Tries
<1> QED
  BY <1>2, <1>3, <1>4, <1>5, CallStep
  DEF FiberInv, FiberType, OthersKeepFrame, Tries

(* A call that blocks the running thread, with no spin mutex and without   *)
(* the virtual CPU, outside all queues.                                    *)
LEMMA SleepStep ==
  ASSUME TypeOK, Safety, FiberInv, Held(current_thread) \cap Spin = {},
         NEW nsec \in Durations, rumpuser_clock_sleep(nsec), UNCHANGED mvars
  PROVE  FiberInv'
<1> DEFINE me == current_thread
<1>5. \A k \in Spin : mtx[k].v = 0
  <2>1. \A k \in Spin : k \in Mutex /\ k \notin Held(me)
    BY FiberAssumption
  <2>2. \A k \in Spin : ~ (mtx[k].v > 0 /\ mtx[k].o = me)
    BY <2>1, Zenon DEF Held
  <2> QED
    BY <2>2, HeldByCaller, Zenon
<1>1. /\ cpu = "thread" /\ frame[me] = <<"run">> /\ frame[me][1] = "run"
      /\ me \in Thread /\ vcpu' = None
      /\ UNCHANGED <<wqvars, mtx, nwaiters>>
      /\ bmk_sched_nanosleep(nsec)
      /\ frame' = [frame EXCEPT ![me] = <<"sleep">>]
  BY DEF rumpuser_clock_sleep, Running, In, Goto, TypeOK, mvars, rumpkern_unsched
<1> USE <1>1
<1>2. /\ Alive' = Alive /\ current_thread' = me /\ Alive \subseteq Thread
      /\ \A u \in Thread \ {me} : bt'[u] = bt[u]
  BY BlockEffect, AliveThreads
<1> USE <1>2
<1>3. /\ frame' \in [Thread -> Frame] /\ frame'[me] = <<"sleep">>
      /\ \A u \in Thread \ {me} : frame'[u] = frame[u]
  BY KindOfFrame, GotoEffect DEF FiberInv, FiberType
<1> USE <1>3
<1>4. frame'[me][1] = "sleep"
  OBVIOUS
<1>6. VcpuOnCpu' /\ SpinOnCpu'
  BY <1>5, NothingHeld
<1>7. OwnersLive'
  BY <1>4 DEF FiberInv, OwnersLive, Tries
<1>8. \A t \in Thread : \A h : /\ WaitsOn(t, h)' <=> WaitsOn(t, h)
                               /\ InsideCv(t, h)' <=> InsideCv(t, h)
                               /\ Tries(t, h)' <=> Tries(t, h)
  BY <1>4 DEF WaitsOn, InsideCv, Tries
<1>9. QueueType' /\ WaitersLive'
  <2>1. \A h : ~ WaitsOn(me, h)
    BY DEF WaitsOn
  <2> QED
    BY <1>8, <2>1, QuietStep DEF FiberInv, FiberType
<1>10. WaitersCounted'
  BY <1>8, CountedSame DEF FiberInv
<1>11. HandedOver'
  <2>1. \A m : ~ Tries(me, m)
    BY DEF Tries
  <2> QED
    BY <1>8, <2>1 DEF FiberInv, HandedOver, wqvars
<1> QED
  BY <1>6, <1>7, <1>9, <1>10, <1>11 DEF FiberInv, FiberType

LEMMA CreateStep ==
  ASSUME TypeOK, Safety, FiberInv, NEW t \in Thread, rumpuser_thread_create(t),
         UNCHANGED mvars
  PROVE  FiberInv'
<1>1. /\ cpu = "thread" /\ cpu' = cpu /\ current_thread' = current_thread
      /\ UNCHANGED <<wqvars, mtx, nwaiters, vcpu>> /\ bmk_sched_create(t)
      /\ frame' = [frame EXCEPT ![t] = <<"run">>]
  BY DEF rumpuser_thread_create, Running, In, bmk_sched_create, mvars
<1> USE <1>1
<1>2. /\ t \notin Alive /\ Alive' = Alive \cup {t} /\ Alive \subseteq Thread
      /\ \A u \in Thread \ {t} : bt'[u] = bt[u]
      /\ current_thread \in Alive
  BY CreateEffect, AliveThreads, CallerLive
<1> USE <1>2
<1>3. /\ frame' \in [Thread -> Frame] /\ frame'[t] = <<"run">>
      /\ \A u \in Thread \ {t} : frame'[u] = frame[u]
  BY KindOfFrame, GotoEffect DEF FiberInv, FiberType
<1> USE <1>3
<1>4. frame'[t][1] = "run"
  OBVIOUS
<1>5. VcpuOnCpu' /\ SpinOnCpu'
  <2>1. frame'[current_thread][1] = "run"
    BY DEF rumpuser_thread_create, Running, In
  <2> QED
    BY <2>1, HeldByCaller, HeldByRunner
<1>6. OwnersLive'
  BY DEF FiberInv, OwnersLive, Tries
<1>7. \A u \in Alive : \A h : /\ WaitsOn(u, h)' <=> WaitsOn(u, h)
                              /\ InsideCv(u, h)' <=> InsideCv(u, h)
                              /\ Tries(u, h)' <=> Tries(u, h)
  BY DEF WaitsOn, InsideCv, Tries
<1>8. \A h : ~ WaitsOn(t, h)' /\ ~ InsideCv(t, h)'
  BY <1>4 DEF WaitsOn, InsideCv
<1>9. QueueType' /\ WaitersLive'
  BY <1>7, <1>8, QuietStep DEF FiberInv, FiberType
<1>10. WaitersCounted'
  BY <1>7, <1>8, CountedSame DEF FiberInv
<1>11. HandedOver'
  BY <1>7 DEF FiberInv, HandedOver, wqvars
<1> QED
  BY <1>5, <1>6, <1>9, <1>10, <1>11 DEF FiberInv, FiberType

LEMMA ExitStep ==
  ASSUME TypeOK, Safety, FiberInv, Held(current_thread) = {},
         rumpuser_thread_exit, UNCHANGED mvars
  PROVE  FiberInv'
<1> DEFINE me == current_thread
<1>1. /\ cpu = "thread" /\ current_thread' = me /\ bmk_sched_exit
      /\ UNCHANGED <<wqvars, mtx, nwaiters, vcpu, frame>>
      /\ frame[me] = <<"run">> /\ frame[me][1] = "run" /\ vcpu # me
  BY DEF rumpuser_thread_exit, In, bmk_sched_exit, mvars, rvars
<1> USE <1>1
<1>2. /\ Alive' = Alive \ {me} /\ Alive \subseteq Thread
      /\ \A u \in Thread \ {me} : bt'[u] = bt[u]
  BY ExitEffect, AliveThreads
<1> USE <1>2
<1>3. \A m \in Mutex : mtx[m].o # me
  BY RumpThreadAssumption DEF FiberInv, OwnersLive, Held, FiberType, TypeOK
<1>4. vcpu = None /\ \A m \in Spin : mtx[m].v = 0
  BY <1>3, HeldByCaller, FiberAssumption
<1>5. VcpuOnCpu' /\ SpinOnCpu'
  BY <1>4, FiberAssumption DEF VcpuOnCpu, SpinOnCpu
<1>6. OwnersLive'
  BY <1>3 DEF FiberInv, OwnersLive, Tries
<1>7. \A u \in Thread : \A h : /\ WaitsOn(u, h)' <=> WaitsOn(u, h)
                               /\ InsideCv(u, h)' <=> InsideCv(u, h)
                               /\ Tries(u, h)' <=> Tries(u, h)
  BY DEF WaitsOn, InsideCv, Tries
<1>8. \A h : ~ WaitsOn(me, h) /\ ~ InsideCv(me, h) /\ ~ Tries(me, h)
  BY DEF WaitsOn, InsideCv, Tries
<1>9. QueueType' /\ WaitersLive'
  BY <1>7, <1>8, QuietStep DEF FiberInv, FiberType
<1>10. WaitersCounted'
  BY <1>7, <1>8, CountedSame DEF FiberInv
<1>11. HandedOver'
  BY <1>7, <1>8 DEF FiberInv, HandedOver, wqvars
<1> QED
  BY <1>5, <1>6, <1>9, <1>10, <1>11 DEF FiberInv, FiberType

(* The scheduler, hlt, the clock and interrupts.                           *)
LEMMA SchedulerStep ==
  ASSUME TypeOK, Safety, FiberInv, UNCHANGED <<wqvars, rvars, mvars>>,
         bmk_sched \/ nanohlt_return \/ Tick \/ \E t \in Thread : Wake(t)
  PROVE  FiberInv'
<1>1. UNCHANGED <<waiters, onlist, vcpu, frame, mtx, nwaiters>>
  BY DEF wqvars, rvars, mvars
<1> USE <1>1
<1>2. /\ Alive' = Alive /\ \A t \in Alive : bt[t].runnable => bt'[t].runnable
      /\ cpu = "thread" => cpu' = cpu /\ current_thread' = current_thread
  BY SchedulerKeeps
<1> USE <1>2
<1>3. VcpuOnCpu' /\ SpinOnCpu'
  BY DEF FiberInv, VcpuOnCpu, SpinOnCpu, OnCpu
<1>4. OwnersLive' /\ HandedOver'
  BY DEF FiberInv, OwnersLive, HandedOver, Tries
<1>5. QueueType' /\ WaitersLive'
  BY QuietStep DEF FiberInv, FiberType, WaitsOn, wqvars
<1>6. WaitersCounted'
  BY CountedSame DEF FiberInv, InsideCv
<1> QED
  BY <1>3, <1>4, <1>5, <1>6 DEF FiberInv, FiberType

-----------------------------------------------------------------------------
(* The steps around wait().                                                *)

(* Whoever is inside a blocking call has released the virtual CPU, and     *)
(* while it runs nobody has a spin mutex.                                  *)
LEMMA InsideCall ==
  ASSUME TypeOK, FiberInv,
         frame[current_thread][1] \in {"enter", "enter_wait", "cv_exit", "cv_wait"}
  PROVE  vcpu = None /\ \A m \in Spin : mtx[m].v = 0
BY FiberAssumption DEF FiberInv, VcpuOnCpu, SpinOnCpu, OnCpu, FiberType

(* The thread blocks in wait(), on queue h.                                *)
LEMMA BlockStep ==
  ASSUME TypeOK, Safety, FiberInv, NEW h \in WaitHead, NEW nsec \in Durations,
         wait(h, nsec), UNCHANGED <<mvars, vcpu>>, OthersKeepFrame,
         frame' \in [Thread -> Frame],
         \/ frame[current_thread][1] = "enter" /\ frame'[current_thread][1] = "enter_wait"
         \/ frame[current_thread][1] = "cv_exit" /\ frame'[current_thread][1] = "cv_wait",
         frame[current_thread][2] = h /\ frame'[current_thread][2] = h,
         h \in Mutex => mtx[h].v # 0
  PROVE  FiberInv' /\ Wait(nsec)
<1> DEFINE me == current_thread
<1>1. vcpu = None /\ \A m \in Spin : mtx[m].v = 0
  BY InsideCall
<1>2. me \in Thread /\ Wait(nsec) /\ UNCHANGED <<mtx, nwaiters, vcpu>>
  BY DEF TypeOK, wait, wait_block, mvars
<1>a. vcpu' = None /\ \A m \in Spin : mtx'[m].v = 0
  BY <1>1, <1>2
<1> USE <1>2
<1>3. /\ Alive' = Alive /\ current_thread' = me /\ Alive \subseteq Thread
      /\ \A u \in Thread \ {me} : bt'[u] = bt[u]
  BY BlockEffect, AliveThreads
<1> USE <1>3
<1>4. /\ \A k : ~ WaitsOn(me, k) /\ (frame'[me][1] \in {"enter_wait", "cv_wait"}
                                     /\ frame'[me][2] = k <=> k = h)
      /\ \A t \in Thread : \A k : /\ InsideCv(t, k)' <=> InsideCv(t, k)
                                  /\ Tries(t, k)' <=> Tries(t, k)
      /\ \A k \in Mutex : Tries(me, k) => k = h
  BY DEF WaitsOn, InsideCv, Tries, OthersKeepFrame
<1> USE <1>4
<1>5. /\ QueueType' /\ WaitersLive'
      /\ \A k \in WaitHead \ {h} : waiters'[k] = waiters[k]
  <2>1. \A k \in WaitHead : WaitsOn(current_thread, k)' <=> k = h
    BY DEF WaitsOn
  <2>2. QueueInv
    BY DEF QueueInv, FiberInv, FiberType
  <2> QED
    BY <2>1, <2>2, WaitStep
<1>6. VcpuOnCpu' /\ SpinOnCpu'
  BY <1>a, NothingHeld, Zenon
<1>7. OwnersLive'
  BY DEF FiberInv, OwnersLive
<1>8. HandedOver'
  <2>1. ASSUME NEW m \in Mutex, mtx'[m].v = 0, waiters'[m] # <<>>
        PROVE  \E t \in Alive' : bt'[t].runnable /\ Tries(t, m)'
    <3>1. m # h /\ m \in WaitHead
      BY <2>1, FiberAssumption
    <3>2. mtx[m].v = 0 /\ waiters[m] # <<>> /\ ~ Tries(me, m)
      BY <1>5, <2>1, <3>1
    <3> QED
      BY <3>2 DEF FiberInv, HandedOver
  <2> QED
    BY <2>1 DEF HandedOver
<1>9. WaitersCounted'
  BY CountedSame DEF FiberInv
<1> QED
  BY <1>5, <1>6, <1>7, <1>8, <1>9 DEF FiberInv, FiberType

LEMMA LoopStep ==
  ASSUME TypeOK, Safety, FiberInv, NEW m \in Mutex, mutex_enter_loop(m)
  PROVE  FiberInv' /\ [Next]_vars
<1> DEFINE me == current_thread
<1>1. /\ cpu = "thread" /\ frame[me] = <<"enter", m>>
      /\ me \in Thread /\ me \in Alive
      /\ frame[me][1] = "enter" /\ frame[me][2] = m
  <2>1. cpu = "thread" /\ frame[me] = <<"enter", m>>
    BY DEF mutex_enter_loop, In
  <2> QED
    BY <2>1, CallerLive DEF TypeOK
<1> USE <1>1
<1>2. vcpu = None /\ \A k \in Spin : mtx[k].v = 0
  BY InsideCall
<1>3. CASE Free(m)
  <2>1. /\ mtx' = [mtx EXCEPT ![m] = [v |-> mtx[m].v + 1, o |-> me]]
        /\ vcpu' = me /\ frame' = [frame EXCEPT ![me] = <<"run">>]
        /\ UNCHANGED <<vars, wqvars, nwaiters>>
        /\ UNCHANGED <<cpu, current_thread>> /\ Alive' = Alive
    BY <1>3 DEF mutex_enter_loop, tryenter, Resume, rumpkern_sched, Goto, vars, Alive
  <2> USE <2>1
  <2>2. /\ mtx' \in [Mutex -> [v : Nat, o : Thread \cup {None}]]
        /\ mtx'[m].v # 0 /\ mtx'[m].o = me
        /\ \A k \in Mutex \ {m} : mtx'[k] = mtx[k]
    BY DEF FiberInv, FiberType
  <2>3. /\ frame' \in [Thread -> Frame] /\ frame'[me] = <<"run">>
        /\ \A u \in Thread \ {me} : frame'[u] = frame[u]
    BY KindOfFrame, GotoEffect DEF FiberInv, FiberType
  <2>4. frame'[me][1] = "run"
    BY <2>3
  <2>5. VcpuOnCpu' /\ SpinOnCpu'
    BY <1>2, <2>2, <2>4, FiberAssumption, HeldByRunner
  <2>6. OwnersLive'
    BY <2>2, <2>3, <2>4, RumpThreadAssumption, AliveThreads
    DEF FiberInv, OwnersLive, Tries
  <2>7. FiberInv'
    BY <2>2, <2>3, <2>4, <2>5, <2>6, CallStep
    DEF OthersKeepFrame, Tries
  <2> QED
    BY <2>7
<1>4. CASE ~ Free(m)
  <2>1. /\ wait(m, 0) /\ frame' = [frame EXCEPT ![me] = <<"enter_wait", m>>]
        /\ UNCHANGED <<mvars, vcpu>>
    BY <1>4 DEF mutex_enter_loop, Goto, mvars
  <2>2. /\ frame' \in [Thread -> Frame] /\ frame'[me] = <<"enter_wait", m>>
        /\ \A u \in Thread \ {me} : frame'[u] = frame[u]
    BY <2>1, KindOfFrame, GotoEffect DEF FiberInv, FiberType
  <2>3. frame'[me][1] = "enter_wait" /\ frame'[me][2] = m
    BY <2>2
  <2>4. m \in WaitHead /\ 0 \in Durations /\ mtx[m].v # 0
    BY <1>4, FiberAssumption, TimeAssumption DEF Durations, Free
  <2>5. FiberInv' /\ Wait(0)
    BY <2>1, <2>2, <2>3, <2>4, BlockStep DEF OthersKeepFrame
  <2> QED
    BY <2>4, <2>5 DEF Next, Yield
<1> QED
  BY <1>3, <1>4

LEMMA CvBeginStep ==
  ASSUME TypeOK, Safety, FiberInv, NEW c \in CV, NEW m \in Mutex,
         NEW nsec \in Durations, NEW wrap \in BOOLEAN,
         cv_wait_begin(c, m, nsec, wrap)
  PROVE  FiberInv' /\ [Next]_vars
<1> DEFINE me == current_thread
           f == <<"cv_exit", c, m, nsec, wrap>>
           g == <<"cv_wait", c, m, nsec, wrap>>
<1>1. /\ cpu = "thread" /\ frame[me] = f /\ me \in Thread
      /\ wait(c, nsec) /\ frame' = [frame EXCEPT ![me] = g]
      /\ UNCHANGED <<mvars, vcpu>>
      /\ frame[me][1] = "cv_exit" /\ frame[me][2] = c
  <2>1. In(f) /\ wait(c, nsec) /\ Goto(g) /\ UNCHANGED <<mtx, nwaiters, vcpu>>
    BY DEF cv_wait_begin
  <2>2. frame[me] = f /\ cpu = "thread" /\ me \in Thread
    BY <2>1 DEF In, TypeOK
  <2> QED
    BY <2>1, <2>2 DEF Goto, mvars
<1>2. m \in Interlock
  <2>1. f \in Frame
    BY <1>1 DEF FiberInv, FiberType
  <2> QED
    BY <2>1, FrameKinds
<1>3. g \in Frame
  BY <1>2, KindOfFrame
<1>4. /\ frame' \in [Thread -> Frame] /\ frame'[me] = g
      /\ \A u \in Thread \ {me} : frame'[u] = frame[u]
  BY <1>1, <1>3, GotoEffect DEF FiberInv, FiberType
<1>5. frame'[me][1] = "cv_wait" /\ frame'[me][2] = c
  BY <1>4
<1>6. c \in WaitHead /\ c \notin Mutex
  BY FiberAssumption
<1>7. FiberInv' /\ Wait(nsec)
  BY <1>1, <1>4, <1>5, <1>6, BlockStep DEF OthersKeepFrame
<1> QED
  BY <1>7 DEF Next, Yield

LEMMA WokenStep ==
  ASSUME TypeOK, Safety, FiberInv, NEW m \in Mutex, mutex_enter_woken(m)
  PROVE  FiberInv'
<1> DEFINE me == current_thread
<1>1. /\ cpu = "thread" /\ frame[me] = <<"enter_wait", m>> /\ me \in Thread
      /\ frame[me][1] = "enter_wait" /\ frame[me][2] = m
      /\ wait_return(m) /\ frame' = [frame EXCEPT ![me] = <<"enter", m>>]
      /\ UNCHANGED <<vars, mtx, nwaiters, vcpu>>
  BY DEF mutex_enter_woken, In, Goto, TypeOK
<1> USE <1>1
<1>2. /\ frame' \in [Thread -> Frame] /\ frame'[me] = <<"enter", m>>
      /\ \A u \in Thread \ {me} : frame'[u] = frame[u]
  BY KindOfFrame, GotoEffect DEF FiberInv, FiberType
<1> USE <1>2
<1>3. frame'[me][1] = "enter" /\ frame'[me][2] = m
  OBVIOUS
<1>4. /\ Alive' = Alive /\ current_thread' = me /\ bt' = bt /\ Alive \subseteq Thread
      /\ me \in Alive /\ bt[me].runnable /\ cpu' = cpu
  BY CallerLive, AliveThreads DEF vars, Alive
<1> USE <1>4
<1>5. \A t \in Thread : \A k : /\ InsideCv(t, k)' <=> InsideCv(t, k)
                               /\ Tries(t, k)' <=> Tries(t, k)
  BY <1>3 DEF InsideCv, Tries
<1> USE <1>5
<1>6. /\ QueueType' /\ WaitersLive'
      /\ \A k \in WaitHead \ {m} : waiters'[k] = waiters[k]
  <2>1. \A k \in WaitHead : WaitsOn(me, k) <=> k = m
    BY DEF WaitsOn
  <2>2. \A k \in WaitHead : ~ WaitsOn(current_thread, k)'
    BY <1>3 DEF WaitsOn
  <2>3. QueueInv /\ m \in WaitHead
    BY FiberAssumption DEF QueueInv, FiberInv, FiberType
  <2> QED
    BY <2>1, <2>2, <2>3, ReturnStep DEF OthersKeepFrame
<1>7. VcpuOnCpu' /\ SpinOnCpu'
  BY InsideCall, NothingHeld
<1>8. OwnersLive'
  BY DEF FiberInv, OwnersLive
<1>9. HandedOver'
  <2>1. Tries(me, m)
    BY DEF Tries
  <2>2. ASSUME NEW k \in Mutex, mtx'[k].v = 0, waiters'[k] # <<>>
        PROVE  \E t \in Alive' : bt'[t].runnable /\ Tries(t, k)'
    <3>1. CASE k = m
      BY <2>1, <3>1
    <3>2. CASE k # m
      <4>1. mtx[k].v = 0 /\ waiters[k] # <<>>
        BY <1>6, <2>2, <3>2, FiberAssumption
      <4> QED
        BY <4>1 DEF FiberInv, HandedOver
    <3> QED
      BY <3>1, <3>2
  <2> QED
    BY <2>2 DEF HandedOver
<1>10. WaitersCounted'
  BY CountedSame DEF FiberInv
<1> QED
  BY <1>6, <1>7, <1>8, <1>9, <1>10 DEF FiberInv, FiberType
=============================================================================
