---------------------------- MODULE RwLockProofs ----------------------------
(***************************************************************************)
(* Proofs about the reader/writer lock, for any number of threads: no      *)
(* wakeup is lost, the lock knows how many threads hold it, and it loses   *)
(* its exclusion only in the two ways the model records.                   *)
(***************************************************************************)
EXTENDS RwLock, SchedProofs

-----------------------------------------------------------------------------
(* The inductive invariant.                                                *)

RwFrame ==
  {<<"run">>, <<"sleep">>, <<"wakeup_all">>}
    \cup {<<p, h>> : p \in {"enter", "enter_wait"}, h \in WaitHead}

LockType ==
  /\ rw \in [v : Int, o : Thread \cup {None}]
  /\ hold \in [Thread -> Kind \cup {"none"}]

RwType ==
  /\ QueueType
  /\ frame \in [Thread -> RwFrame]
  /\ vcpu \in Thread \cup {None}
  /\ LockType

(* The virtual CPU, and the loop that wakes the readers, are with the      *)
(* thread that runs.                                                       *)
OnCpu ==
  /\ vcpu # None => /\ cpu = "thread" /\ current_thread = vcpu
                    /\ frame[vcpu][1] \in {"run", "wakeup_all"}
  /\ \A t \in Thread :
       frame[t][1] = "wakeup_all" => cpu = "thread" /\ current_thread = t

(* A thread that wants the lock, or is dead, does not hold it.             *)
Holds ==
  \A t \in Thread :
    t \notin Alive \/ frame[t][1] \in {"enter", "enter_wait"} => hold[t] = "none"

(* Thread t is in the loop of rumpuser_rw_enter() for queue h.             *)
Tries(t, h) == frame[t][1] \in {"enter", "enter_wait"} /\ frame[t][2] = h

WriterTries == \E t \in Alive : bt[t].runnable /\ Tries(t, wwait)

HandedOn ==
  rw.o = None =>
    /\ waiters[wwait] # <<>> => WriterTries
    /\ waiters[wwait] = <<>> /\ waiters[rwait] # <<>> =>
         WriterTries \/ frame[current_thread][1] = "wakeup_all"

RwQueues == RwType /\ WaitersLive /\ OnCpu /\ Holds /\ HandedOn

(* As long as there was no overlap and no downgrade, a live thread owns    *)
(* the lock.                                                               *)
OwnerLive == ~ overlap /\ ~ downgraded => rw.o \in Alive \cup {None}

RwLocked == HoldersCounted /\ WriterExcludes /\ OwnerLive

-----------------------------------------------------------------------------
(* Frames.                                                                 *)

LEMMA RwFrames ==
  /\ <<"run">> \in RwFrame /\ <<"sleep">> \in RwFrame /\ <<"wakeup_all">> \in RwFrame
  /\ \A h \in WaitHead : <<"enter", h>> \in RwFrame /\ <<"enter_wait", h>> \in RwFrame
BY DEF RwFrame

LEMMA RwFrameKinds ==
  ASSUME NEW f \in RwFrame
  PROVE  \/ f \in {<<"run">>, <<"sleep">>, <<"wakeup_all">>}
         \/ \E h \in WaitHead : f = <<"enter", h>> \/ f = <<"enter_wait", h>>
BY DEF RwFrame

LEMMA QueueOf ==
  ASSUME NEW lk \in Kind
  PROVE  /\ Queue(lk) \in WaitHead
         /\ lk = "writer" => Queue(lk) = wwait
         /\ lk # "writer" => Queue(lk) = rwait /\ lk = "reader"
BY RwAssumption DEF Queue, Kind

-----------------------------------------------------------------------------
(* The queues: one lemma for each call, or part of a call.                 *)

(* A call of the running thread that neither blocks nor wakes anybody.     *)
LEMMA QuietCall ==
  ASSUME TypeOK, Safety, RwQueues, cpu = "thread", UNCHANGED <<vars, wqvars>>,
         OthersKeepFrame, frame' \in [Thread -> RwFrame], LockType',
         vcpu' = None \/ (vcpu' = current_thread /\ frame'[current_thread][1] = "run"),
         \A t \in Thread \ {current_thread} : hold'[t] = hold[t],
         frame'[current_thread][1] = "enter" => hold'[current_thread] = "none",
         frame[current_thread][1] \notin {"enter_wait", "wakeup_all"},
         frame'[current_thread][1] \notin {"enter_wait", "cv_wait", "wakeup_all"},
         rw'.o = None =>
           \/ waiters[wwait] = <<>> /\ waiters[rwait] = <<>>
           \/ rw.o = None /\ ~ Tries(current_thread, wwait)
  PROVE  RwQueues'
<1> DEFINE me == current_thread
<1>1. /\ Alive' = Alive /\ bt' = bt /\ current_thread' = me /\ cpu' = cpu
      /\ waiters' = waiters /\ onlist' = onlist
      /\ Alive \subseteq Thread /\ me \in Alive
  BY AliveThreads, CallerLive DEF vars, wqvars, Alive
<1> USE <1>1
<1>2. frame[me][1] # "cv_wait"
  BY RwFrameKinds DEF RwQueues, RwType
<1>3. \A t \in Thread : \A h : WaitsOn(t, h)' <=> WaitsOn(t, h)
  BY <1>2 DEF WaitsOn, OthersKeepFrame
<1>4. QueueType' /\ WaitersLive'
  BY <1>3, QuietStep DEF RwQueues, RwType
<1>5. OnCpu'
  BY DEF RwQueues, OnCpu, OthersKeepFrame
<1>6. Holds'
  BY DEF RwQueues, Holds, OthersKeepFrame
<1>7. HandedOn'
  <2>1. CASE waiters[wwait] = <<>> /\ waiters[rwait] = <<>>
    BY <2>1 DEF HandedOn
  <2>2. CASE rw.o = None /\ ~ Tries(me, wwait)
    <3>1. WriterTries => WriterTries'
      BY <2>2 DEF WriterTries, Tries, OthersKeepFrame
    <3> QED
      BY <2>2, <3>1 DEF RwQueues, HandedOn
  <2> QED
    BY <2>1, <2>2 DEF HandedOn
<1> QED
  BY <1>4, <1>5, <1>6, <1>7 DEF RwQueues, RwType

LEMMA TryenterType ==
  ASSUME LockType, current_thread \in Thread, NEW lk \in Kind,
         rumpuser_rw_tryenter(lk)
  PROVE  /\ LockType' /\ hold'[current_thread] = lk
         /\ \A t \in Thread \ {current_thread} : hold'[t] = hold[t]
         /\ rw'.o = None => rw.o = None /\ lk = "reader"
<1>1. CASE lk = "writer"
  BY <1>1, RumpThreadAssumption DEF LockType, rumpuser_rw_tryenter
<1>2. CASE lk # "writer"
  BY <1>2, RumpThreadAssumption DEF LockType, rumpuser_rw_tryenter, Kind
<1> QED
  BY <1>1, <1>2

LEMMA EnterQueues ==
  ASSUME TypeOK, Safety, RwQueues, NEW lk \in Kind, rumpuser_rw_enter(lk)
  PROVE  RwQueues'
<1> DEFINE me == current_thread
<1>1. /\ cpu = "thread" /\ frame[me] = <<"run">> /\ frame[me][1] = "run"
      /\ me \in Thread /\ UNCHANGED <<vars, wqvars>> /\ LockType
      /\ vcpu = me /\ hold[me] = "none"
  BY DEF rumpuser_rw_enter, Running, In, TypeOK, RwQueues, RwType
<1> USE <1>1
<1>2. CASE Free(lk)
  <2>1. rumpuser_rw_tryenter(lk) /\ UNCHANGED <<vcpu, frame>>
    BY <1>2 DEF rumpuser_rw_enter
  <2>2. /\ LockType' /\ \A t \in Thread \ {me} : hold'[t] = hold[t]
        /\ rw'.o = None => rw.o = None
    BY <2>1, TryenterType
  <2>3. OthersKeepFrame /\ frame' \in [Thread -> RwFrame] /\ frame'[me][1] = "run"
        /\ ~ Tries(me, wwait)
    BY <2>1 DEF RwQueues, RwType, OthersKeepFrame, Tries
  <2> QED
    BY <2>1, <2>2, <2>3, QuietCall
<1>3. CASE ~ Free(lk)
  <2>1. /\ vcpu' = None /\ frame' = [frame EXCEPT ![me] = <<"enter", Queue(lk)>>]
        /\ rw' = rw /\ hold' = hold
    BY <1>3 DEF rumpuser_rw_enter, rumpkern_unsched, Goto, lvars
  <2>2. /\ frame' \in [Thread -> RwFrame] /\ frame'[me] = <<"enter", Queue(lk)>>
        /\ \A u \in Thread \ {me} : frame'[u] = frame[u]
    BY <2>1, QueueOf, RwFrames, GotoEffect DEF RwQueues, RwType
  <2>3. frame'[me][1] = "enter" /\ OthersKeepFrame /\ LockType'
    BY <2>1, <2>2 DEF OthersKeepFrame, LockType
  <2>4. ~ Tries(me, wwait)
    BY DEF Tries
  <2> QED
    BY <2>1, <2>2, <2>3, <2>4, QuietCall
<1> QED
  BY <1>2, <1>3

(* Whoever is in the loop has released the virtual CPU.                    *)
LEMMA InsideLoop ==
  ASSUME TypeOK, RwQueues, frame[current_thread][1] \in {"enter", "enter_wait"}
  PROVE  vcpu = None /\ \A t \in Thread : frame[t][1] # "wakeup_all"
BY DEF RwQueues, OnCpu, RwType

LEMMA LoopQueues ==
  ASSUME TypeOK, Safety, RwQueues, NEW lk \in Kind, rw_enter_loop(lk)
  PROVE  RwQueues' /\ [Next]_vars
<1> DEFINE me == current_thread
           h == Queue(lk)
<1>1. /\ cpu = "thread" /\ frame[me] = <<"enter", h>>
      /\ frame[me][1] = "enter" /\ frame[me][2] = h
      /\ me \in Thread /\ LockType /\ h \in WaitHead
  BY QueueOf DEF rw_enter_loop, In, TypeOK, RwQueues, RwType
<1> USE <1>1
<1>2. vcpu = None /\ \A t \in Thread : frame[t][1] # "wakeup_all"
  BY InsideLoop
<1>3. CASE Free(lk)
  <2>1. /\ rumpuser_rw_tryenter(lk) /\ vcpu' = me
        /\ frame' = [frame EXCEPT ![me] = <<"run">>] /\ UNCHANGED <<vars, wqvars>>
    BY <1>3 DEF rw_enter_loop, Resume, rumpkern_sched, Goto
  <2> USE <2>1
  <2>2. /\ LockType' /\ \A t \in Thread \ {me} : hold'[t] = hold[t]
        /\ rw'.o = None => rw.o = None /\ lk = "reader"
    BY TryenterType
  <2>3. /\ frame' \in [Thread -> RwFrame] /\ frame'[me] = <<"run">>
        /\ \A u \in Thread \ {me} : frame'[u] = frame[u]
    BY RwFrames, GotoEffect DEF RwQueues, RwType
  <2>4. frame'[me][1] = "run" /\ OthersKeepFrame
    BY <2>3 DEF OthersKeepFrame
  <2>5. lk = "reader" => ~ Tries(me, wwait)
    BY RwAssumption DEF Tries, Queue
  <2>6. RwQueues'
    BY <2>2, <2>3, <2>4, <2>5, QuietCall
  <2> QED
    BY <2>6
<1>4. CASE ~ Free(lk)
  <2>1. /\ wait(h, 0) /\ frame' = [frame EXCEPT ![me] = <<"enter_wait", h>>]
        /\ vcpu' = vcpu /\ rw' = rw /\ hold' = hold
    BY <1>4 DEF rw_enter_loop, Goto, lvars
  <2> USE <2>1
  <2>2. /\ frame' \in [Thread -> RwFrame] /\ frame'[me] = <<"enter_wait", h>>
        /\ \A u \in Thread \ {me} : frame'[u] = frame[u]
    BY RwFrames, GotoEffect DEF RwQueues, RwType
  <2> USE <2>2
  <2>3. frame'[me][1] = "enter_wait" /\ frame'[me][2] = h /\ OthersKeepFrame
    BY DEF OthersKeepFrame
  <2> USE <2>3
  <2>4. 0 \in Durations /\ Wait(0)
    BY TimeAssumption DEF Durations, wait, wait_block
  <2>5. /\ Alive' = Alive /\ current_thread' = me /\ Alive \subseteq Thread
        /\ \A u \in Thread \ {me} : bt'[u] = bt[u]
    BY <2>4, BlockEffect, AliveThreads
  <2>6. /\ QueueType' /\ WaitersLive'
        /\ \A k \in WaitHead \ {h} : waiters'[k] = waiters[k]
    <3>1. QueueInv
      BY DEF QueueInv, RwQueues, RwType
    <3>2. \A k \in WaitHead : ~ WaitsOn(me, k)
      BY DEF WaitsOn
    <3>3. \A k \in WaitHead : WaitsOn(current_thread, k)' <=> k = h
      BY <2>5 DEF WaitsOn
    <3> QED
      BY <2>4, <3>1, <3>2, <3>3, WaitStep
  <2>7. OnCpu'
    BY <1>2 DEF OnCpu
  <2>8. Holds'
    BY <2>5 DEF RwQueues, Holds
  <2>9. HandedOn'
    <3>1. CASE rw.o # None
      BY <3>1 DEF HandedOn
    <3>2. CASE rw.o = None
      <4>1. h = rwait /\ waiters[wwait] # <<>>
        BY <1>4, <3>2, QueueOf DEF Free
      <4>2. waiters'[wwait] = waiters[wwait] /\ ~ Tries(me, wwait)
        BY <2>6, <4>1, RwAssumption DEF Tries
      <4>3. WriterTries
        BY <3>2, <4>1 DEF RwQueues, HandedOn
      <4>4. WriterTries'
        BY <2>5, <4>2, <4>3 DEF WriterTries, Tries
      <4> QED
        BY <4>1, <4>2, <4>4 DEF HandedOn
    <3> QED
      BY <3>1, <3>2
  <2>10. RwQueues'
    BY <2>6, <2>7, <2>8, <2>9 DEF RwQueues, RwType, LockType
  <2> QED
    BY <2>4, <2>10 DEF Next, Yield
<1> QED
  BY <1>3, <1>4

LEMMA WokenQueues ==
  ASSUME TypeOK, Safety, RwQueues, NEW lk \in Kind, rw_enter_woken(lk)
  PROVE  RwQueues'
<1> DEFINE me == current_thread
           h == Queue(lk)
<1>1. /\ cpu = "thread" /\ frame[me] = <<"enter_wait", h>>
      /\ frame[me][1] = "enter_wait" /\ frame[me][2] = h
      /\ me \in Thread /\ h \in WaitHead
      /\ wait_return(h) /\ frame' = [frame EXCEPT ![me] = <<"enter", h>>]
      /\ UNCHANGED <<vars, vcpu, rw, hold>>
  BY QueueOf DEF rw_enter_woken, In, Goto, TypeOK, lvars
<1> USE <1>1
<1> HIDE DEF h
<1>2. vcpu = None /\ \A t \in Thread : frame[t][1] # "wakeup_all"
  BY InsideLoop
<1>3. /\ frame' \in [Thread -> RwFrame] /\ frame'[me] = <<"enter", h>>
      /\ \A u \in Thread \ {me} : frame'[u] = frame[u]
  BY RwFrames, GotoEffect DEF RwQueues, RwType
<1> USE <1>3
<1>4. frame'[me][1] = "enter" /\ frame'[me][2] = h /\ OthersKeepFrame
  BY DEF OthersKeepFrame
<1> USE <1>4
<1>5. /\ Alive' = Alive /\ current_thread' = me /\ bt' = bt /\ Alive \subseteq Thread
      /\ me \in Alive /\ bt[me].runnable
  BY CallerLive, AliveThreads DEF vars, Alive
<1> USE <1>5
<1>6. /\ QueueType' /\ WaitersLive'
      /\ \A k \in WaitHead \ {h} : waiters'[k] = waiters[k]
  <2>1. QueueInv
    BY DEF QueueInv, RwQueues, RwType
  <2>2. \A k \in WaitHead : WaitsOn(me, k) <=> k = h
    BY DEF WaitsOn
  <2>3. \A k \in WaitHead : ~ WaitsOn(current_thread, k)'
    BY DEF WaitsOn
  <2> QED
    BY <2>1, <2>2, <2>3, ReturnStep
<1>7. OnCpu'
  BY <1>2 DEF OnCpu
<1>8. Holds'
  BY DEF RwQueues, Holds
<1>9. HandedOn'
  <2>1. CASE h = wwait
    <3>1. WriterTries'
      BY <2>1 DEF WriterTries, Tries
    <3> QED
      BY <3>1 DEF HandedOn
  <2>2. CASE h # wwait
    <3>1. h = rwait /\ waiters'[wwait] = waiters[wwait]
      BY <1>6, <2>2, RwAssumption
    <3>2. WriterTries => WriterTries'
      BY <2>2 DEF WriterTries, Tries
    <3>3. waiters[rwait] = <<>> => waiters'[rwait] = <<>>
      <4>1. waiters[rwait] # <<>>  \/ wqvars' = wqvars
        BY <3>1 DEF wait_return
      <4> QED
        BY <4>1 DEF wqvars
    <3> QED
      BY <1>2, <3>1, <3>2, <3>3 DEF RwQueues, HandedOn
  <2> QED
    BY <2>1, <2>2
<1> QED
  BY <1>6, <1>7, <1>8, <1>9 DEF RwQueues, RwType, LockType

(* rumpuser_rw_exit() wakes a writer if one waits: then that one tries.  It*)
(* wakes the readers if only readers wait, in a loop.                      *)
LEMMA ExitQueues ==
  ASSUME TypeOK, Safety, RwQueues, rumpuser_rw_exit
  PROVE  RwQueues' /\ [Next]_vars /\ Alive' = Alive
<1> DEFINE me == current_thread
<1>1. /\ cpu = "thread" /\ frame[me] = <<"run">> /\ frame[me][1] = "run"
      /\ me \in Thread /\ vcpu = me /\ vcpu' = me
      /\ rw_release /\ hold' = [hold EXCEPT ![me] = "none"] /\ rw_exit_wake
  BY DEF rumpuser_rw_exit, Running, In, TypeOK
<1> USE <1>1
<1>2. LockType' /\ hold'[me] = "none" /\ \A t \in Thread \ {me} : hold'[t] = hold[t]
  BY DEF RwQueues, RwType, LockType, rw_release
<1> USE <1>2
<1>3. QueueInv /\ \A k \in WaitHead : ~ WaitsOn(me, k)
  BY DEF QueueInv, RwQueues, RwType, WaitsOn
<1>4. \A t \in Thread : frame[t][1] # "wakeup_all"
  BY DEF RwQueues, OnCpu
<1>5. rwait \in WaitHead /\ wwait \in WaitHead /\ rwait # wwait
  BY RwAssumption
<1> USE <1>5
<1>6. CASE waiters[wwait] # <<>> \/ waiters[rwait] = <<>>
  <2>1. wakeup_one(wwait) /\ frame' = frame
    BY <1>6 DEF rw_exit_wake
  <2> USE <2>1
  <2>2. current_thread' = me
    BY DEF wakeup_one, wakeup_who, Wake, vars
  <2>3. OthersKeepFrame /\ \A k \in WaitHead : ~ WaitsOn(current_thread, k)'
    BY <1>3, <2>2 DEF OthersKeepFrame, WaitsOn
  <2>4. /\ QueueType' /\ WaitersLive' /\ [Next]_vars
        /\ Alive' = Alive /\ UNCHANGED <<current_thread, cpu, now>>
        /\ \A k \in WaitHead \ {wwait} : waiters'[k] = waiters[k]
        /\ waiters[wwait] = <<>> => waiters'[wwait] = <<>>
        /\ waiters[wwait] # <<>> =>
             \E t \in Alive : WaitsOn(t, wwait) /\ bt'[t].runnable
    BY <1>3, <2>3, WakeupStep
  <2> USE <2>4
  <2>5. OnCpu'
    BY <1>4 DEF OnCpu
  <2>6. Holds'
    BY DEF RwQueues, Holds
  <2>7. HandedOn'
    <3>1. CASE waiters[wwait] = <<>>
      BY <1>6, <3>1 DEF HandedOn
    <3>2. CASE waiters[wwait] # <<>>
      <4>1. PICK t \in Alive : WaitsOn(t, wwait) /\ bt'[t].runnable
        BY <3>2
      <4>2. t \in Thread
        BY AliveThreads
      <4>3. Tries(t, wwait)'
        BY <4>1, <4>2, RwFrameKinds DEF WaitsOn, Tries, RwQueues, RwType
      <4>4. WriterTries'
        BY <4>1, <4>3 DEF WriterTries
      <4> QED
        BY <4>4 DEF HandedOn
    <3> QED
      BY <3>1, <3>2
  <2> QED
    BY <2>5, <2>6, <2>7 DEF RwQueues, RwType
<1>7. CASE waiters[wwait] = <<>> /\ waiters[rwait] # <<>>
  <2>1. wakeup_one(rwait) /\ frame' = [frame EXCEPT ![me] = <<"wakeup_all">>]
    BY <1>7 DEF rw_exit_wake, Goto
  <2>2. current_thread' = me
    BY <2>1 DEF wakeup_one, wakeup_who, Wake, vars
  <2>3. /\ frame' \in [Thread -> RwFrame] /\ frame'[me] = <<"wakeup_all">>
        /\ \A u \in Thread \ {me} : frame'[u] = frame[u]
    BY <2>1, RwFrames, GotoEffect DEF RwQueues, RwType
  <2> USE <2>3
  <2>4. frame'[me][1] = "wakeup_all" /\ OthersKeepFrame
    BY DEF OthersKeepFrame
  <2> USE <2>4
  <2>5. \A k \in WaitHead : ~ WaitsOn(current_thread, k)'
    BY <2>2 DEF WaitsOn
  <2>6. /\ QueueType' /\ WaitersLive' /\ [Next]_vars
        /\ Alive' = Alive /\ UNCHANGED <<current_thread, cpu, now>>
        /\ \A k \in WaitHead \ {rwait} : waiters'[k] = waiters[k]
    BY <1>3, <2>1, <2>5, WakeupStep
  <2> USE <2>6
  <2>7. OnCpu'
    BY <1>4 DEF OnCpu
  <2>8. Holds'
    BY DEF RwQueues, Holds
  <2>9. HandedOn'
    BY <1>7 DEF HandedOn
  <2> QED
    BY <2>7, <2>8, <2>9 DEF RwQueues, RwType
<1> QED
  BY <1>6, <1>7

LEMMA WakeupAllQueues ==
  ASSUME TypeOK, Safety, RwQueues, rw_wakeup_all
  PROVE  RwQueues' /\ [Next]_vars /\ Alive' = Alive
<1> DEFINE me == current_thread
<1>1. /\ cpu = "thread" /\ frame[me] = <<"wakeup_all">>
      /\ frame[me][1] = "wakeup_all" /\ me \in Thread
      /\ wakeup_one(rwait) /\ UNCHANGED <<vcpu, rw, hold>>
      /\ \/ frame' = frame /\ waiters[rwait] # <<>>
         \/ frame' = [frame EXCEPT ![me] = <<"run">>] /\ waiters[rwait] = <<>>
  BY DEF rw_wakeup_all, In, Goto, TypeOK, lvars
<1> USE <1>1
<1>2. /\ frame' \in [Thread -> RwFrame]
      /\ \A u \in Thread \ {me} : frame'[u] = frame[u]
      /\ \/ frame'[me][1] = "wakeup_all" /\ waiters[rwait] # <<>>
         \/ frame'[me][1] = "run" /\ waiters[rwait] = <<>>
  <2>1. CASE frame' = frame
    BY <2>1 DEF RwQueues, RwType
  <2>2. CASE frame' = [frame EXCEPT ![me] = <<"run">>] /\ waiters[rwait] = <<>>
    <3>1. frame'[me] = <<"run">>
      BY <2>2 DEF RwQueues, RwType
    <3> QED
      BY <2>2, <3>1, RwFrames, GotoEffect DEF RwQueues, RwType
  <2> QED
    BY <2>1, <2>2
<1> USE <1>2
<1>3. rwait \in WaitHead /\ wwait \in WaitHead /\ rwait # wwait
  BY RwAssumption
<1>4. current_thread' = me /\ Alive \subseteq Thread /\ OthersKeepFrame
  BY AliveThreads DEF wakeup_one, wakeup_who, Wake, vars, OthersKeepFrame
<1>5. /\ QueueType' /\ WaitersLive' /\ [Next]_vars
      /\ Alive' = Alive /\ UNCHANGED <<current_thread, cpu, now>>
      /\ \A t \in Alive : bt[t].runnable => bt'[t].runnable
      /\ \A k \in WaitHead \ {rwait} : waiters'[k] = waiters[k]
      /\ waiters[rwait] = <<>> => waiters'[rwait] = <<>>
  <2>1. QueueInv /\ \A k \in WaitHead : ~ WaitsOn(me, k)
    BY DEF QueueInv, RwQueues, RwType, WaitsOn
  <2>2. \A k \in WaitHead : ~ WaitsOn(current_thread, k)'
    BY <1>4 DEF WaitsOn
  <2> QED
    BY <1>3, <1>4, <2>1, <2>2, WakeupStep
<1> USE <1>5
<1>6. OnCpu'
  BY DEF RwQueues, RwType, OnCpu
<1>7. Holds'
  BY DEF RwQueues, Holds
<1>8. HandedOn'
  <2>1. WriterTries => WriterTries'
    BY <1>4 DEF WriterTries, Tries
  <2> QED
    BY <1>3, <2>1 DEF RwQueues, HandedOn
<1> QED
  BY <1>6, <1>7, <1>8 DEF RwQueues, RwType, LockType

LEMMA OwnerQueues ==
  ASSUME TypeOK, Safety, RwQueues, rumpuser_rw_downgrade \/ rumpuser_rw_tryupgrade
  PROVE  RwQueues' /\ UNCHANGED vars
<1> DEFINE me == current_thread
<1>1. /\ cpu = "thread" /\ frame[me] = <<"run">> /\ frame[me][1] = "run"
      /\ me \in Thread /\ vcpu = me /\ UNCHANGED <<vars, wqvars, vcpu, frame>>
  BY DEF rumpuser_rw_downgrade, rumpuser_rw_tryupgrade, Running, In, TypeOK, rvars
<1> USE <1>1
<1>2. /\ LockType' /\ \A t \in Thread \ {me} : hold'[t] = hold[t]
      /\ rw'.o = None => rw.o = None
  <2>1. CASE rumpuser_rw_downgrade
    BY <2>1 DEF rumpuser_rw_downgrade, RwQueues, RwType, LockType, Kind
  <2>2. CASE rumpuser_rw_tryupgrade
    BY <2>2, RumpThreadAssumption
    DEF rumpuser_rw_tryupgrade, RwQueues, RwType, LockType, Kind
  <2> QED
    BY <2>1, <2>2
<1>3. /\ OthersKeepFrame /\ frame' \in [Thread -> RwFrame] /\ frame'[me][1] = "run"
      /\ ~ Tries(me, wwait)
  BY DEF RwQueues, RwType, OthersKeepFrame, Tries
<1> QED
  BY <1>2, <1>3, QuietCall

LEMMA DestroyQueues ==
  ASSUME TypeOK, Safety, RwQueues, rumpuser_rw_destroy
  PROVE  RwQueues'
<1> DEFINE me == current_thread
<1>1. /\ cpu = "thread" /\ frame[me] = <<"run">> /\ frame[me][1] = "run"
      /\ me \in Thread /\ vcpu = me
      /\ UNCHANGED <<vars, wqvars, vcpu, frame, hold>>
      /\ rw' = [v |-> 0, o |-> None]
      /\ \A t \in Alive : frame[t][1] \notin {"enter", "enter_wait"}
  <2>1. cpu = "thread" /\ frame[me] = <<"run">> /\ me \in Thread /\ vcpu = me
    BY DEF rumpuser_rw_destroy, Running, In, TypeOK
  <2>2. /\ UNCHANGED <<vars, wqvars, vcpu, frame, hold>>
        /\ rw' = [v |-> 0, o |-> None]
    BY DEF rumpuser_rw_destroy, rvars
  <2>3. \A t \in Alive : frame[t][1] \notin {"enter", "enter_wait"}
    BY DEF rumpuser_rw_destroy
  <2> QED
    BY <2>1, <2>2, <2>3
<1>2. LockType' /\ OthersKeepFrame /\ frame' \in [Thread -> RwFrame]
      /\ frame'[me][1] = "run"
  BY <1>1 DEF RwQueues, RwType, LockType, OthersKeepFrame
<1>3. ASSUME NEW h \in WaitHead
      PROVE  waiters[h] = <<>>
  <2>1. \A t \in Alive : ~ WaitsOn(t, h)
    BY <1>1, AliveThreads, RwFrameKinds DEF WaitsOn, RwQueues, RwType
  <2>2. Range(waiters[h]) = {} /\ waiters[h] \in Seq(Thread)
    BY <2>1 DEF RwQueues, RwType, QueueType, WaitersLive
  <2> QED
    BY <2>2, EmptySet
<1>4. waiters[wwait] = <<>> /\ waiters[rwait] = <<>>
  BY <1>3, RwAssumption
<1> QED
  BY <1>1, <1>2, <1>4, QuietCall

LEMMA ScheduleQueues ==
  ASSUME TypeOK, Safety, RwQueues, UNCHANGED lvars,
         hyp_schedule \/ hyp_unschedule \/ clock_sleep_return
  PROVE  RwQueues'
<1> DEFINE me == current_thread
<1>1. /\ cpu = "thread" /\ frame[me] \in {<<"run">>, <<"sleep">>}
      /\ me \in Thread /\ vcpu' \in {me, None}
      /\ UNCHANGED <<vars, wqvars, rw, hold>>
      /\ \/ frame[me] = <<"run">> /\ frame' = frame
         \/ frame' = [frame EXCEPT ![me] = <<"run">>]
  BY DEF hyp_schedule, hyp_unschedule, clock_sleep_return, Resume, Goto,
         rumpkern_sched, Running, In, TypeOK, lvars
<1> USE <1>1
<1>2. frame[me][1] \in {"run", "sleep"}
  OBVIOUS
<1>3. /\ frame' \in [Thread -> RwFrame] /\ frame'[me] = <<"run">>
      /\ \A u \in Thread \ {me} : frame'[u] = frame[u]
  BY RwFrames, GotoEffect DEF RwQueues, RwType
<1>4. frame'[me][1] = "run" /\ OthersKeepFrame /\ LockType' /\ ~ Tries(me, wwait)
  BY <1>2, <1>3 DEF OthersKeepFrame, RwQueues, RwType, LockType, Tries
<1> QED
  BY <1>2, <1>3, <1>4, QuietCall

LEMMA SleepQueues ==
  ASSUME TypeOK, Safety, RwQueues, UNCHANGED lvars,
         NEW nsec \in Durations, rumpuser_clock_sleep(nsec)
  PROVE  RwQueues' /\ Alive' = Alive
<1> DEFINE me == current_thread
<1>1. /\ cpu = "thread" /\ frame[me] = <<"run">> /\ frame[me][1] = "run"
      /\ me \in Thread /\ vcpu' = None
      /\ UNCHANGED <<waiters, onlist, wqvars, rw, hold>>
      /\ bmk_sched_nanosleep(nsec)
      /\ frame' = [frame EXCEPT ![me] = <<"sleep">>]
  BY DEF rumpuser_clock_sleep, Running, In, Goto, TypeOK, lvars, wqvars, rumpkern_unsched
<1> USE <1>1
<1>2. /\ Alive' = Alive /\ current_thread' = me /\ Alive \subseteq Thread
      /\ \A u \in Thread \ {me} : bt'[u] = bt[u]
  BY BlockEffect, AliveThreads
<1> USE <1>2
<1>3. /\ frame' \in [Thread -> RwFrame] /\ frame'[me] = <<"sleep">>
      /\ \A u \in Thread \ {me} : frame'[u] = frame[u]
  BY RwFrames, GotoEffect DEF RwQueues, RwType
<1> USE <1>3
<1>4. frame'[me][1] = "sleep"
  OBVIOUS
<1>5. /\ \A t \in Thread : \A h : /\ WaitsOn(t, h)' <=> WaitsOn(t, h)
                                  /\ Tries(t, h)' <=> Tries(t, h)
      /\ \A h : ~ WaitsOn(me, h) /\ ~ Tries(me, h)
  BY <1>4 DEF WaitsOn, Tries
<1>6. QueueType' /\ WaitersLive'
  BY <1>5, QuietStep DEF RwQueues, RwType
<1>7. OnCpu'
  BY <1>4 DEF RwQueues, OnCpu
<1>8. Holds'
  BY <1>4 DEF RwQueues, Holds
<1>9. HandedOn'
  <2>1. WriterTries => WriterTries'
    BY <1>5 DEF WriterTries
  <2> QED
    BY <2>1 DEF RwQueues, HandedOn
<1> QED
  BY <1>6, <1>7, <1>8, <1>9 DEF RwQueues, RwType, LockType

LEMMA CreateQueues ==
  ASSUME TypeOK, Safety, RwQueues, UNCHANGED lvars,
         NEW t \in Thread, rumpuser_thread_create(t)
  PROVE  RwQueues'
<1>1. /\ cpu = "thread" /\ cpu' = cpu /\ current_thread' = current_thread
      /\ UNCHANGED <<waiters, onlist, wqvars, rw, hold, vcpu>> /\ bmk_sched_create(t)
      /\ frame' = [frame EXCEPT ![t] = <<"run">>]
  BY DEF rumpuser_thread_create, Running, In, bmk_sched_create, lvars, wqvars
<1> USE <1>1
<1>2. /\ t \notin Alive /\ Alive' = Alive \cup {t} /\ Alive \subseteq Thread
      /\ \A u \in Thread \ {t} : bt'[u] = bt[u]
      /\ current_thread \in Alive
  BY CreateEffect, AliveThreads, CallerLive
<1> USE <1>2
<1>3. /\ frame' \in [Thread -> RwFrame] /\ frame'[t] = <<"run">>
      /\ \A u \in Thread \ {t} : frame'[u] = frame[u]
  BY RwFrames, GotoEffect DEF RwQueues, RwType
<1> USE <1>3
<1>4. frame'[t][1] = "run"
  OBVIOUS
<1>5. /\ \A u \in Alive : \A h : /\ WaitsOn(u, h)' <=> WaitsOn(u, h)
                                 /\ Tries(u, h)' <=> Tries(u, h)
      /\ \A h : ~ WaitsOn(t, h)'
  BY <1>4 DEF WaitsOn, Tries
<1>6. QueueType' /\ WaitersLive'
  BY <1>5, QuietStep DEF RwQueues, RwType
<1>7. OnCpu'
  BY <1>4 DEF RwQueues, OnCpu
<1>8. Holds'
  BY <1>4 DEF RwQueues, Holds
<1>9. HandedOn'
  <2>1. WriterTries => WriterTries'
    BY <1>5 DEF WriterTries
  <2>2. frame'[current_thread] = frame[current_thread]
    OBVIOUS
  <2> QED
    BY <2>1, <2>2 DEF RwQueues, HandedOn
<1> QED
  BY <1>6, <1>7, <1>8, <1>9 DEF RwQueues, RwType, LockType

LEMMA ThreadExitQueues ==
  ASSUME TypeOK, Safety, RwQueues, UNCHANGED lvars,
         hold[current_thread] = "none", rumpuser_thread_exit
  PROVE  RwQueues'
<1> DEFINE me == current_thread
<1>1. /\ cpu = "thread" /\ current_thread' = me /\ bmk_sched_exit
      /\ UNCHANGED <<waiters, onlist, wqvars, rw, hold, vcpu, frame>>
      /\ frame[me] = <<"run">> /\ frame[me][1] = "run" /\ vcpu # me /\ me \in Thread
  <2>1. /\ cpu = "thread" /\ frame[me] = <<"run">> /\ vcpu # me
        /\ bmk_sched_exit /\ UNCHANGED <<wqvars, rvars>>
    BY DEF rumpuser_thread_exit, In
  <2>2. current_thread' = me /\ me \in Thread
    BY <2>1 DEF bmk_sched_exit, TypeOK
  <2>3. UNCHANGED <<waiters, onlist, rw, hold, vcpu, frame>>
    BY <2>1 DEF lvars, rvars, wqvars
  <2> QED
    BY <2>1, <2>2, <2>3
<1> USE <1>1
<1>2. /\ Alive' = Alive \ {me} /\ Alive \subseteq Thread
      /\ \A u \in Thread \ {me} : bt'[u] = bt[u]
  BY ExitEffect, AliveThreads
<1>3. /\ \A u \in Thread : \A h : /\ WaitsOn(u, h)' <=> WaitsOn(u, h)
                                  /\ Tries(u, h)' <=> Tries(u, h)
      /\ \A h : ~ WaitsOn(me, h) /\ ~ Tries(me, h)
  BY DEF WaitsOn, Tries
<1>4. QueueType' /\ WaitersLive'
  BY <1>2, <1>3, QuietStep DEF RwQueues, RwType
<1>5. OnCpu'
  BY DEF RwQueues, OnCpu, RwType
<1>6. Holds'
  BY <1>2 DEF RwQueues, Holds
<1>7. HandedOn'
  <2>1. WriterTries => WriterTries'
    BY <1>2, <1>3 DEF WriterTries
  <2> QED
    BY <2>1 DEF RwQueues, HandedOn
<1> QED
  BY <1>4, <1>5, <1>6, <1>7 DEF RwQueues, RwType, LockType

LEMMA SchedulerQueues ==
  ASSUME TypeOK, Safety, RwQueues, UNCHANGED <<wqvars, rvars, lvars>>,
         bmk_sched \/ nanohlt_return \/ Tick \/ \E t \in Thread : Wake(t)
  PROVE  RwQueues' /\ Alive' = Alive
<1>1. UNCHANGED <<waiters, onlist, vcpu, frame, rw, hold>>
  BY DEF wqvars, rvars, lvars
<1> USE <1>1
<1>2. /\ Alive' = Alive /\ \A t \in Alive : bt[t].runnable => bt'[t].runnable
      /\ cpu = "thread" => cpu' = cpu /\ current_thread' = current_thread
      /\ current_thread \in Thread
  BY SchedulerKeeps DEF TypeOK
<1> USE <1>2
<1>3. OnCpu'
  BY DEF RwQueues, OnCpu
<1>4. Holds'
  BY DEF RwQueues, Holds
<1>5. HandedOn'
  <2>1. WriterTries => WriterTries'
    BY DEF WriterTries, Tries
  <2>2. frame[current_thread][1] = "wakeup_all" =>
          frame'[current_thread'][1] = "wakeup_all"
    BY DEF RwQueues, OnCpu
  <2> QED
    BY <2>1, <2>2 DEF RwQueues, HandedOn
<1>6. QueueType' /\ WaitersLive'
  BY QuietStep DEF RwQueues, RwType, WaitsOn, wqvars
<1> QED
  BY <1>3, <1>4, <1>5, <1>6 DEF RwQueues, RwType, LockType

-----------------------------------------------------------------------------
(* The lock: who holds it, and how many.                                   *)

Holders == {t \in Alive : hold[t] # "none"}

LEMMA HoldersFinite ==
  ASSUME TypeOK
  PROVE  /\ IsFiniteSet(Holders) /\ Cardinality(Holders) \in Nat
         /\ Cardinality(Holders) = 0 <=> Holders = {}
<1>1. IsFiniteSet(Alive)
  BY ListFinite DEF TypeOK, Alive
<1>2. IsFiniteSet(Holders)
  BY <1>1, FS_Subset DEF Holders
<1> QED
  BY <1>2, FS_CardinalityType, FS_EmptySet

(* A step that leaves the lock alone: threads that come and go do not have *)
(* it.                                                                     *)
LEMMA LockSame ==
  ASSUME RwLocked, UNCHANGED lvars, Alive' \subseteq Alive \/ Alive # {},
         \A t : (t \in Alive' <=> t \in Alive)
                  \/ (hold[t] = "none" /\ (~ overlap /\ ~ downgraded => rw.o # t))
  PROVE  RwLocked'
<1>1. UNCHANGED <<rw, hold, overlap, downgraded>>
  BY DEF lvars
<1>2. {t \in Alive' : hold[t] # "none"} = {t \in Alive : hold[t] # "none"}
  OBVIOUS
<1>3. HoldersCounted'
  BY <1>1, <1>2 DEF RwLocked, HoldersCounted
<1>4. OwnerLive'
  BY <1>1 DEF RwLocked, OwnerLive
<1>5. WriterExcludes'
  <2> SUFFICES ASSUME ~ overlap, ~ downgraded, NEW t \in Alive'
               PROVE  /\ hold[t] = "writer" => \A u \in Alive' \ {t} : hold[u] = "none"
                      /\ hold[t] = "writer" <=> rw.o = t
                      /\ rw.v > 0 <=> \E u \in Alive' : hold[u] = "reader"
    BY <1>1 DEF WriterExcludes, rumpuser_rw_held
  <2>1. \A u \in Alive :
          /\ hold[u] = "writer" => \A w \in Alive \ {u} : hold[w] = "none"
          /\ hold[u] = "writer" <=> rw.o = u
          /\ rw.v > 0 <=> \E w \in Alive : hold[w] = "reader"
    BY DEF RwLocked, WriterExcludes, rumpuser_rw_held
  <2>2. rw.v > 0 <=> \E w \in Alive : hold[w] = "reader"
    BY <2>1
  <2>3. (\E w \in Alive : hold[w] = "reader") <=> \E w \in Alive' : hold[w] = "reader"
    OBVIOUS
  <2>4. hold[t] = "writer" <=> rw.o = t
    BY <2>1
  <2>5. hold[t] = "writer" => \A u \in Alive' \ {t} : hold[u] = "none"
    BY <2>1
  <2> QED
    BY <2>2, <2>3, <2>4, <2>5
<1> QED
  BY <1>3, <1>4, <1>5 DEF RwLocked

(* Entering: a writer that finds readers is the overlap.                   *)
LEMMA LockEnter ==
  ASSUME TypeOK, LockType, RwLocked, NEW lk \in Kind, current_thread \in Alive,
         current_thread \in Thread, hold[current_thread] = "none",
         Free(lk), rumpuser_rw_tryenter(lk), Alive' = Alive
  PROVE  RwLocked'
<1> DEFINE me == current_thread
           H == {t \in Alive : hold[t] # "none"}
           H1 == {t \in Alive' : hold'[t] # "none"}
<1>1. /\ rw.o = None /\ downgraded' = downgraded /\ Alive \subseteq Thread
      /\ hold'[me] = lk /\ lk # "none" /\ \A t \in Thread \ {me} : hold'[t] = hold[t]
      /\ rw.v \in Int /\ me # None
      /\ lk = "writer" => rw'.v = rw.v /\ rw'.o = me
      /\ lk # "writer" => rw'.v = rw.v + 1 /\ rw'.o = None /\ lk = "reader"
      /\ overlap' = (overlap \/ (lk = "writer" /\ rw.v > 0))
  BY AliveThreads, RumpThreadAssumption
  DEF Free, rumpuser_rw_tryenter, LockType, Kind
<1>2. H1 = H \cup {me} /\ me \notin H
  BY <1>1
<1>3. IsFiniteSet(H) /\ Cardinality(H) \in Nat /\ (Cardinality(H) = 0 <=> H = {})
  BY <1>1, HoldersFinite DEF Holders
<1>4. Cardinality(H1) = Cardinality(H) + 1
  BY <1>2, <1>3, FS_AddElement
<1> USE <1>1
<1>5. ~ downgraded => rw.v = Cardinality(H)
  BY DEF RwLocked, HoldersCounted
<1>6. HoldersCounted'
  <2>1. ~ downgraded' => rw'.v + (IF rw'.o = None THEN 0 ELSE 1) = Cardinality(H1)
    BY <1>3, <1>4, <1>5
  <2> QED
    BY <2>1 DEF HoldersCounted
<1>7. OwnerLive'
  BY DEF OwnerLive
<1>8. WriterExcludes'
  <2> SUFFICES ASSUME ~ overlap', ~ downgraded', NEW t \in Alive
               PROVE  /\ hold'[t] = "writer" => \A u \in Alive \ {t} : hold'[u] = "none"
                      /\ hold'[t] = "writer" <=> rw'.o = t
                      /\ rw'.v > 0 <=> \E u \in Alive : hold'[u] = "reader"
    BY DEF WriterExcludes, rumpuser_rw_held
  <2>1. ~ overlap /\ ~ downgraded
    OBVIOUS
  <2>2. /\ \A u \in Alive : hold[u] # "writer"
        /\ rw.v > 0 <=> \E u \in Alive : hold[u] = "reader"
    <3>1. \A u \in Alive : u # None
      BY RumpThreadAssumption
    <3> QED
      BY <2>1, <3>1 DEF RwLocked, WriterExcludes, rumpuser_rw_held
  <2>3. CASE lk = "writer"
    <3>1. ~ (rw.v > 0) /\ rw'.v = rw.v /\ rw'.o = me
      BY <2>3
    <3>2. \A u \in Alive : hold[u] = "none"
      BY <2>2, <3>1 DEF LockType, Kind
    <3> QED
      BY <2>3, <3>1, <3>2
  <2>4. CASE lk # "writer"
    <3>1. rw.v \in Nat /\ rw'.v > 0 /\ rw'.o = None /\ lk = "reader"
      BY <1>3, <1>5, <2>1, <2>4
    <3>2. t # None
      BY RumpThreadAssumption
    <3> QED
      BY <2>2, <2>4, <3>1, <3>2
  <2> QED
    BY <2>3, <2>4
<1> QED
  BY <1>6, <1>7, <1>8 DEF RwLocked

(* Leaving: without overlap and downgrade whoever leaves while there is an *)
(* owner is the owner.                                                     *)
LEMMA LockExit ==
  ASSUME TypeOK, LockType, RwLocked, current_thread \in Alive,
         current_thread \in Thread, hold[current_thread] # "none",
         rw_release, hold' = [hold EXCEPT ![current_thread] = "none"],
         UNCHANGED <<overlap, downgraded>>, Alive' = Alive
  PROVE  RwLocked'
<1> DEFINE me == current_thread
           H == {t \in Alive : hold[t] # "none"}
           H1 == {t \in Alive' : hold'[t] # "none"}
<1>1. /\ Alive \subseteq Thread /\ rw.v \in Int /\ me # None
      /\ hold'[me] = "none" /\ \A t \in Thread \ {me} : hold'[t] = hold[t]
      /\ rw'.o = None
      /\ rw.o # None => rw'.v = rw.v
      /\ rw.o = None => rw'.v = rw.v - 1
      /\ UNCHANGED <<overlap, downgraded>>
  BY AliveThreads, RumpThreadAssumption DEF rw_release, LockType
<1>2. H1 = H \ {me} /\ me \in H
  BY <1>1
<1>3. IsFiniteSet(H) /\ Cardinality(H) \in Nat
  BY <1>1, HoldersFinite DEF Holders
<1>4. /\ Cardinality(H1) = Cardinality(H) - 1
      /\ IsFiniteSet(H1) /\ Cardinality(H1) \in Nat
      /\ Cardinality(H1) = 0 <=> H1 = {}
  <2>1. Cardinality(H1) = Cardinality(H) - 1 /\ IsFiniteSet(H1)
    <3> HIDE DEF H, H1
    <3> QED
      BY <1>2, <1>3, FS_RemoveElement
  <2> QED
    BY <2>1, FS_CardinalityType, FS_EmptySet
<1> USE <1>1, <1>4
<1>5. ~ downgraded => rw.v + (IF rw.o = None THEN 0 ELSE 1) = Cardinality(H)
  BY DEF RwLocked, HoldersCounted
<1>6. ~ downgraded => rw'.v = Cardinality(H1)
  BY <1>3, <1>5
<1>7. HoldersCounted'
  BY <1>6 DEF HoldersCounted
<1>8. OwnerLive'
  BY DEF OwnerLive
<1>9. WriterExcludes'
  <2> SUFFICES ASSUME ~ overlap', ~ downgraded', NEW t \in Alive
               PROVE  /\ hold'[t] = "writer" => \A u \in Alive \ {t} : hold'[u] = "none"
                      /\ hold'[t] = "writer" <=> rw'.o = t
                      /\ rw'.v > 0 <=> \E u \in Alive : hold'[u] = "reader"
    BY DEF WriterExcludes, rumpuser_rw_held
  <2>1. ~ overlap /\ ~ downgraded
    OBVIOUS
  <2>2. \A u \in Alive : /\ hold[u] = "writer" => \A w \in Alive \ {u} : hold[w] = "none"
                         /\ hold[u] = "writer" <=> rw.o = u
    BY <2>1 DEF RwLocked, WriterExcludes, rumpuser_rw_held
  <2>3. \A u \in Alive : hold'[u] # "writer"
    <3>1. CASE rw.o = None
      BY <2>2, <3>1, RumpThreadAssumption
    <3>2. CASE rw.o # None
      <4>1. rw.o \in Alive
        BY <2>1, <3>2 DEF RwLocked, OwnerLive
      <4> QED
        BY <2>2, <4>1
    <3> QED
      BY <3>1, <3>2
  <2> HIDE DEF H, H1
  <2>4. rw'.v > 0 <=> H1 # {}
    <3>1. rw'.v = Cardinality(H1)
      BY <1>6, <2>1
    <3>2. CASE H1 = {}
      BY <3>1, <3>2
    <3>3. CASE H1 # {}
      <4>1. Cardinality(H1) \in Nat \ {0}
        BY <3>3
      <4>2. rw'.v \in Nat \ {0}
        BY <3>1, <4>1, Zenon
      <4> QED
        BY <3>3, <4>2
    <3> QED
      BY <3>2, <3>3
  <2>5. H1 # {} <=> \E u \in Alive : hold'[u] = "reader"
    <3>1. \A u \in Alive : hold'[u] \in {"none", "reader"}
      BY <2>3 DEF LockType, Kind
    <3> QED
      BY <3>1 DEF H1
  <2>6. t # None
    BY RumpThreadAssumption
  <2> QED
    BY <2>3, <2>4, <2>5, <2>6
<1> QED
  BY <1>7, <1>8, <1>9 DEF RwLocked

(* An upgrade is possible only after a downgrade: v is not negative before.*)
LEMMA LockOwner ==
  ASSUME TypeOK, LockType, RwLocked, current_thread \in Alive, UNCHANGED vars,
         rumpuser_rw_downgrade \/ rumpuser_rw_tryupgrade
  PROVE  RwLocked'
<1>1. Alive' = Alive
  BY DEF vars, Alive
<1>2. CASE downgraded'
  BY <1>2 DEF RwLocked, HoldersCounted, WriterExcludes, OwnerLive
<1>3. CASE rumpuser_rw_downgrade /\ ~ downgraded'
  <2>1. UNCHANGED lvars
    BY <1>3 DEF rumpuser_rw_downgrade, lvars
  <2> QED
    BY <1>1, <2>1, LockSame
<1>4. CASE rumpuser_rw_tryupgrade /\ ~ downgraded'
  <2>1. ~ downgraded /\ current_thread \in Holders /\ rw.v = -1
    BY <1>4 DEF rumpuser_rw_tryupgrade, Holders
  <2>2. rw.v + (IF rw.o = None THEN 0 ELSE 1) = Cardinality(Holders)
    BY <2>1 DEF RwLocked, HoldersCounted, Holders
  <2>3. Cardinality(Holders) \in Nat \ {0}
    BY <2>1, HoldersFinite
  <2> QED
    BY <2>1, <2>2, <2>3
<1> QED
  BY <1>2, <1>3, <1>4

LEMMA LockDestroy ==
  ASSUME TypeOK, rumpuser_rw_destroy
  PROVE  RwLocked'
<1>1. /\ \A t \in Alive : hold[t] = "none"
      /\ rw' = [v |-> 0, o |-> None] /\ hold' = hold
      /\ Alive' = Alive /\ Alive \subseteq Thread
  BY AliveThreads DEF rumpuser_rw_destroy, vars, Alive
<1> USE <1>1
<1>2. {t \in Alive' : hold'[t] # "none"} = {}
  OBVIOUS
<1>3. HoldersCounted'
  BY <1>2, FS_EmptySet DEF HoldersCounted
<1>4. OwnerLive'
  BY DEF OwnerLive
<1>5. WriterExcludes'
  BY RumpThreadAssumption DEF WriterExcludes, rumpuser_rw_held
<1> QED
  BY <1>3, <1>4, <1>5 DEF RwLocked

-----------------------------------------------------------------------------
(* All steps together.                                                     *)

RwInv == RwQueues /\ RwLocked

LEMMA ThreadCallStep ==
  ASSUME TypeOK, Safety, RwInv, ThreadCall
  PROVE  RwInv' /\ [Next]_vars
<1>1. UNCHANGED lvars /\ RwQueues /\ RwLocked
  BY DEF ThreadCall, RwInv
<1> USE <1>1
<1>2. Alive' = Alive => RwLocked'
  BY LockSame
<1>3. CASE hyp_schedule \/ hyp_unschedule \/ clock_sleep_return
  <2>1. UNCHANGED vars
    BY <1>3 DEF hyp_schedule, hyp_unschedule, clock_sleep_return
  <2>2. Alive' = Alive
    BY <2>1 DEF vars, Alive
  <2> QED
    BY <1>2, <1>3, <2>1, <2>2, ScheduleQueues DEF RwInv
<1>4. CASE hold[current_thread] = "none" /\ rumpuser_thread_exit
  <2> USE <1>4
  <2>1. bmk_sched_exit /\ Alive' = Alive \ {current_thread} /\ current_thread \in Alive
    BY ExitEffect, CallerLive DEF rumpuser_thread_exit, In
  <2>2. ~ overlap /\ ~ downgraded => rw.o # current_thread
    BY <2>1 DEF RwLocked, WriterExcludes, rumpuser_rw_held
  <2>3. RwLocked'
    BY <2>1, <2>2, LockSame
  <2> QED
    BY <2>1, <2>3, ThreadExitQueues DEF RwInv, Next, Yield
<1>5. ASSUME NEW t \in Thread, rumpuser_thread_create(t)
      PROVE  RwInv' /\ [Next]_vars
  <2>1. /\ bmk_sched_create(t) /\ t \notin Alive /\ Alive' = Alive \cup {t}
        /\ current_thread \in Alive
    BY <1>5, CreateEffect, CallerLive DEF rumpuser_thread_create, Running, In
  <2>2. hold[t] = "none" /\ (~ overlap /\ ~ downgraded => rw.o # t)
    BY <2>1, RumpThreadAssumption DEF RwQueues, Holds, RwLocked, OwnerLive
  <2>3. RwLocked'
    BY <2>1, <2>2, LockSame
  <2> QED
    BY <1>5, <2>1, <2>3, CreateQueues DEF RwInv, Next
<1>6. ASSUME NEW nsec \in Durations, rumpuser_clock_sleep(nsec)
      PROVE  RwInv' /\ [Next]_vars
  <2>1. bmk_sched_nanosleep(nsec)
    BY <1>6 DEF rumpuser_clock_sleep
  <2> QED
    BY <1>2, <1>6, <2>1, SleepQueues DEF RwInv, Next, Yield
<1>7. CASE RumpSched \/ RumpHltReturn \/ RumpTick \/ \E t \in Thread : isr_wakes(t)
  <2>1. /\ UNCHANGED <<wqvars, rvars, lvars>>
        /\ bmk_sched \/ nanohlt_return \/ Tick \/ \E t \in Thread : Wake(t)
    BY <1>7 DEF RumpSched, RumpHltReturn, RumpTick, isr_wakes
  <2> QED
    BY <1>2, <2>1, SchedulerQueues, SchedulerKeeps DEF RwInv
<1> QED
  BY <1>3, <1>4, <1>5, <1>6, <1>7 DEF ThreadCall

LEMMA RwStep ==
  ASSUME TypeOK, Safety, RwInv, [RwNext]_allvars
  PROVE  RwInv' /\ [Next]_vars
<1>1. RwQueues /\ RwLocked /\ LockType /\ current_thread \in Thread
  BY DEF RwInv, RwQueues, RwType, TypeOK
<1> USE <1>1
<1>2. CASE UNCHANGED allvars
  <2>1. /\ UNCHANGED vars
        /\ UNCHANGED <<threads, bt, current_thread, cpu, waiters, onlist>>
        /\ UNCHANGED <<vcpu, frame, rw, hold>> /\ UNCHANGED lvars
    BY <1>2 DEF allvars, vars, wqvars, rvars, lvars
  <2> USE <2>1
  <2>2. Alive' = Alive
    BY DEF Alive
  <2>3. RwType' /\ WaitersLive'
    BY <2>2 DEF RwQueues, RwType, QueueType, LockType, WaitersLive, WaitsOn
  <2>4. OnCpu' /\ Holds' /\ HandedOn'
    BY <2>2 DEF RwQueues, OnCpu, Holds, HandedOn, WriterTries, Tries
  <2> QED
    BY <2>2, <2>3, <2>4, LockSame DEF RwInv, RwQueues
<1>3. ASSUME NEW lk \in Kind, rumpuser_rw_enter(lk)
      PROVE  RwInv' /\ [Next]_vars
  <2>1. /\ UNCHANGED vars /\ Alive' = Alive /\ current_thread \in Alive
        /\ hold[current_thread] = "none"
        /\ UNCHANGED lvars \/ (Free(lk) /\ rumpuser_rw_tryenter(lk))
    BY <1>3, CallerLive DEF rumpuser_rw_enter, Running, In, vars, Alive
  <2> QED
    BY <1>3, <2>1, EnterQueues, LockSame, LockEnter DEF RwInv
<1>4. ASSUME NEW lk \in Kind, rw_enter_loop(lk)
      PROVE  RwInv' /\ [Next]_vars
  <2> USE <1>4
  <2>1. /\ cpu = "thread" /\ frame[current_thread] = <<"enter", Queue(lk)>>
        /\ current_thread \in Alive
    BY CallerLive DEF rw_enter_loop, In
  <2>2. hold[current_thread] = "none"
    <3>1. Holds
      BY DEF RwQueues
    <3>2. frame[current_thread][1] = "enter"
      BY <2>1
    <3> QED
      BY <3>1, <3>2 DEF Holds
  <2>3. CASE Free(lk)
    <3>1. rumpuser_rw_tryenter(lk) /\ Alive' = Alive
      BY <2>3 DEF rw_enter_loop, vars, Alive
    <3> QED
      BY <2>1, <2>2, <2>3, <3>1, LoopQueues, LockEnter DEF RwInv
  <2>4. CASE ~ Free(lk)
    <3>1. wait(Queue(lk), 0) /\ UNCHANGED lvars
      BY <2>4 DEF rw_enter_loop
    <3>2. 0 \in Durations /\ Wait(0)
      BY <3>1, TimeAssumption DEF Durations, wait, wait_block
    <3>3. Alive' = Alive
      BY <3>2, BlockEffect
    <3> QED
      BY <3>1, <3>3, LoopQueues, LockSame DEF RwInv
  <2> QED
    BY <2>3, <2>4
<1>5. ASSUME NEW lk \in Kind, rw_enter_woken(lk)
      PROVE  RwInv' /\ [Next]_vars
  <2>1. UNCHANGED vars /\ UNCHANGED lvars /\ Alive' = Alive
    BY <1>5 DEF rw_enter_woken, vars, Alive
  <2> QED
    BY <1>5, <2>1, WokenQueues, LockSame DEF RwInv
<1>6. CASE rumpuser_rw_exit
  <2>1. RwQueues' /\ [Next]_vars /\ Alive' = Alive
    BY <1>6, ExitQueues
  <2>2. /\ current_thread \in Alive /\ hold[current_thread] # "none"
        /\ rw_release /\ hold' = [hold EXCEPT ![current_thread] = "none"]
        /\ UNCHANGED <<overlap, downgraded>>
    BY <1>6, CallerLive DEF rumpuser_rw_exit, Running, In
  <2> QED
    BY <2>1, <2>2, LockExit DEF RwInv
<1>7. CASE rw_wakeup_all
  <2>1. UNCHANGED lvars
    BY <1>7 DEF rw_wakeup_all
  <2> QED
    BY <1>7, <2>1, WakeupAllQueues, LockSame DEF RwInv
<1>8. CASE rumpuser_rw_downgrade \/ rumpuser_rw_tryupgrade
  <2>1. current_thread \in Alive
    BY <1>8, CallerLive
    DEF rumpuser_rw_downgrade, rumpuser_rw_tryupgrade, Running, In
  <2> QED
    BY <1>8, <2>1, OwnerQueues, LockOwner DEF RwInv
<1>9. CASE rumpuser_rw_destroy
  <2>1. UNCHANGED vars
    BY <1>9 DEF rumpuser_rw_destroy
  <2> QED
    BY <1>9, <2>1, DestroyQueues, LockDestroy DEF RwInv
<1>10. CASE ThreadCall
  BY <1>10, ThreadCallStep
<1> QED
  BY <1>2, <1>3, <1>4, <1>5, <1>6, <1>7, <1>8, <1>9, <1>10 DEF RwNext

LEMMA RwInitially ==
  ASSUME RwInit
  PROVE  TypeOK /\ Safety /\ RwInv
<1>1. /\ Init /\ TypeOK /\ Safety /\ WaitInit
      /\ vcpu = None /\ frame = [t \in Thread |-> <<"run">>]
      /\ rw = [v |-> 0, o |-> None] /\ hold = [t \in Thread |-> "none"]
  BY InitSafe DEF RwInit, RumpInit
<1> USE <1>1
<1>2. RwType
  BY RwFrames DEF RwType, QueueType, LockType, WaitInit
<1>3. Alive \subseteq Thread /\ \A t \in Thread : frame[t][1] = "run"
  BY AliveThreads
<1> USE <1>3
<1>4. WaitersLive
  <2>1. \A h \in WaitHead : waiters[h] = <<>> /\ \A t \in Alive : ~ WaitsOn(t, h)
    BY DEF WaitInit, WaitsOn
  <2>2. IsInjective(<<>>) /\ Range(<<>>) = {}
    BY DEF IsInjective, Range
  <2> QED
    BY <2>1, <2>2 DEF WaitersLive
<1>5. OnCpu /\ Holds /\ HandedOn
  BY RwAssumption DEF OnCpu, Holds, HandedOn, WaitInit
<1>6. {t \in Alive : hold[t] # "none"} = {}
  OBVIOUS
<1>7. RwLocked
  <2>1. HoldersCounted
    BY <1>6, FS_EmptySet DEF HoldersCounted
  <2>2. WriterExcludes
    BY RumpThreadAssumption DEF WriterExcludes, rumpuser_rw_held
  <2> QED
    BY <2>1, <2>2 DEF RwLocked, OwnerLive
<1> QED
  BY <1>2, <1>4, <1>5, <1>7 DEF RwInv, RwQueues

LEMMA RwInvariant == RwSpec => [](TypeOK /\ Safety /\ RwInv)
<1>1. TypeOK /\ Safety /\ RwInv /\ [RwNext]_allvars => (TypeOK /\ Safety /\ RwInv)'
  BY RwStep, TypeStep, SafetyStep DEF Safety
<1>2. RwInit => TypeOK /\ Safety /\ RwInv
  BY RwInitially
<1> QED
  BY <1>1, <1>2, PTL DEF RwSpec

-----------------------------------------------------------------------------

(* The reader/writer lock calls the scheduler as its contract allows.      *)
THEOREM RwImplementsSched == RwSpec => Spec
<1>1. RwInit => Init
  BY DEF RwInit, RumpInit
<1>2. TypeOK /\ Safety /\ RwInv /\ [RwNext]_allvars => [Next]_vars
  BY RwStep
<1> QED
  BY <1>1, <1>2, RwInvariant, PTL DEF RwSpec, Spec

(* rumpuser_rw_exit() leaves nobody asleep that could enter: with waiting  *)
(* writers one of them is about to try, and waiting readers are let in all *)
(* together.                                                               *)
THEOREM NoRwWakeupLost == RwSpec => []NoLostRwWakeup
<1>1. ASSUME TypeOK, RwInv
      PROVE  NoLostRwWakeup
  <2>1. /\ frame \in [Thread -> RwFrame] /\ Alive \subseteq Thread
        /\ HandedOn /\ current_thread \in Thread
    BY <1>1, AliveThreads DEF RwInv, RwQueues, RwType, TypeOK
  <2>2. WriterTries => Trying(wwait)
    BY <2>1, RwFrameKinds DEF WriterTries, Tries, Trying
  <2>3. frame[current_thread][1] = "wakeup_all" => frame[current_thread] = <<"wakeup_all">>
    BY <2>1, RwFrameKinds
  <2> QED
    BY <2>1, <2>2, <2>3 DEF HandedOn, NoLostRwWakeup
<1> QED
  BY <1>1, RwInvariant, PTL

(* Until a downgrade, v and the owner together count the threads that hold *)
(* the lock.                                                               *)
THEOREM RwHoldersCounted == RwSpec => []HoldersCounted
BY RwInvariant, PTL DEF RwInv, RwLocked

(* Exclusion is lost only by a writer entering among readers, or by a      *)
(* downgrade.                                                              *)
THEOREM RwExclusion == RwSpec => []WriterExcludes
BY RwInvariant, PTL DEF RwInv, RwLocked

(* The queues of the lock hold live waiters, and whoever is blocked in it  *)
(* has released the virtual CPU.                                           *)
THEOREM RwWaitQueues == RwSpec => [](WaitersLive /\ VcpuReleased)
<1>1. RwInv => WaitersLive /\ VcpuReleased
  BY DEF RwInv, RwQueues, OnCpu, VcpuReleased
<1> QED
  BY <1>1, RwInvariant, PTL
=============================================================================
