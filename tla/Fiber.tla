------------------------------- MODULE Fiber -------------------------------
(***************************************************************************)
(* The mutexes and condition variables of rumpfiber.c.                     *)
(*                                                                         *)
(* What a thread does between two calls is up to the rump kernel, so any   *)
(* thread may make any call that the contract of the calls allows:         *)
(*   - the nowrap calls are made with or without the virtual CPU, the      *)
(*     others with it;                                                     *)
(*   - a thread does not block while it holds a spin mutex, except that    *)
(*     the mutex given to a condition variable is released while waiting;  *)
(*   - a thread holds no mutex when it leaves the rump kernel or exits.    *)
(***************************************************************************)
EXTENDS RumpThread, FiniteSets

CONSTANTS Mutex, CV,
          Spin,         \* the spin mutexes; the others are adaptive
          Interlock,    \* the mutexes used with condition variables
          MaxDepth      \* bound on the recursion of a mutex

ASSUME FiberAssumption ==
  /\ WaitHead = Mutex \cup CV /\ Mutex \cap CV = {}
  /\ Spin \subseteq Mutex /\ Interlock \subseteq Mutex
  /\ MaxDepth \in Nat

VARIABLES
  mtx,      \* v and o of every mutex
  nwaiters  \* of every condition variable

mvars == <<mtx, nwaiters>>
allvars == <<vars, wqvars, rvars, mvars>>

FiberInit ==
  /\ RumpInit
  /\ mtx = [m \in Mutex |-> [v |-> 0, o |-> None]]
  /\ nwaiters = [c \in CV |-> 0]

Held(t) == {m \in Mutex : mtx[m].v > 0 /\ mtx[m].o = t}

-----------------------------------------------------------------------------

(* rumpuser_mutex_tryenter() succeeds.                                     *)
Free(m) == mtx[m].v = 0 \/ mtx[m].o = current_thread

tryenter(m) == mtx' = [mtx EXCEPT ![m] = [v |-> @.v + 1, o |-> current_thread]]

(* rumpuser_mutex_enter() of an adaptive mutex: when it is taken, give the *)
(* virtual CPU up and loop.                                                *)
rumpuser_mutex_enter(m) ==
  /\ Running
  /\ m \notin Spin /\ Held(current_thread) \cap Spin = {}
  /\ IF Free(m)
     THEN /\ mtx[m].v < MaxDepth
          /\ tryenter(m)
          /\ UNCHANGED <<vcpu, frame>>
     ELSE /\ rumpkern_unsched
          /\ Goto(<<"enter", m>>)
          /\ UNCHANGED mtx
  /\ UNCHANGED <<vars, wqvars, nwaiters, panicked>>

(* The loop: take the mutex and the virtual CPU, or wait ...               *)
mutex_enter_loop(m) ==
  /\ In(<<"enter", m>>)
  /\ IF Free(m)
     THEN /\ tryenter(m)
          /\ Resume
          /\ UNCHANGED <<vars, wqvars>>
     ELSE /\ wait(m, 0)
          /\ Goto(<<"enter_wait", m>>)
          /\ UNCHANGED <<mtx, vcpu>>
  /\ UNCHANGED <<nwaiters, panicked>>

(* ... and go round again, whatever ended the wait.                        *)
mutex_enter_woken(m) ==
  /\ In(<<"enter_wait", m>>)
  /\ wait_return(m)
  /\ Goto(<<"enter", m>>)
  /\ UNCHANGED <<vars, mtx, nwaiters, vcpu, panicked>>

(* For spin mutexes: the comment in the code says that it "must succeed".  *)
rumpuser_mutex_enter_nowrap(m) ==
  /\ In(<<"run">>)
  /\ m \in Spin
  /\ mtx[m].o # current_thread
  /\ IF Free(m) THEN tryenter(m) /\ UNCHANGED panicked
                ELSE panicked' = TRUE /\ UNCHANGED mtx
  /\ UNCHANGED <<vars, wqvars, nwaiters, vcpu, frame>>

\* Mutant: nobody is woken.
mutex_exit_silent(m) ==
  /\ mtx' = [mtx EXCEPT ![m] = IF @.v = 1 THEN [v |-> 0, o |-> None]
                               ELSE [v |-> @.v - 1, o |-> @.o]]
  /\ UNCHANGED <<vars, wqvars>>

mutex_exit(m) ==
  IF mtx[m].v = 1
  THEN mtx' = [mtx EXCEPT ![m] = [v |-> 0, o |-> None]] /\ wakeup_one(m)
  ELSE mtx' = [mtx EXCEPT ![m].v = @ - 1] /\ UNCHANGED <<vars, wqvars>>

rumpuser_mutex_exit(m) ==
  /\ In(<<"run">>)
  /\ m \in Held(current_thread)
  /\ mutex_exit(m)
  /\ UNCHANGED <<nwaiters, vcpu, frame, panicked>>

(* A thread is inside a call that was given x.                             *)
Used(x) == \E t \in Alive : x \in Range(frame[t])

rumpuser_mutex_owner(m) == mtx[m].o

(* The rump kernel destroys a mutex it does not use any more, and gets the *)
(* same memory back from rumpuser_mutex_init().                            *)
rumpuser_mutex_destroy(m) ==
  /\ In(<<"run">>)
  /\ ~ Used(m) /\ \A t \in Alive : m \notin Held(t)
  /\ IF waiters[m] = <<>> /\ rumpuser_mutex_owner(m) = None
     THEN /\ mtx' = [mtx EXCEPT ![m] = [v |-> 0, o |-> None]]
          /\ UNCHANGED panicked
     ELSE panicked' = TRUE /\ UNCHANGED mtx
  /\ UNCHANGED <<vars, wqvars, nwaiters, vcpu, frame>>

-----------------------------------------------------------------------------

\* Mutant: the mutex is kept while waiting.
cv_unsched_held(m) == rumpkern_unsched /\ UNCHANGED <<vars, wqvars, mtx>>

cv_unsched(m) == rumpkern_unsched /\ mutex_exit(m)

\* Mutant: the waiter is not counted.
cv_count_not(c) == UNCHANGED nwaiters

cv_count(c) == nwaiters' = [nwaiters EXCEPT ![c] = @ + 1]

(* rumpuser_cv_wait(), timedwait() and, without the virtual CPU,           *)
(* wait_nowrap(): release the mutex ...                                    *)
rumpuser_cv_wait(c, m, nsec) ==
  /\ In(<<"run">>)
  /\ now + nsec =< MaxTime
  /\ m \in Interlock \cap Held(current_thread) /\ mtx[m].v = 1
  /\ (Held(current_thread) \ {m}) \cap Spin = {}
  /\ cv_count(c)
  /\ cv_unsched(m)
  /\ Goto(<<"cv_exit", c, m, nsec, vcpu = current_thread>>)
  /\ UNCHANGED panicked

(* ... wait, with the timeout if there is one ...                          *)
cv_wait_begin(c, m, nsec, wrap) ==
  /\ In(<<"cv_exit", c, m, nsec, wrap>>)
  /\ wait(c, nsec)
  /\ Goto(<<"cv_wait", c, m, nsec, wrap>>)
  /\ UNCHANGED <<mtx, nwaiters, vcpu, panicked>>

(* ... and take the mutex back by rumpuser_mutex_enter_nowrap(), adaptive  *)
(* or not.                                                                 *)
cv_wait_end(c, m, nsec, wrap) ==
  /\ In(<<"cv_wait", c, m, nsec, wrap>>)
  /\ wait_return(c)
  /\ IF Free(m)
     THEN /\ tryenter(m)
          /\ wrap => vcpu = None
          /\ vcpu' = IF wrap THEN current_thread ELSE vcpu
          /\ nwaiters' = [nwaiters EXCEPT ![c] = @ - 1]
          /\ Goto(<<"run">>)
          /\ UNCHANGED panicked
     ELSE /\ panicked' = TRUE
          /\ UNCHANGED <<mtx, nwaiters, vcpu, frame>>
  /\ UNCHANGED vars

rumpuser_cv_signal(c) ==
  /\ In(<<"run">>)
  /\ wakeup_one(c)
  /\ UNCHANGED <<rvars, mvars>>

(* wakeup_all() wakes one waiter after the other.                          *)
rumpuser_cv_broadcast(c) ==
  /\ In(<<"run">>) \/ In(<<"broadcast", c>>)
  /\ wakeup_one(c)
  /\ IF waiters[c] = <<>> THEN Goto(<<"run">>) ELSE Goto(<<"broadcast", c>>)
  /\ UNCHANGED <<mtx, nwaiters, vcpu, panicked>>

rumpuser_cv_has_waiters(c) == nwaiters[c] # 0

(* As for mutexes, the memory goes to the next rumpuser_cv_init().         *)
rumpuser_cv_destroy(c) ==
  /\ In(<<"run">>)
  /\ ~ Used(c)
  /\ panicked' = rumpuser_cv_has_waiters(c)
  /\ UNCHANGED <<vars, wqvars, mvars, vcpu, frame>>

-----------------------------------------------------------------------------

(* Calls of the current thread that leave mutexes and condition variables  *)
(* alone.                                                                  *)
ThreadCall ==
  /\ \/ /\ Held(current_thread) = {}
        /\ hyp_schedule \/ hyp_unschedule \/ rumpuser_thread_exit
     \/ \E t \in Thread : rumpuser_thread_create(t)
     \/ /\ Held(current_thread) \cap Spin = {}
        /\ \E nsec \in Durations : rumpuser_clock_sleep(nsec)
  /\ UNCHANGED mvars

MutexCall ==
  \E m \in Mutex : \/ rumpuser_mutex_enter(m)
                   \/ rumpuser_mutex_enter_nowrap(m)
                   \/ rumpuser_mutex_exit(m)
                   \/ rumpuser_mutex_destroy(m)

CvCall ==
  \E c \in CV :
    \/ \E m \in Mutex, nsec \in Durations : rumpuser_cv_wait(c, m, nsec)
    \/ rumpuser_cv_signal(c)
    \/ rumpuser_cv_destroy(c)
    \/ In(<<"run">>) /\ rumpuser_cv_broadcast(c)

Call == ThreadCall \/ MutexCall \/ CvCall

(* Steps that go on with a call the current thread has made.               *)
Continue ==
  \/ \E m \in Mutex : mutex_enter_loop(m) \/ mutex_enter_woken(m)
  \/ \E c \in CV, m \in Mutex, nsec \in Durations, wrap \in BOOLEAN :
       cv_wait_begin(c, m, nsec, wrap) \/ cv_wait_end(c, m, nsec, wrap)
  \/ \E c \in CV : In(<<"broadcast", c>>) /\ rumpuser_cv_broadcast(c)
  \/ clock_sleep_return /\ UNCHANGED mvars

(* Time passes before or after a call of rumpuser_cv_wait(), not between   *)
(* its steps: the bound on the clock is tested when the call is made.      *)
FiberTick ==
  /\ cpu = "thread" => frame[current_thread][1] # "cv_exit"
  /\ RumpTick

FiberNext ==
  \/ Call
  \/ Continue
  \/ /\ RumpSched \/ RumpHltReturn \/ FiberTick \/ \E t \in Thread : isr_wakes(t)
     /\ UNCHANGED mvars

FiberSpec == FiberInit /\ [][FiberNext]_allvars

(* A thread does not run for ever without a call that blocks or exits, nor *)
(* with a spin mutex that keeps it from blocking, nor outside the rump     *)
(* kernel.  Everything else that can go on does.                           *)
FiberFairness ==
  /\ WF_allvars(Continue)
  /\ WF_allvars(RumpSched /\ UNCHANGED mvars)
  /\ WF_allvars(RumpHltReturn /\ UNCHANGED mvars)
  /\ SF_allvars(FiberTick /\ UNCHANGED mvars)
  /\ SF_allvars(Call /\ cpu' # "thread")
  /\ SF_allvars(\E m \in Spin : rumpuser_mutex_exit(m))
  /\ SF_allvars(hyp_schedule /\ UNCHANGED mvars)

FiberFairSpec == FiberSpec /\ FiberFairness

-----------------------------------------------------------------------------

(* No lost wakeup: a mutex that is entered has a live owner, which is not  *)
(* queueing for it; when a mutex is free and threads wait for it, one of   *)
(* those that entered the loop is on its way to try again.                 *)
NoLostWakeup ==
  \A m \in Mutex :
    /\ mtx[m].v = 0 <=> mtx[m].o = None
    /\ mtx[m].o # None => /\ mtx[m].o \in Alive
                          /\ frame[mtx[m].o] # <<"enter_wait", m>>
    /\ mtx[m].v = 0 /\ waiters[m] # <<>> =>
         \E t \in Alive : /\ bt[t].runnable
                          /\ \/ frame[t] = <<"enter", m>>
                             \/ frame[t] = <<"enter_wait", m>>

(* nwaiters counts the threads between the two ends of rumpuser_cv_wait(). *)
WaitersCounted ==
  \A c \in CV :
    nwaiters[c] =
      Cardinality({t \in Alive : frame[t][1] \in {"cv_exit", "cv_wait"}
                                 /\ frame[t][2] = c})

(* "one VCPU supported, no preemption => must succeed": taking a mutex by  *)
(* rumpuser_mutex_enter_nowrap() never finds it taken; and the asserts of  *)
(* the destroy calls hold.                                                 *)
NowrapSucceeds == ~ panicked

(* A wait with a timeout ends, with or without a signal.  A timeout of     *)
(* zero is none: wait() then arms nothing.                                 *)
TimedWaitEnds ==
  \A t \in Thread :
    (t \in Alive /\ frame[t][1] = "cv_wait" /\ frame[t][4] > 0)
      ~> (frame[t] = <<"run">>)

(* A waiter that was signalled returns.                                    *)
SignalledReturns ==
  \A t \in Thread :
    (t \in Alive /\ frame[t][1] = "cv_wait" /\ ~ onlist[t])
      ~> (frame[t] = <<"run">>)
=============================================================================
