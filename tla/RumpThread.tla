----------------------------- MODULE RumpThread -----------------------------
(***************************************************************************)
(* A thread of the rump kernel as rumpfiber.c and rumpuser.c see it: it    *)
(* runs code of the rump kernel until it makes a rumpuser call.  The rump  *)
(* kernel has one virtual CPU, which a thread needs to run there.  Calls   *)
(* that block give it up by rumpkern_unsched() and take it back by         *)
(* rumpkern_sched() before they return.                                    *)
(***************************************************************************)
EXTENDS WaitQueue

CONSTANTS Interrupted,  \* threads bmk_isr() can wake at any time
          None

ASSUME RumpThreadAssumption ==
  /\ Interrupted \subseteq Thread
  /\ None \notin Thread

VARIABLES
  vcpu,     \* the thread the virtual CPU is scheduled to
  frame,    \* the rumpuser call every thread is in, with its arguments
  panicked  \* an assert failed or panic() was called

rvars == <<vcpu, frame, panicked>>

RumpInit ==
  /\ Init
  /\ WaitInit
  /\ vcpu = None
  /\ frame = [t \in Thread |-> <<"run">>]
  /\ panicked = FALSE

In(f) == cpu = "thread" /\ ~ panicked /\ frame[current_thread] = f

(* The current thread is in the rump kernel, with the virtual CPU.         *)
Running == In(<<"run">>) /\ vcpu = current_thread

Goto(f) == frame' = [frame EXCEPT ![current_thread] = f]

\* Mutant: the virtual CPU is kept.
rumpkern_unsched_not == UNCHANGED vcpu

rumpkern_unsched == vcpu' = None

rumpkern_sched == vcpu = None /\ vcpu' = current_thread

(* The end of a blocking call: rumpkern_sched() and return.                *)
Resume ==
  /\ rumpkern_sched
  /\ Goto(<<"run">>)

-----------------------------------------------------------------------------

(* The rump kernel schedules the thread to its virtual CPU, or releases it.*)
hyp_schedule ==
  /\ In(<<"run">>)
  /\ vcpu = None /\ vcpu' = current_thread
  /\ UNCHANGED <<vars, wqvars, frame, panicked>>

hyp_unschedule ==
  /\ Running
  /\ vcpu' = None
  /\ UNCHANGED <<vars, wqvars, frame, panicked>>

rumpuser_thread_create(t) ==
  /\ Running
  /\ bmk_sched_create(t)
  /\ frame' = [frame EXCEPT ![t] = <<"run">>]
  /\ UNCHANGED <<wqvars, vcpu, panicked>>

(* The rump kernel releases its virtual CPU before it ends a thread.       *)
rumpuser_thread_exit ==
  /\ In(<<"run">>)
  /\ vcpu # current_thread
  /\ bmk_sched_exit
  /\ UNCHANGED <<wqvars, rvars>>

rumpuser_clock_sleep(nsec) ==
  /\ Running
  /\ rumpkern_unsched
  /\ bmk_sched_nanosleep(nsec)
  /\ Goto(<<"sleep">>)
  /\ UNCHANGED <<wqvars, panicked>>

clock_sleep_return ==
  /\ In(<<"sleep">>)
  /\ Resume
  /\ UNCHANGED <<vars, wqvars, panicked>>

(* bmk_isr() wakes its thread, wherever that thread waits.                 *)
isr_wakes(t) ==
  /\ t \in Interrupted
  /\ ~ panicked
  /\ Wake(t)
  /\ UNCHANGED <<wqvars, rvars>>

RumpSched == bmk_sched /\ UNCHANGED <<wqvars, rvars>>
RumpHltReturn == nanohlt_return /\ UNCHANGED <<wqvars, rvars>>
RumpTick == ~ panicked /\ Tick /\ UNCHANGED <<wqvars, rvars>>

-----------------------------------------------------------------------------

(* The queue a thread is on or was taken off, if it is inside wait().      *)
WaitsOn(t, h) ==
  /\ frame[t][1] \in {"enter_wait", "cv_wait"}
  /\ frame[t][2] = h

(* A struct waiter is on a queue exactly while its onlist says so and the  *)
(* frame of wait() that holds it is live: no queue ever points into a      *)
(* stack frame that has returned, or into the stack of a thread that has   *)
(* exited.  A thread in wait() that is off its queue will run: whoever     *)
(* took it off woke it, and nothing has blocked it since.                  *)
WaitersLive ==
  \A h \in WaitHead :
    /\ IsInjective(waiters[h])
    /\ Range(waiters[h]) = {t \in Alive : WaitsOn(t, h) /\ onlist[t]}
    /\ \A t \in Alive : WaitsOn(t, h) /\ ~ onlist[t] => bt[t].runnable

(* Whoever does not run does not have the virtual CPU: every blocking call *)
(* gives it up, so that rumpkern_sched() never has to wait for it.         *)
VcpuReleased == vcpu # None => cpu = "thread" /\ current_thread = vcpu
=============================================================================
