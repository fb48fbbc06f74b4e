------------------------------- MODULE Sched -------------------------------
(***************************************************************************)
(* The cooperative thread scheduler of the bare metal kernel (sched.c).    *)
(*                                                                         *)
(* One CPU.  A thread keeps it until it calls bmk_sched(), so everything a *)
(* thread does between two such calls is one step.  bmk_sched() itself is  *)
(* several: a scan of the thread list that finds a thread to run, or one   *)
(* that finds none and halts the CPU until the next interrupt.             *)
(*                                                                         *)
(* A member of Thread is the address of a struct bmk_thread.  An address   *)
(* that is on neither list is unallocated: bmk_sched_create may be given   *)
(* any of those by the allocator, the address of a reaped thread included. *)
(***************************************************************************)
EXTENDS Integers, Sequences, Functions

CONSTANTS Thread,       \* addresses a struct bmk_thread can have
          init_thread,  \* the static structure of the boot thread
          MaxTime,      \* bound on the clock
          MaxSleep      \* bound on the length of one sleep

ASSUME ThreadAssumption == init_thread \in Thread

ASSUME TimeAssumption == MaxTime \in Nat /\ MaxSleep \in Nat

VARIABLES
  threads,         \* TAILQ of the live threads, in scan order
  zombies,         \* exited threads whose memory is not freed yet
  bt,              \* the fields of every struct bmk_thread
  current_thread,
  cpu,             \* what the CPU executes: the current thread, the scan of
                   \* bmk_sched() on its stack, or hlt on its stack
  now              \* bmk_clock_now()

vars == <<threads, zombies, bt, current_thread, cpu, now>>

-----------------------------------------------------------------------------

(* TAILQ_REMOVE of the element at position i.                              *)
RemoveAt(s, i) == SubSeq(s, 1, i - 1) \o SubSeq(s, i + 1, Len(s))

(* The saved instruction pointer btcb_ip: unset, at the entry of a thread  *)
(* that never ran, or behind the context switch inside bmk_sched().        *)
SavedIp == {"unset", "bouncer", "switched"}

BmkThread == [runnable: BOOLEAN, wakeup_time: -1..MaxTime, ip: SavedIp]

Unallocated == [runnable |-> FALSE, wakeup_time |-> -1, ip |-> "unset"]

set_runnable(th, t) == [th EXCEPT ![t].runnable = TRUE]

clear_runnable(th, t) == [th EXCEPT ![t].runnable = FALSE]

\* Mutant: one unit late.
bmk_sched_setwakeup_late(th, t, abstime) ==
  [th EXCEPT ![t].wakeup_time = abstime + 1]

bmk_sched_setwakeup(th, t, abstime) ==
  [th EXCEPT ![t].wakeup_time = abstime]

\* Mutant: the timeout stays armed.
bmk_sched_wake_armed(th, t) == set_runnable(th, t)

bmk_sched_wake(th, t) == set_runnable(bmk_sched_setwakeup(th, t, -1), t)

bmk_sched_block(th, t) == clear_runnable(bmk_sched_setwakeup(th, t, -1), t)

Alive == Range(threads)

\* Mutant: takes a wakeup time of 0 for an unarmed timeout.
Expired_positive(t) ==
  /\ ~ bt[t].runnable
  /\ bt[t].wakeup_time > 0
  /\ bt[t].wakeup_time =< now

(* The sleep of t is over, but no scan has come across t yet.              *)
Expired(t) ==
  /\ ~ bt[t].runnable
  /\ bt[t].wakeup_time >= 0
  /\ bt[t].wakeup_time =< now

(* The scan of bmk_sched() stops at t.                                     *)
Pickable(t) == bt[t].runnable \/ Expired(t)

-----------------------------------------------------------------------------

(* Boot: bmk_sched_init() enters the running context as init_thread.       *)
Init ==
  /\ threads = <<init_thread>>
  /\ zombies = {}
  /\ bt = [t \in Thread |->
             [Unallocated EXCEPT !.runnable = (t = init_thread)]]
  /\ current_thread = init_thread
  /\ cpu = "thread"
  /\ now = 0

(* A new thread goes to the head of the list, ready to enter the bouncer.  *)
bmk_sched_create(t) ==
  /\ cpu = "thread"
  /\ t \in Thread \ (Alive \cup zombies \cup {init_thread})
  /\ bt' = [bt EXCEPT ![t] = [runnable |-> TRUE, wakeup_time |-> -1,
                              ip |-> "bouncer"]]
  /\ threads' = <<t>> \o threads
  /\ UNCHANGED <<zombies, current_thread, cpu, now>>

(* A thread on the list is woken: by the current thread, or by bmk_isr()   *)
(* in an interrupt, which can hit bmk_sched() and hlt too.                 *)
Wake(t) ==
  /\ t \in Alive
  /\ bt' = bmk_sched_wake(bt, t)
  /\ UNCHANGED <<threads, zombies, current_thread, cpu, now>>

(* wait(): block, arm the timeout unless nsec is 0, and reschedule.        *)
Wait(nsec) ==
  /\ cpu = "thread"
  /\ now + nsec =< MaxTime
  /\ LET blocked == bmk_sched_block(bt, current_thread)
     IN  bt' = IF nsec = 0 THEN blocked
               ELSE bmk_sched_setwakeup(blocked, current_thread, now + nsec)
  /\ cpu' = "sched"
  /\ UNCHANGED <<threads, zombies, current_thread, now>>

bmk_sched_nanosleep(nsec) ==
  /\ cpu = "thread"
  /\ now + nsec =< MaxTime
  /\ bt' = clear_runnable(
             bmk_sched_setwakeup(bt, current_thread, now + nsec),
             current_thread)
  /\ cpu' = "sched"
  /\ UNCHANGED <<threads, zombies, current_thread, now>>

\* Mutant: the exiting thread stays on the list.
unlink_current_not == UNCHANGED threads

unlink_current ==
  \E i \in DOMAIN threads : /\ threads[i] = current_thread
                            /\ threads' = RemoveAt(threads, i)

\* Mutant: the exiting thread frees itself instead of becoming a zombie.
bury_current_free ==
  /\ bt' = [bt EXCEPT ![current_thread] = Unallocated]
  /\ UNCHANGED zombies

bury_current ==
  /\ bt' = clear_runnable(bt, current_thread)
  /\ zombies' = zombies \cup {current_thread}

(* The gate for joinable threads is never taken: nothing in the code sets  *)
(* THREAD_MUSTJOIN (see SchedJoin).  The boot thread runs bmk_main() and   *)
(* does not exit through here.                                             *)
bmk_sched_exit ==
  /\ cpu = "thread"
  /\ current_thread # init_thread
  /\ unlink_current
  /\ bury_current
  /\ cpu' = "sched"
  /\ UNCHANGED <<current_thread, now>>

-----------------------------------------------------------------------------

\* Mutant: no resume point is stored.
sched_switch_unsaved(th, prev) == th

(* bmk_cpu_sched_switch() stores a resume point in prev's control block.   *)
sched_switch(th, prev) == [th EXCEPT ![prev].ip = "switched"]

(* Position i is the first one the scan can stop at.                       *)
FirstPickable(i) ==
  /\ Pickable(threads[i])
  /\ \A j \in 1..(i - 1) : ~ Pickable(threads[j])

(* What follows the switch in bmk_sched(), on the stack of the thread that *)
(* now runs: a thread entering through the bouncer does not come by here.  *)
(* The local variable prev is that thread's own, hence next itself.        *)
Reaped(prev, next) ==
  IF prev = next \/ bt[next].ip = "switched" THEN zombies \ {next} ELSE {}

\* Mutant: the thread goes back to the head of the list.
Requeued_head(i) == <<threads[i]>> \o RemoveAt(threads, i)

\* Mutant: the list is not rotated.
Requeued_still(i) == threads

(* "Put this thread on the end of the list"                                *)
Requeued(i) == Append(RemoveAt(threads, i), threads[i])

(* bmk_sched(): a scan that finds a thread to run.                         *)
bmk_sched_run(i) ==
  LET prev   == current_thread
      next   == threads[i]
      woken  == IF Expired(next) THEN bmk_sched_wake(bt, next) ELSE bt
      saved  == IF prev = next THEN woken ELSE sched_switch(woken, prev)
      reaped == Reaped(prev, next)
  IN  /\ cpu = "sched"
      /\ FirstPickable(i)
      /\ threads' = Requeued(i)
      /\ current_thread' = next
      /\ zombies' = zombies \ reaped
      /\ bt' = [t \in Thread |-> IF t \in reaped THEN Unallocated
                                 ELSE saved[t]]
      /\ cpu' = "thread"
      /\ UNCHANGED now

(* bmk_sched(): a scan that finds nothing to run ends in bmk_cpu_nanohlt().*)
bmk_sched_idle ==
  /\ cpu = "sched"
  /\ \A t \in Alive : ~ Pickable(t)
  /\ cpu' = "hlt"
  /\ UNCHANGED <<threads, zombies, bt, current_thread, now>>

(* An interrupt, at the latest the 100Hz clock that nanohlt unmasks, ends  *)
(* the hlt and bmk_sched() scans again.                                    *)
nanohlt_return ==
  /\ cpu = "hlt"
  /\ cpu' = "sched"
  /\ UNCHANGED <<threads, zombies, bt, current_thread, now>>

(* The time stamp counter advances.                                        *)
Tick ==
  /\ now < MaxTime
  /\ now' = now + 1
  /\ UNCHANGED <<threads, zombies, bt, current_thread, cpu>>

-----------------------------------------------------------------------------

Durations == 0..MaxSleep

(* The ways a thread gives the CPU up.                                     *)
Yield ==
  \/ \E nsec \in Durations : Wait(nsec) \/ bmk_sched_nanosleep(nsec)
  \/ bmk_sched_exit

bmk_sched == (\E i \in DOMAIN threads : bmk_sched_run(i)) \/ bmk_sched_idle

Next ==
  \/ \E t \in Thread : bmk_sched_create(t) \/ Wake(t)
  \/ Yield
  \/ bmk_sched
  \/ nanohlt_return
  \/ Tick

Spec == Init /\ [][Next]_vars

(* The scheduler's own steps and the clock do not stop, and the scheduler  *)
(* being cooperative, neither does a thread on its way to its next call of *)
(* bmk_sched().                                                            *)
Fairness ==
  /\ WF_vars(bmk_sched)
  /\ WF_vars(nanohlt_return)
  /\ WF_vars(Tick)
  /\ WF_vars(Yield)

-----------------------------------------------------------------------------

TypeOK ==
  /\ threads \in Seq(Thread)
  /\ zombies \in SUBSET Thread
  /\ bt \in [Thread -> BmkThread]
  /\ current_thread \in Thread
  /\ cpu \in {"thread", "sched", "hlt"}
  /\ now \in 0..MaxTime

(* The lists stay proper tail queues: no thread is twice on the list that   *)
(* bmk_sched() scans, and none is both schedulable and waiting to be freed. *)
ListsIntact ==
  /\ IsInjective(threads)
  /\ Alive \cap zombies = {}

(* The CPU never executes on the stack of a thread whose memory has been   *)
(* given back: the current thread is live, or it is the zombie that looks  *)
(* for a successor in bmk_sched() (the reaper's "thread != prev").         *)
StackNotFreed ==
  \/ current_thread \in Alive
  \/ current_thread \in zombies /\ cpu # "thread"

(* Every thread the scan can switch to has a saved context: only the one   *)
(* on the CPU may lack it.                                                 *)
ContextSaved ==
  \A t \in Alive \ {current_thread} : bt[t].ip # "unset"

(* The thread on the CPU is runnable and a runnable thread has no armed    *)
(* timeout: what woke it disarmed it.                                      *)
RunnableDisarmed ==
  /\ cpu = "thread" => bt[current_thread].runnable
  /\ \A t \in Alive : bt[t].runnable => bt[t].wakeup_time = -1

(* The inductive invariant of the proofs.                                  *)
Safety ==
  /\ ListsIntact
  /\ StackNotFreed
  /\ ContextSaved
  /\ RunnableDisarmed

(* Starvation freedom: a runnable thread gets the CPU, whatever the others *)
(* do, thread creation at the head of the list included.                   *)
RunnableRuns ==
  \A t \in Thread :
    (t \in Alive /\ bt[t].runnable) ~> (cpu = "thread" /\ current_thread = t)

(* A thread that blocked with a timeout runs again.                        *)
SleeperRuns ==
  \A t \in Thread :
    (t \in Alive /\ bt[t].wakeup_time >= 0)
      ~> (cpu = "thread" /\ current_thread = t)
=============================================================================
