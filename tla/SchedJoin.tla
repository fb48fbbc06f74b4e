----------------------------- MODULE SchedJoin -----------------------------
(***************************************************************************)
(* Joinable threads: rumpuser_thread_create/exit/join on top of sched.c,   *)
(* with the gate of bmk_sched_exit() and all of bmk_sched_join().          *)
(***************************************************************************)
EXTENDS Sched, FiniteSetsExt

VARIABLES
  joinable,  \* threads that were created with joinable = 1 and may be joined
  mustjoin,  \* threads with THREAD_MUSTJOIN set
  joined,    \* threads with THREAD_JOINED set
  joinwq,    \* the join_waiters, as <<jw_thread, jw_wanted>>
  gated,     \* threads that wait in the gate of bmk_sched_exit()
  failed     \* an assert of bmk_sched_join() did not hold: the system panics

jvars == <<joinable, mustjoin, joined, joinwq, gated, failed>>

JoinInit ==
  /\ Init
  /\ joinable = {} /\ mustjoin = {} /\ joined = {}
  /\ joinwq = <<>> /\ gated = {} /\ failed = FALSE

(* The current thread is in its own code, not inside exit or join.         *)
InThread ==
  /\ cpu = "thread" /\ ~ failed
  /\ current_thread \notin gated
  /\ \A i \in DOMAIN joinwq : joinwq[i][1] # current_thread

(* bmk_sched_create() receives joinable as thrflags, which it does not     *)
(* read: the flags of the new thread are only those set_runnable() sets.   *)
rumpuser_thread_create(t, thrflags) ==
  /\ InThread
  /\ bmk_sched_create(t)
  /\ joinable' = IF thrflags THEN joinable \cup {t} ELSE joinable \ {t}
  /\ mustjoin' = mustjoin \ {t}
  /\ joined' = joined \ {t}
  /\ UNCHANGED <<joinwq, gated, failed>>

(* The threads that wait for t to arrive at the gate.                      *)
JoinersOf(t) == {i \in DOMAIN joinwq : joinwq[i][2] = t}

(* bmk_sched_exit(), with the gate for threads that have to be joined.     *)
rumpuser_thread_exit ==
  /\ InThread \/ (cpu = "thread" /\ current_thread \in gated)
  /\ UNCHANGED <<joinable, mustjoin, joinwq, failed>>
  /\ IF current_thread \notin mustjoin
     THEN /\ bmk_sched_exit
          /\ gated' = gated \ {current_thread}
          /\ UNCHANGED joined
     ELSE /\ joined' = joined \cup {current_thread}
          /\ gated' = gated \cup {current_thread}
          /\ LET ws == JoinersOf(current_thread)
                 th == IF ws = {} THEN bt
                       ELSE bmk_sched_wake(bt, joinwq[Min(ws)][1])
             IN  bt' = bmk_sched_block(th, current_thread)
          /\ cpu' = "sched"
          /\ UNCHANGED <<threads, zombies, current_thread, now>>

(* The loop test of bmk_sched_join(): let t pass the gate once it is there,*)
(* queue up for it otherwise.  wq is joinwq without the caller.            *)
JoinLoop(t, wq) ==
  /\ UNCHANGED <<threads, zombies, current_thread, now, joined, gated, failed>>
  /\ IF t \in joined
     THEN /\ mustjoin' = mustjoin \ {t}
          /\ joinable' = joinable \ {t}
          /\ bt' = bmk_sched_wake(bt, t)
          /\ joinwq' = wq
          /\ UNCHANGED cpu
     ELSE /\ joinwq' = Append(wq, <<current_thread, t>>)
          /\ bt' = bmk_sched_block(bt, current_thread)
          /\ cpu' = "sched"
          /\ UNCHANGED <<mustjoin, joinable>>

(* bmk_sched_join() begins with assert(joinable->bt_flags &                *)
(* THREAD_MUSTJOIN), and a failed assert panics.                           *)
rumpuser_thread_join(t) ==
  /\ InThread
  /\ t \in joinable \ {current_thread}
  /\ IF t \in mustjoin
     THEN JoinLoop(t, joinwq)
     ELSE /\ failed' = TRUE
          /\ UNCHANGED <<vars, joinable, mustjoin, joined, joinwq, gated>>

(* The joiner returns from bmk_sched() and takes itself off joinwq.        *)
join_resume(i) ==
  /\ cpu = "thread"
  /\ joinwq[i][1] = current_thread
  /\ JoinLoop(joinwq[i][2], RemoveAt(joinwq, i))

JoinNext ==
  \/ \E t \in Thread, thrflags \in BOOLEAN : rumpuser_thread_create(t, thrflags)
  \/ rumpuser_thread_exit
  \/ \E t \in Thread : rumpuser_thread_join(t)
  \/ \E i \in DOMAIN joinwq : join_resume(i)
  \/ /\ \/ InThread /\ \E nsec \in Durations : bmk_sched_nanosleep(nsec)
        \/ bmk_sched
        \/ nanohlt_return
        \/ Tick
     /\ UNCHANGED jvars

JoinSpec == JoinInit /\ [][JoinNext]_<<vars, jvars>>

-----------------------------------------------------------------------------

(* A thread created as joinable can be joined: the asserts of              *)
(* bmk_sched_join() hold whenever rumpuser_thread_join() is called for it. *)
JoinableCanBeJoined == ~ failed
=============================================================================
