----------------------------- MODULE WaitQueue -----------------------------
(***************************************************************************)
(* The wait queues of rumpfiber.c, on which its mutexes, reader/writer     *)
(* locks and condition variables are built: wait(), wakeup_one() and       *)
(* wakeup_all().                                                           *)
(*                                                                         *)
(* A struct waiter lives on the stack of the thread inside wait(), so it   *)
(* is identified with that thread.                                         *)
(***************************************************************************)
EXTENDS Sched

CONSTANT WaitHead  \* the wait queues

VARIABLES
  waiters,  \* the TAILQ of every wait queue
  onlist    \* the flag of the struct waiter of every thread

wqvars == <<waiters, onlist>>

WaitInit ==
  /\ waiters = [h \in WaitHead |-> <<>>]
  /\ onlist = [t \in Thread |-> FALSE]

\* Mutant: the thread is not blocked.
wait_block_runnable(nsec) ==
  /\ cpu = "thread" /\ cpu' = "sched"
  /\ UNCHANGED <<threads, zombies, bt, current_thread, now>>

\* Mutant: the timeout is not armed.
wait_block_untimed(nsec) == Wait(0)

wait_block(nsec) == Wait(nsec)

(* wait(), up to and including its call of bmk_sched().                    *)
wait(h, nsec) ==
  /\ wait_block(nsec)
  /\ waiters' = [waiters EXCEPT ![h] = Append(@, current_thread)]
  /\ onlist' = [onlist EXCEPT ![current_thread] = TRUE]

\* Mutant: a waiter that timed out stays on the queue.
wait_return_linked(h) == UNCHANGED wqvars

(* The rest of wait(): a thread that is still on the queue when it runs    *)
(* again was not woken by wakeup_one() or wakeup_all().                    *)
wait_return(h) ==
  IF onlist[current_thread]
  THEN /\ \E i \in DOMAIN waiters[h] :
            /\ waiters[h][i] = current_thread
            /\ waiters' = [waiters EXCEPT ![h] = RemoveAt(@, i)]
       /\ UNCHANGED onlist
  ELSE UNCHANGED wqvars

\* Mutant: the waiter is taken off the queue but not woken.
wakeup_who_silent(t) == UNCHANGED vars

wakeup_who(t) == Wake(t)

wakeup_one(h) ==
  IF waiters[h] = <<>>
  THEN UNCHANGED <<vars, wqvars>>
  ELSE /\ waiters' = [waiters EXCEPT ![h] = Tail(@)]
       /\ onlist' = [onlist EXCEPT ![Head(waiters[h])] = FALSE]
       /\ wakeup_who(Head(waiters[h]))
=============================================================================
