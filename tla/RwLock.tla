------------------------------- MODULE RwLock -------------------------------
(***************************************************************************)
(* The reader/writer locks of rumpfiber.c: one lock, used by the threads   *)
(* of the rump kernel.  A thread enters the lock when it does not hold it, *)
(* leaves, downgrades or upgrades it when it does, and may block while     *)
(* holding it.                                                             *)
(***************************************************************************)
EXTENDS RumpThread, FiniteSets

CONSTANTS rwait, wwait  \* the two wait queues of the lock

ASSUME RwAssumption == rwait # wwait /\ WaitHead = {rwait, wwait}

VARIABLES
  rw,         \* v and o of the lock
  hold,       \* how every thread holds it, as far as the thread can tell
  overlap,    \* a writer has entered while there were readers
  downgraded  \* rumpuser_rw_downgrade() has been called

lvars == <<rw, hold, overlap, downgraded>>
allvars == <<vars, wqvars, rvars, lvars>>

Kind == {"reader", "writer"}

(* The queue a thread waits on to enter the lock as lk.                    *)
Queue(lk) == IF lk = "writer" THEN wwait ELSE rwait

RwInit ==
  /\ RumpInit
  /\ rw = [v |-> 0, o |-> None]
  /\ hold = [t \in Thread |-> "none"]
  /\ overlap = FALSE /\ downgraded = FALSE

-----------------------------------------------------------------------------

\* Mutant: readers only look at the waiting writers.
Free_waiting(lk) ==
  IF lk = "writer" THEN rw.o = None ELSE waiters[wwait] = <<>>

(* rumpuser_rw_tryenter() succeeds: a writer does not look for readers.    *)
Free(lk) ==
  /\ rw.o = None
  /\ lk = "reader" => waiters[wwait] = <<>>

rumpuser_rw_tryenter(lk) ==
  /\ rw' = IF lk = "writer" THEN [rw EXCEPT !.o = current_thread]
                            ELSE [rw EXCEPT !.v = @ + 1]
  /\ hold' = [hold EXCEPT ![current_thread] = lk]
  /\ overlap' = (overlap \/ (lk = "writer" /\ rw.v > 0))
  /\ UNCHANGED downgraded

rumpuser_rw_enter(lk) ==
  /\ Running
  /\ hold[current_thread] = "none"
  /\ IF Free(lk)
     THEN /\ rumpuser_rw_tryenter(lk)
          /\ UNCHANGED <<vcpu, frame>>
     ELSE /\ rumpkern_unsched
          /\ Goto(<<"enter", Queue(lk)>>)
          /\ UNCHANGED lvars
  /\ UNCHANGED <<vars, wqvars, panicked>>

rw_enter_loop(lk) ==
  /\ In(<<"enter", Queue(lk)>>)
  /\ IF Free(lk)
     THEN /\ rumpuser_rw_tryenter(lk)
          /\ Resume
          /\ UNCHANGED <<vars, wqvars>>
     ELSE /\ wait(Queue(lk), 0)
          /\ Goto(<<"enter_wait", Queue(lk)>>)
          /\ UNCHANGED <<vcpu, lvars>>
  /\ UNCHANGED panicked

rw_enter_woken(lk) ==
  /\ In(<<"enter_wait", Queue(lk)>>)
  /\ wait_return(Queue(lk))
  /\ Goto(<<"enter", Queue(lk)>>)
  /\ UNCHANGED <<vars, vcpu, panicked, lvars>>

\* Mutant: a reader that leaves is not counted.
rw_release_owner == rw' = [rw EXCEPT !.o = None]

(* The first half of rumpuser_rw_exit(): whoever leaves while there is an  *)
(* owner takes the owner away.                                             *)
rw_release ==
  rw' = IF rw.o # None THEN [rw EXCEPT !.o = None] ELSE [rw EXCEPT !.v = @ - 1]

\* Mutant: only one of the readers is woken.
rw_exit_wake_one ==
  /\ wakeup_one(IF waiters[wwait] # <<>> THEN wwait ELSE rwait)
  /\ UNCHANGED frame

(* The second half: wake one writer, or else all readers.                  *)
rw_exit_wake ==
  IF waiters[wwait] # <<>> \/ waiters[rwait] = <<>>
  THEN wakeup_one(wwait) /\ UNCHANGED frame
  ELSE wakeup_one(rwait) /\ Goto(<<"wakeup_all">>)

rumpuser_rw_exit ==
  /\ Running
  /\ hold[current_thread] # "none"
  /\ rw_release
  /\ hold' = [hold EXCEPT ![current_thread] = "none"]
  /\ rw_exit_wake
  /\ UNCHANGED <<vcpu, panicked, overlap, downgraded>>

(* The readers are woken one after the other.                              *)
rw_wakeup_all ==
  /\ In(<<"wakeup_all">>)
  /\ wakeup_one(rwait)
  /\ IF waiters[rwait] = <<>> THEN Goto(<<"run">>) ELSE UNCHANGED frame
  /\ UNCHANGED <<vcpu, panicked, lvars>>

(* rumpuser_rw_downgrade() asserts that its caller is the owner.           *)
rumpuser_rw_downgrade ==
  /\ Running
  /\ hold[current_thread] = "writer"
  /\ IF rw.o = current_thread
     THEN /\ rw' = [rw EXCEPT !.v = -1]
          /\ hold' = [hold EXCEPT ![current_thread] = "reader"]
          /\ downgraded' = TRUE
          /\ UNCHANGED panicked
     ELSE panicked' = TRUE /\ UNCHANGED <<rw, hold, downgraded>>
  /\ UNCHANGED <<vars, wqvars, vcpu, frame, overlap>>

rumpuser_rw_tryupgrade ==
  /\ Running
  /\ hold[current_thread] = "reader"
  /\ rw.v = -1
  /\ rw' = [v |-> 1, o |-> current_thread]
  /\ hold' = [hold EXCEPT ![current_thread] = "writer"]
  /\ UNCHANGED <<vars, wqvars, rvars, overlap, downgraded>>

(* What rumpuser_rw_held() tells thread t.                                 *)
rumpuser_rw_held(lk, t) == IF lk = "writer" THEN rw.o = t ELSE rw.v > 0

(* The lock is destroyed when nobody uses it, and its memory initialised   *)
(* again by rumpuser_rw_init().                                            *)
rumpuser_rw_destroy ==
  /\ Running
  /\ \A t \in Alive :
       hold[t] = "none" /\ frame[t][1] \notin {"enter", "enter_wait"}
  /\ rw' = [v |-> 0, o |-> None]
  /\ overlap' = FALSE /\ downgraded' = FALSE
  /\ UNCHANGED <<vars, wqvars, rvars, hold>>

-----------------------------------------------------------------------------

ThreadCall ==
  /\ \/ /\ hold[current_thread] = "none"
        /\ hyp_schedule \/ hyp_unschedule \/ rumpuser_thread_exit
     \/ \E t \in Thread : rumpuser_thread_create(t)
     \/ \E nsec \in Durations : rumpuser_clock_sleep(nsec)
     \/ clock_sleep_return
     \/ RumpSched \/ RumpHltReturn \/ RumpTick
     \/ \E t \in Thread : isr_wakes(t)
  /\ UNCHANGED lvars

RwNext ==
  \/ \E lk \in Kind : \/ rumpuser_rw_enter(lk)
                      \/ rw_enter_loop(lk)
                      \/ rw_enter_woken(lk)
  \/ rumpuser_rw_exit
  \/ rw_wakeup_all
  \/ rumpuser_rw_downgrade
  \/ rumpuser_rw_tryupgrade
  \/ rumpuser_rw_destroy
  \/ ThreadCall

RwSpec == RwInit /\ [][RwNext]_allvars

-----------------------------------------------------------------------------

(* A runnable thread is in the loop of rumpuser_rw_enter() for queue h, on *)
(* its way to the next try.                                                *)
Trying(h) ==
  \E t \in Alive : /\ bt[t].runnable
                   /\ frame[t] \in {<<"enter", h>>, <<"enter_wait", h>>}

(* No lost wakeup: when the lock has no owner and a writer waits, another  *)
(* writer is about to try; when only readers wait, all of them are let in  *)
(* at once: none is left sleeping unless a writer is about to try or the   *)
(* loop that wakes them is not done.                                       *)
NoLostRwWakeup ==
  rw.o = None =>
    /\ waiters[wwait] # <<>> => Trying(wwait)
    /\ waiters[wwait] = <<>> /\ waiters[rwait] # <<>> =>
         Trying(wwait) \/ frame[current_thread] = <<"wakeup_all">>

(* The lock knows how many hold it, although it may not know who: v plus   *)
(* the owner are the holders, until a downgrade overwrites v.              *)
HoldersCounted ==
  ~ downgraded =>
    rw.v + (IF rw.o = None THEN 0 ELSE 1)
      = Cardinality({t \in Alive : hold[t] # "none"})

(* Exclusion, as far as it goes: it is lost only by a writer that enters   *)
(* while there are readers, or by a downgrade.  Until then                 *)
(* rumpuser_rw_held() tells a thread whether it is the writer, and whether *)
(* there are readers.                                                      *)
WriterExcludes ==
  ~ overlap /\ ~ downgraded =>
    \A t \in Alive :
      /\ hold[t] = "writer" => \A u \in Alive \ {t} : hold[u] = "none"
      /\ hold[t] = "writer" <=> rumpuser_rw_held("writer", t)
      /\ rumpuser_rw_held("reader", t) <=> \E u \in Alive : hold[u] = "reader"

(* The assert of rumpuser_rw_downgrade(): who holds the lock as a writer   *)
(* owns it.                                                                *)
DowngradeByOwner == ~ panicked
=============================================================================
