--------------------------------- MODULE Lwp --------------------------------
(***************************************************************************)
(* What belongs to a thread beside its stack: the lwp of the rump kernel,  *)
(* kept in its TLS (rumpuser_curlwpop() of rumpfiber.c), and errno.  An    *)
(* lwp can leave one thread and go on in another one, and it is the lwp    *)
(* that owns a mutex.  The memory of a thread that exits is used again.    *)
(*                                                                         *)
(* The scheduler (Sched) is reduced to what matters here: who runs.        *)
(***************************************************************************)
EXTENDS Integers

CONSTANTS Thread,  \* addresses of threads
          Lwp,     \* lwps of the rump kernel
          NoLwp,   \* NULL
          Error,   \* values of errno
          MaxLock  \* bound: how often the mutex is entered

ASSUME LwpAssumption ==
  /\ NoLwp \notin Thread \cup Lwp
  /\ 0 \in Error
  /\ MaxLock \in Nat

VARIABLES
  alive,           \* the threads there are
  current_thread,
  tls,             \* bt_tls[BMK_TLS_RUMPLWP] of every thread
  bt_errno,
  mtx,             \* a struct rumpuser_mtx: v, o
  held,            \* history: how often every lwp has entered the mutex,
                   \* and how often threads without one have
  bound,           \* the lwp the rump kernel has bound to every thread
  errno_set,       \* history: what every thread last stored into errno
  panicked

lwpvars == <<alive, current_thread, tls, bt_errno, mtx, held, bound, errno_set, panicked>>

(* What the owner of a mutex can be; NULL for all threads without an lwp.  *)
Owner == Lwp \cup {NoLwp}

bmk_sched_gettls(t) == tls[t]
rumpuser_curlwp == bmk_sched_gettls(current_thread)
bmk_sched_settls(t, value) == tls' = [tls EXCEPT ![t] = value]

LwpInit ==
  \E t \in Thread :
    /\ alive = {t} /\ current_thread = t
    /\ tls = [u \in Thread |-> NoLwp]
    /\ bt_errno = [u \in Thread |-> 0] /\ errno_set = bt_errno
    /\ mtx = [v |-> 0, o |-> NoLwp]
    /\ bound = tls
    /\ held = [l \in Owner |-> 0]
    /\ panicked = FALSE

Switch(t) ==
  /\ ~ panicked /\ t \in alive
  /\ current_thread' = t
  /\ UNCHANGED <<alive, tls, bt_errno, mtx, held, bound, errno_set, panicked>>

\* Mutant: the memory is not cleared.
thread_clear_not(t) == UNCHANGED <<tls, bt_errno>>

thread_clear(t) ==
  /\ bmk_sched_settls(t, NoLwp)
  /\ bt_errno' = [bt_errno EXCEPT ![t] = 0]

bmk_sched_create(t) ==
  /\ ~ panicked /\ t \notin alive
  /\ alive' = alive \cup {t}
  /\ thread_clear(t)
  /\ errno_set' = [errno_set EXCEPT ![t] = 0]
  /\ UNCHANGED <<current_thread, mtx, held, bound, panicked>>

(* The lwp stays in the TLS of a thread that exits.                        *)
bmk_sched_exit(t) ==
  /\ ~ panicked /\ t \in alive \ {current_thread}
  /\ alive' = alive \ {current_thread}
  /\ current_thread' = t
  /\ bound' = [bound EXCEPT ![current_thread] = NoLwp]
  /\ UNCHANGED <<tls, bt_errno, mtx, held, errno_set, panicked>>

(* RUMPUSER_LWP_SET and RUMPUSER_LWP_CLEAR.                                *)
rumpuser_curlwpop(op, l) ==
  LET expected == IF op = "set" THEN NoLwp ELSE l
  IN  IF rumpuser_curlwp # expected
      THEN panicked' = TRUE /\ UNCHANGED tls
      ELSE /\ bmk_sched_settls(current_thread, IF op = "set" THEN l ELSE NoLwp)
           /\ UNCHANGED panicked

(* The rump kernel binds an lwp to one thread at a time, and takes it off  *)
(* before it binds another one to the thread.                              *)
lwproc(op, l) ==
  /\ ~ panicked
  /\ IF op = "set" THEN bound[current_thread] = NoLwp /\ \A t \in alive : bound[t] # l
                   ELSE bound[current_thread] = l
  /\ rumpuser_curlwpop(op, l)
  /\ bound' = [bound EXCEPT ![current_thread] = IF op = "set" THEN l ELSE NoLwp]
  /\ UNCHANGED <<alive, current_thread, bt_errno, mtx, held, errno_set>>

\* Mutant: whoever tries gets the mutex.
rumpuser_mutex_tryenter_any ==
  mtx' = [v |-> mtx.v + 1, o |-> rumpuser_curlwp]

rumpuser_mutex_tryenter ==
  /\ mtx.v = 0 \/ mtx.o = rumpuser_curlwp
  /\ mtx' = [v |-> mtx.v + 1, o |-> rumpuser_curlwp]

rumpuser_mutex_exit ==
  mtx' = [v |-> mtx.v - 1, o |-> IF mtx.v = 1 THEN NoLwp ELSE mtx.o]

(* What an lwp has entered is left by the same lwp, and what a thread      *)
(* without an lwp has entered is left by such a thread.                    *)
Mutex ==
  LET l == bound[current_thread]
      Count(k) == held' = [held EXCEPT ![l] = @ + k]
  IN  /\ ~ panicked
      /\ \/ mtx.v < MaxLock /\ rumpuser_mutex_tryenter /\ Count(1)
         \/ held[l] > 0 /\ rumpuser_mutex_exit /\ Count(-1)
      /\ UNCHANGED <<alive, current_thread, tls, bt_errno, bound, errno_set, panicked>>

(* The thread whose bt_errno __errno() and rumpuser_seterrno() refer to.   *)
bmk_sched_geterrno == current_thread

rumpuser_seterrno(e) ==
  /\ ~ panicked
  /\ bt_errno' = [bt_errno EXCEPT ![bmk_sched_geterrno] = e]
  /\ errno_set' = [errno_set EXCEPT ![current_thread] = e]
  /\ UNCHANGED <<alive, current_thread, tls, mtx, held, bound, panicked>>

LwpNext ==
  \/ \E t \in Thread : Switch(t) \/ bmk_sched_create(t) \/ bmk_sched_exit(t)
  \/ \E op \in {"set", "clear"}, l \in Lwp : lwproc(op, l)
  \/ Mutex
  \/ \E e \in Error : rumpuser_seterrno(e)

LwpSpec == LwpInit /\ [][LwpNext]_lwpvars

-----------------------------------------------------------------------------

(* The asserts of rumpuser_curlwpop() hold and errno of a thread is what   *)
(* the thread itself stored last: a thread has its own state and nothing   *)
(* of the thread that had its memory before.                               *)
ThreadsOwnState ==
  /\ ~ panicked
  /\ \A t \in alive : bt_errno[t] = errno_set[t]

(* A mutex is held by one lwp, as often as that lwp has entered it,        *)
(* whichever threads the lwp has run on meanwhile: rumpuser_mutex_tryenter *)
(* lets nobody in because of an lwp the thread does not run any more.      *)
(* Threads without an lwp are one owner, as the code compares NULL with    *)
(* NULL: they keep the lwps out, not each other.                           *)
MutexByLwp ==
  /\ \A l \in Owner : held[l] = IF mtx.o = l THEN mtx.v ELSE 0
  /\ mtx.v = 0 => mtx.o = NoLwp
=============================================================================
