------------------------------ MODULE SchedRR ------------------------------
(***************************************************************************)
(* The scheduling order of sched.c, whose header promises that it          *)
(* "schedules according to Round Robin algorithm".  The specification is   *)
(* Sched with one history variable: overtakers[t] is the set of threads    *)
(* that got the CPU while t was waiting for it.                            *)
(***************************************************************************)
EXTENDS Sched

VARIABLE overtakers

rrvars == <<vars, overtakers>>

(* A thread waits for the CPU from the moment the scan would stop at it.   *)
Waiting ==
  {t \in Alive : Pickable(t) /\ ~ (cpu = "thread" /\ t = current_thread)}

(* The thread that got the CPU in this step, if one did.                   *)
Dispatched ==
  IF cpu = "sched" /\ cpu' = "thread" THEN {current_thread'} ELSE {}

(* The thread that came to life in this step, possibly at the address of   *)
(* one that has been freed.                                                *)
Created == Alive' \ Alive

RRInit == Init /\ overtakers = [t \in Thread |-> {}]

RRNext ==
  /\ Next
  /\ overtakers' =
       [t \in Thread |->
          IF t \in Waiting'
          THEN (overtakers[t] \cup Dispatched) \ Created
          ELSE {}]

RRSpec == RRInit /\ [][RRNext]_rrvars

RRFairSpec == RRSpec /\ Fairness

-----------------------------------------------------------------------------

(* Nobody who overtook t gets the CPU again before t does.                 *)
NoSecondTurn == \A t \in Waiting : Dispatched \cap overtakers[t] = {}

(* Round robin: while a thread waits for the CPU, no other thread gets it  *)
(* twice.  Blocking, timeouts, exits and creation at the head of the list  *)
(* happen in between.                                                      *)
RoundRobin == [][NoSecondTurn]_rrvars

(* Why: whoever overtook t went to the tail, so it is behind t now.        *)
OvertakersBehind ==
  \A i, j \in DOMAIN threads :
    threads[j] \in overtakers[threads[i]] => i < j
=============================================================================
