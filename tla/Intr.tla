-------------------------------- MODULE Intr --------------------------------
(***************************************************************************)
(* Device interrupts (intr.c, the stubs of locore32.S, splhigh/spl0 and    *)
(* the PIC setup of machdep.c), on top of the scheduler.                   *)
(*                                                                         *)
(* A stub only notes the interrupt in isr_todo and wakes isr_thread, which *)
(* runs the handlers and then acknowledges the interrupt on the PIC.  The  *)
(* steps of isr() are cut wherever an interrupt can come in between.       *)
(***************************************************************************)
EXTENDS Sched

CONSTANTS isr_thread,  \* the thread bmk_isr_init() creates
          Irq,         \* the interrupt lines that have a stub (10 and 11)
          MaxRaise     \* bound on the number of interrupts devices raise

ASSUME IntrAssumption ==
  /\ isr_thread \in Thread \ {init_thread}
  /\ MaxRaise \in Nat

VARIABLES
  isr_todo,     \* lines noted by bmk_isr()
  isrcopy,      \* lines isr() has taken over and not handled yet
  isrpc,        \* where isr_thread is in isr()
  spldepth,     \* bmk_spldepth: interrupts are off unless it is 0
  established,  \* lines with a handler on isr_ih
  masked,       \* lines masked in PIC2
  pending,      \* lines latched by the PIC and not delivered to the CPU
  inservice,    \* lines delivered to the CPU and not acknowledged
  raised,       \* how many interrupts the devices have raised
  owed          \* devices that raised one since their handler last ran

ivars == <<isr_todo, isrcopy, isrpc, spldepth, established, masked, pending,
           inservice, raised, owed>>

IntrInit ==
  /\ Init
  /\ isr_todo = {} /\ isrcopy = {}
  /\ isrpc = "none"
  /\ spldepth = 0
  /\ established = {}
  /\ masked = Irq
  /\ pending = {} /\ inservice = {} /\ raised = 0 /\ owed = {}

-----------------------------------------------------------------------------

(* The last part of bmk_main() before the application runs.                *)
bmk_isr_init ==
  /\ isrpc = "none"
  /\ bmk_sched_create(isr_thread)
  /\ isrpc' = "top"
  /\ UNCHANGED <<isr_todo, isrcopy, spldepth, established, masked, pending,
                 inservice, raised, owed>>

(* What is done by threads other than isr_thread.                          *)
Elsewhere ==
  /\ isrpc # "none"
  /\ cpu = "thread"
  /\ current_thread # isr_thread

(* A driver establishes its handler: bmk_cpu_intr_init() writes the whole  *)
(* mask of PIC2, with only this line unmasked.                             *)
bmk_isr_netinit(irq) ==
  /\ Elsewhere
  /\ masked' = Irq \ {irq}
  /\ established' = established \cup {irq}
  /\ UNCHANGED <<vars, isr_todo, isrcopy, isrpc, spldepth, pending, inservice,
                 raised, owed>>

(* A device asks for service; the PIC latches the edge, masked or not.     *)
Raise(irq) ==
  /\ irq \in established
  /\ raised < MaxRaise
  /\ raised' = raised + 1
  /\ owed' = owed \cup {irq}
  /\ pending' = pending \cup {irq}
  /\ UNCHANGED <<vars, isr_todo, isrcopy, isrpc, spldepth, established, masked,
                 inservice>>

\* Mutant: the line is noted but isr_thread is not woken.
bmk_isr_silent(irq) ==
  /\ isr_todo' = isr_todo \cup {irq}
  /\ UNCHANGED vars

bmk_isr(irq) ==
  /\ isr_todo' = isr_todo \cup {irq}
  /\ Wake(isr_thread)

\* Mutant: the stub acknowledges the interrupt.
stub_noack_acked(irq) == UNCHANGED inservice

(* The stub leaves the acknowledgement to isr().                           *)
stub_noack(irq) == inservice' = {irq}

(* The CPU takes an interrupt and runs its stub, with interrupts off until *)
(* the end.  The slave PIC sits on one line of the master and neither is   *)
(* acknowledged by the stub, so no second device gets through before isr() *)
(* has done so.                                                            *)
Interrupt(irq) ==
  /\ spldepth = 0
  /\ irq \in pending \ masked
  /\ inservice = {}
  /\ pending' = pending \ {irq}
  /\ stub_noack(irq)
  /\ bmk_isr(irq)
  /\ UNCHANGED <<isrcopy, isrpc, spldepth, established, masked, raised, owed>>

-----------------------------------------------------------------------------

(* isr_thread is on the CPU at this point of isr().                        *)
At(pc) == cpu = "thread" /\ current_thread = isr_thread /\ isrpc = pc

\* Mutant: interrupts stay on.
splhigh_open == UNCHANGED spldepth

splhigh == spldepth' = spldepth + 1

(* spl0() panics at depth 0, which shows here as a negative depth.         *)
spl0 == spldepth' = spldepth - 1

isr_splhigh ==
  /\ At("top")
  /\ splhigh
  /\ isrpc' = "test"
  /\ UNCHANGED <<vars, isr_todo, isrcopy, established, masked, pending, inservice,
                 raised, owed>>

(* if (isr_todo): copy what there is, ...                                  *)
isr_take ==
  /\ At("test")
  /\ isr_todo # {}
  /\ isrcopy' = isr_todo
  /\ isrpc' = "taken"
  /\ UNCHANGED <<vars, isr_todo, spldepth, established, masked, pending, inservice,
                 raised, owed>>

(* ... and reset it.                                                       *)
isr_reset ==
  /\ At("taken")
  /\ isr_todo' = {}
  /\ spl0
  /\ isrpc' = "deliver"
  /\ UNCHANGED <<vars, isrcopy, established, masked, pending, inservice, raised, owed>>

isr_none ==
  /\ At("test")
  /\ isr_todo = {}
  /\ isrpc' = "idle"
  /\ UNCHANGED <<vars, isr_todo, isrcopy, spldepth, established, masked, pending,
                 inservice, raised, owed>>

\* Mutant: bmk_sched() is not called.
isr_sched_not == UNCHANGED cpu

isr_sched == cpu' = "sched"

(* Block until the next interrupt.  The call of bmk_sched() comes after    *)
(* spl0(), so an interrupt can find the CPU in between, on its way there.  *)
isr_block ==
  /\ At("idle")
  /\ bt' = bmk_sched_block(bt, isr_thread)
  /\ spl0
  /\ isr_sched
  /\ isrpc' = "top"
  /\ UNCHANGED <<threads, zombies, current_thread, now, isr_todo, isrcopy,
                 established, masked, pending, inservice, raised, owed>>

(* A handler is code of the rump kernel: it serves its device ...          *)
ih_fun(irq) ==
  /\ At("deliver")
  /\ irq \in isrcopy
  /\ isrcopy' = isrcopy \ {irq}
  /\ owed' = owed \ {irq}
  /\ UNCHANGED <<vars, isr_todo, isrpc, spldepth, established, masked, pending,
                 inservice, raised>>

(* ... and may sleep before it is done.                                    *)
ih_sleep(nsec) ==
  /\ At("deliver")
  /\ isrcopy # {}
  /\ bmk_sched_nanosleep(nsec)
  /\ UNCHANGED ivars

\* Mutant: no end of interrupt is sent.
pic_ack_missing == UNCHANGED inservice

pic_ack == inservice' = {}

(* All lines are done: end of interrupt on both PICs.                      *)
isr_ack ==
  /\ At("deliver")
  /\ isrcopy = {}
  /\ pic_ack
  /\ isrpc' = "top"
  /\ UNCHANGED <<vars, isr_todo, isrcopy, spldepth, established, masked, pending,
                 raised, owed>>

isr == isr_splhigh \/ isr_take \/ isr_reset \/ isr_none \/ isr_block \/ isr_ack

-----------------------------------------------------------------------------

(* The other threads, which never wake isr_thread.                         *)
OtherThreads ==
  /\ Elsewhere
  /\ \/ Yield
     \/ \E t \in Thread \ {isr_thread} : bmk_sched_create(t) \/ Wake(t)
  /\ UNCHANGED ivars

IntrSched == bmk_sched /\ UNCHANGED ivars

(* hlt ends with an interrupt, so only when interrupts are on.             *)
IntrHltReturn == spldepth = 0 /\ nanohlt_return /\ UNCHANGED ivars

IntrTick == Tick /\ UNCHANGED ivars

IntrNext ==
  \/ bmk_isr_init
  \/ \E irq \in Irq : bmk_isr_netinit(irq) \/ Raise(irq) \/ Interrupt(irq)
                      \/ ih_fun(irq)
  \/ isr
  \/ \E nsec \in Durations : ih_sleep(nsec)
  \/ OtherThreads
  \/ IntrSched
  \/ IntrHltReturn
  \/ IntrTick

IntrSpec == IntrInit /\ [][IntrNext]_<<vars, ivars>>

(* The CPU and the PIC do not stop, threads reach their next bmk_sched(),  *)
(* and a handler returns after a finite number of sleeps.                  *)
IntrFairness ==
  /\ WF_<<vars, ivars>>(bmk_isr_init)
  /\ WF_<<vars, ivars>>(isr)
  /\ WF_<<vars, ivars>>(IntrSched)
  /\ WF_<<vars, ivars>>(IntrHltReturn)
  /\ WF_<<vars, ivars>>(IntrTick)
  /\ WF_<<vars, ivars>>(Elsewhere /\ Yield /\ UNCHANGED ivars)
  /\ \A irq \in Irq : /\ WF_<<vars, ivars>>(Interrupt(irq))
                      /\ SF_<<vars, ivars>>(ih_fun(irq))

IntrFairSpec == IntrSpec /\ IntrFairness

-----------------------------------------------------------------------------

(* No request of a device gets lost between its line and its handler,      *)
(* however interrupts and the steps of isr() interleave, and no wakeup is  *)
(* missed: isr_thread does not sleep in its loop while isr_todo has work,  *)
(* and is past its test of isr_todo only if that was empty and still is.   *)
(* That is what splhigh() around the test is for.                          *)
NoLostInterrupt ==
  /\ owed \subseteq established
  /\ owed \subseteq pending \cup isr_todo \cup isrcopy
  /\ isr_todo # {} => bt[isr_thread].runnable /\ isrpc # "idle"

(* An interrupt that is not acknowledged keeps the PIC from delivering any *)
(* other, so there always is one that isr() is about to acknowledge; spl0  *)
(* never panics, and no other thread runs, and the CPU does not halt, with *)
(* interrupts off.                                                         *)
NeverWedged ==
  /\ inservice # {} => isr_todo = inservice \/ isrpc = "deliver"
  /\ spldepth \in 0..1
  /\ spldepth > 0 => cpu = "thread" /\ current_thread = isr_thread

(* No device interrupts a handler, because isr() acknowledges only after   *)
(* it.  A handler that blocks relies on it: bmk_sched_nanosleep() arms the *)
(* timeout before it clears the runnable flag, and a bmk_isr() in between  *)
(* would leave isr_thread neither runnable nor armed.                      *)
HandlerUndisturbed == isrpc = "deliver" => inservice # {} /\ isr_todo = {}

(* What a device asks for is done, as long as its line is not masked.      *)
InterruptHandled ==
  \A irq \in Irq :
    (irq \in owed \ masked) ~> (irq \notin owed \/ irq \in masked)

(* A handler that was established can be called: its line is unmasked.     *)
EstablishedUnmasked == established \cap masked = {}
=============================================================================
