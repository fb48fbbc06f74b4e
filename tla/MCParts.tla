------------------------------- MODULE MCParts -------------------------------
(***************************************************************************)
(* The parts of the library that share no state with each other or with    *)
(* the threads, checked side by side: in every behaviour one part runs,    *)
(* from any of its initial states, and the others stay where they start.   *)
(***************************************************************************)
EXTENDS Boot, Lwp, Params, Strings, Console, Division, LinkedLists

VARIABLE part  \* the part that runs

(* A part that does not run starts in one of its initial states.           *)
PartsInit ==
  /\ part \in {"boot", "lwp", "params", "strings", "console", "division", "lists"}
  /\ part # "boot" => multiboot = TRUE /\ flags = {} /\ mmap = <<>> /\ masked = {}
  /\ part # "lwp" => current_thread = CHOOSE t \in Thread : TRUE
  /\ part # "strings" => array = [p \in Addr |-> 0]
  /\ part # "division" => op = (CHOOSE o \in Ops : TRUE) /\ a = 0 /\ b = 0
  /\ part # "lists" => kind = "SLIST"
  /\ StringsInit
  /\ ParamsInit
  /\ part # "params" => answer.memsize = CHOOSE m \in MemSizes : TRUE
  /\ LwpInit
  /\ DivisionInit
  /\ BootInit
  /\ ConsoleInit
  /\ LinkedListsInit

PartsNext ==
  /\ UNCHANGED part
  /\ \/ part = "boot" /\ BootNext
     \/ part # "boot" /\ UNCHANGED bvars
  /\ \/ part = "lwp" /\ LwpNext
     \/ part # "lwp" /\ UNCHANGED lwpvars
  /\ \/ part = "params" /\ ParamsNext
     \/ part # "params" /\ UNCHANGED pvars
  /\ \/ part = "strings" /\ StringsNext
     \/ part # "strings" /\ UNCHANGED strings
  /\ \/ part = "console" /\ ConsoleNext
     \/ part # "console" /\ UNCHANGED cvars
  /\ \/ part = "division" /\ DivisionNext
     \/ part # "division" /\ UNCHANGED dvars
  /\ \/ part = "lists" /\ LinkedListsNext
     \/ part # "lists" /\ UNCHANGED lvars

PartsSpec ==
  PartsInit
    /\ [][PartsNext]_<<part, bvars, lwpvars, pvars, strings, cvars, dvars, lvars>>
=============================================================================
