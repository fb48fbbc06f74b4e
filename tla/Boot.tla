-------------------------------- MODULE Boot --------------------------------
(***************************************************************************)
(* From the boot loader to the application: _start32 of locore32.S,        *)
(* bmk_main() and parsemem() of kernel.c, bmk_cpu_init() of machdep.c, and *)
(* then what drivers do to get interrupts: rumpcomp_pci_irq_map() and      *)
(* _establish(), bmk_isr_netinit() and bmk_cpu_intr_init().                *)
(***************************************************************************)
EXTENDS Integers, FiniteSets

CONSTANTS PAGE_SIZE, MEMSTART,
          End,          \* the address _end
          WordBits,     \* width of unsigned long
          MapAddr, MapLen,  \* addresses and lengths in a memory map
          MaxEntries,   \* bound on their number
          LoaderFlags,  \* the values of mbi->flags, as sets of bits
          Line,         \* interrupt lines
          BMK_MAXINTR,
          Cookie,       \* what drivers call interrupts by
          MaxHandlers   \* bound on the handlers established

ASSUME BootAssumption ==
  /\ PAGE_SIZE \in Nat \ {0} /\ MEMSTART \in Nat /\ End \in Nat
  /\ WordBits \in Nat /\ MapAddr \subseteq Nat /\ MapLen \subseteq Nat
  /\ {0, 2, 10, 11} \subseteq Line /\ Line \subseteq Nat
  /\ BMK_MAXINTR \in Nat /\ BMK_MAXINTR >= 11 /\ Cookie \subseteq Nat

MULTIBOOT_MEMORY_INFO == 2
MULTIBOOT_MEMORY_AVAILABLE == 1
MULTIBOOT_MEMORY_RESERVED == 2

multiboot_mmap_entry ==
  [addr : MapAddr, len : MapLen,
   type : {MULTIBOOT_MEMORY_AVAILABLE, MULTIBOOT_MEMORY_RESERVED}]

VARIABLES
  stage,      \* how far the boot is
  multiboot,  \* %eax held the boot loader's magic number
  flags, mmap,  \* of struct multiboot_info
  off,        \* the entry of the map parsemem() is at
  bmk_membase, bmk_memsize,
  idt,        \* whether the table is loaded, and its gates
  masked,     \* the lines masked in the PICs
  spldepth,
  intrs,      \* the array of rumppci.c, and the word behind it
  isr_ih,     \* the number of handlers of every line
  allocated   \* struct intrhand in use

memory == <<bmk_membase, bmk_memsize>>
loader == <<multiboot, flags, mmap>>
drivers == <<intrs, isr_ih, allocated>>
bvars == <<stage, loader, off, memory, idt, masked, spldepth, drivers>>

round_page(x) == ((x + PAGE_SIZE - 1) \div PAGE_SIZE) * PAGE_SIZE

(* The loader leaves interrupts off and the PICs as the firmware set them; *)
(* it has put the image, from _begin = MEMSTART on, into available memory. *)
BootInit ==
  /\ stage = "_start32"
  /\ multiboot \in BOOLEAN
  /\ flags \in LoaderFlags
  /\ mmap \in UNION {[1..n -> multiboot_mmap_entry] : n \in 0..MaxEntries}
  /\ off = 1
  /\ bmk_membase = 0 /\ bmk_memsize = 0
  /\ idt = [loaded |-> FALSE, traps |-> FALSE, gate |-> [l \in Line |-> "none"]]
  /\ masked \in SUBSET Line
  /\ spldepth = 1
  /\ intrs = [c \in 0..BMK_MAXINTR |-> 0]
  /\ isr_ih = [l \in Line |-> 0] /\ allocated = 0

Goto(to) == stage' = to

-----------------------------------------------------------------------------

(* bmk_init() clears the console; then hlt without a boot loader.          *)
start32 ==
  /\ stage = "_start32"
  /\ Goto(IF multiboot THEN "bmk_main" ELSE "nomultiboot")
  /\ UNCHANGED <<loader, off, memory, idt, masked, spldepth, drivers>>

bmk_main ==
  /\ stage = "bmk_main"
  /\ Goto(IF MULTIBOOT_MEMORY_INFO \in flags THEN "parsemem"
          ELSE "memory info not available")
  /\ UNCHANGED <<loader, off, memory, idt, masked, spldepth, drivers>>

ours(entry) ==
  entry.addr = MEMSTART /\ entry.type = MULTIBOOT_MEMORY_AVAILABLE

\* Mutant: the size of the image is not rounded up.
osend_exact == End

osend == round_page(End)

(* The loop over the map, the assertion after it, and the memory behind    *)
(* the image; the length is cut to a word.                                 *)
parsemem ==
  /\ stage = "parsemem"
  /\ IF off \notin DOMAIN mmap
     THEN Goto("assert off < len") /\ UNCHANGED <<off, memory>>
     ELSE IF ~ours(mmap[off])
     THEN off' = off + 1 /\ UNCHANGED <<stage, memory>>
     ELSE /\ bmk_membase' = mmap[off].addr + (osend - MEMSTART)
          /\ bmk_memsize' = (mmap[off].len - (osend - MEMSTART)) % 2^WordBits
          /\ Goto("lidt")
          /\ UNCHANGED off
  /\ UNCHANGED <<loader, idt, masked, spldepth, drivers>>

(* bmk_cpu_init(): the descriptor tables, ...                              *)
cpu_lidt ==
  /\ stage = "lidt"
  /\ idt' = [loaded |-> TRUE, traps |-> TRUE, gate |-> idt.gate]
  /\ Goto("initpic")
  /\ UNCHANGED <<loader, off, memory, masked, spldepth, drivers>>

\* Mutant: PIC2 is initialised with nothing masked.
initpic_mask_open == {l \in Line : l < 8} \ {2}

initpic_mask == Line \ {2}

(* ... the PICs, where only the slave is not masked, ...                   *)
initpic ==
  /\ stage = "initpic"
  /\ masked' = initpic_mask
  /\ Goto("clock")
  /\ UNCHANGED <<loader, off, memory, idt, spldepth, drivers>>

(* ... the clock's gate and timer, ...                                     *)
cpu_clock ==
  /\ stage = "clock"
  /\ idt' = [idt EXCEPT !.gate[0] = "bmk_cpu_isr_clock"]
  /\ Goto("spl0")
  /\ UNCHANGED <<loader, off, memory, masked, spldepth, drivers>>

(* ... and interrupts go on.                                               *)
cpu_spl0 ==
  /\ stage = "spl0"
  /\ spldepth' = spldepth - 1
  /\ Goto("bmk_isr_init")
  /\ UNCHANGED <<loader, off, memory, idt, masked, drivers>>

(* bmk_sched_init(), bmk_isr_init() and the application.                   *)
isr_init ==
  /\ stage = "bmk_isr_init"
  /\ isr_ih' = [l \in Line |-> 0]
  /\ Goto("app")
  /\ UNCHANGED <<loader, off, memory, idt, masked, spldepth, intrs, allocated>>

(* The application returns from bmk_main(): cli and hlt for ever.          *)
haltme ==
  /\ stage = "app"
  /\ Goto("halted")
  /\ UNCHANGED <<loader, off, memory, idt, masked, spldepth, drivers>>

-----------------------------------------------------------------------------

(* The check lets BMK_MAXINTR through, although the array ends before it:  *)
(* the word behind the array is overwritten.                               *)
irq_map(cookie, line) ==
  /\ stage = "app"
  /\ intrs' = IF cookie > BMK_MAXINTR THEN intrs
              ELSE [intrs EXCEPT ![cookie] = line]
  /\ UNCHANGED <<stage, loader, off, memory, idt, masked, spldepth, isr_ih, allocated>>

has_stub(line) == line \in {10, 11}

(* The gate of a line that has a stub, then the mask of PIC2 with only     *)
(* this line open.                                                         *)
bmk_cpu_intr_init(line) ==
  /\ idt' = [idt EXCEPT !.gate[line] = IF line \in {10, 11} THEN "bmk_isr" ELSE @]
  /\ masked' = {l \in masked : l < 8} \cup {l \in Line : l >= 8 /\ l # line}

(* struct intrhand in use after bmk_isr_netinit(): one is taken, and freed *)
(* when bmk_cpu_intr_init() refuses the line.                              *)
intrhand(line) ==
  LET taken == allocated + 1
  IN  IF has_stub(line) THEN taken ELSE taken - 1

bmk_isr_netinit(line) ==
  IF line > BMK_MAXINTR THEN UNCHANGED <<idt, masked, isr_ih, allocated>>
  ELSE /\ allocated' = intrhand(line)
       /\ IF has_stub(line)
          THEN /\ bmk_cpu_intr_init(line)
               /\ isr_ih' = [isr_ih EXCEPT ![line] = @ + 1]
          ELSE UNCHANGED <<idt, masked, isr_ih>>

(* A driver establishes an interrupt it has mapped.                        *)
irq_establish(cookie) ==
  /\ stage = "app"
  /\ cookie \in DOMAIN intrs
  /\ allocated < MaxHandlers
  /\ bmk_isr_netinit(intrs[cookie])
  /\ UNCHANGED <<stage, loader, off, memory, spldepth, intrs>>

(* The scheduler waits with the clock unmasked, until hlt returns.         *)
nanohlt ==
  /\ stage = "app"
  /\ masked' = {l \in Line : IF l < 8 THEN l \notin {0, 2} ELSE l \in masked}
  /\ Goto("hlt")
  /\ UNCHANGED <<loader, off, memory, idt, spldepth, drivers>>

nanohlt_return ==
  /\ stage = "hlt"
  /\ masked' = {l \in Line : IF l < 8 THEN l # 2 ELSE l \in masked}
  /\ Goto("app")
  /\ UNCHANGED <<loader, off, memory, idt, spldepth, drivers>>

BootNext ==
  \/ start32 \/ bmk_main \/ parsemem \/ cpu_lidt \/ initpic \/ cpu_clock
  \/ cpu_spl0 \/ isr_init
  \/ \E c \in Cookie : irq_establish(c) \/ \E l \in Line : irq_map(c, l)
  \/ nanohlt \/ nanohlt_return \/ haltme

BootSpec == BootInit /\ [][BootNext]_bvars

-----------------------------------------------------------------------------

Failed == {"nomultiboot", "memory info not available", "assert off < len"}

(* From bmk_cpu_init() on, the pages to allocate are whole pages from the  *)
(* end of the image to the end of "our memory": none is in the image and   *)
(* none outside the chunk the loader reported.                             *)
MemoryBehindImage ==
  stage \notin Failed \cup {"_start32", "bmk_main", "parsemem"} =>
    /\ bmk_membase % PAGE_SIZE = 0
    /\ bmk_membase >= End
    /\ ours(mmap[off])
    /\ bmk_membase + bmk_memsize = mmap[off].addr + mmap[off].len

(* "so that we can handle interrupts without involving a jump to           *)
(* hyperspace": as soon as interrupts are on, every line that is not       *)
(* masked has a gate in a loaded table, except the one of the slave PIC,   *)
(* which delivers none of its own.  Handlers are in memory exactly for the *)
(* lines whose gate leads to bmk_isr(): a line that is refused leaves      *)
(* nothing behind.                                                         *)
NoHyperspace ==
  /\ spldepth = 0 =>
       /\ idt.loaded /\ idt.traps
       /\ \A l \in Line \ masked : l # 2 => idt.gate[l] # "none"
  /\ \A l \in Line : idt.gate[l] = "bmk_isr" <=> isr_ih[l] > 0
  /\ allocated = isr_ih[10] + isr_ih[11]
=============================================================================
