----------------------------- MODULE PartsProofs -----------------------------
(***************************************************************************)
(* Proofs about the parts that share no state with the threads: the lwps   *)
(* of the rump kernel, for any number of threads; the boot, for every      *)
(* memory map; and the lists of queue.h, for any number of heads and       *)
(* elements.                                                               *)
(***************************************************************************)
EXTENDS Boot, Lwp, LinkedLists, LinkProofs, TLAPS

-----------------------------------------------------------------------------
(* The lwps: a thread's TLS holds the lwp the rump kernel bound to it, so  *)
(* that the owner of the mutex is an lwp, on whatever thread it runs.      *)

LwpType ==
  /\ alive \subseteq Thread /\ current_thread \in alive
  /\ tls \in [Thread -> Owner]
  /\ bound \in [Thread -> Owner]
  /\ bt_errno \in [Thread -> Error] /\ errno_set \in [Thread -> Error]
  /\ mtx \in [v : Nat, o : Owner]
  /\ held \in [Owner -> Nat]

LwpBound ==
  /\ \A t \in alive : tls[t] = bound[t]
  /\ \A t \in Thread \ alive : bound[t] = NoLwp

LwpInv ==
  /\ LwpType
  /\ LwpBound
  /\ ThreadsOwnState
  /\ MutexByLwp

LEMMA MutexStep ==
  ASSUME LwpInv, Mutex
  PROVE  LwpInv'
<1> DEFINE l == bound[current_thread]
<1>1. /\ l \in Owner /\ rumpuser_curlwp = l
      /\ UNCHANGED <<alive, current_thread, tls, bt_errno, bound, errno_set, panicked>>
  BY DEF Mutex, LwpInv, LwpType, LwpBound, rumpuser_curlwp, bmk_sched_gettls
<1>2. /\ mtx.v \in Nat /\ mtx.o \in Owner /\ held \in [Owner -> Nat]
      /\ NoLwp \in Owner /\ (mtx.v = 0 => mtx.o = NoLwp)
      /\ \A k \in Owner : held[k] = IF mtx.o = k THEN mtx.v ELSE 0
  BY DEF LwpInv, LwpType, MutexByLwp, Owner
<1>3. /\ mtx' \in [v : Nat, o : Owner] /\ held' \in [Owner -> Nat]
      /\ mtx'.v = 0 => mtx'.o = NoLwp
      /\ \A k \in Owner : held'[k] = IF mtx'.o = k THEN mtx'.v ELSE 0
  <2>1. CASE rumpuser_mutex_tryenter /\ held' = [held EXCEPT ![l] = @ + 1]
    <3>1. mtx.v = 0 \/ mtx.o = l
      BY <1>1, <2>1 DEF rumpuser_mutex_tryenter
    <3>2. mtx' = [v |-> mtx.v + 1, o |-> l]
      BY <1>1, <2>1 DEF rumpuser_mutex_tryenter
    <3>3. mtx'.v = mtx.v + 1 /\ mtx'.o = l
      BY <3>2
    <3> HIDE DEF l
    <3> QED
      BY <1>1, <1>2, <2>1, <3>1, <3>2, <3>3
  <2>2. CASE held[l] > 0 /\ rumpuser_mutex_exit /\ held' = [held EXCEPT ![l] = @ + (-1)]
    <3>1. mtx.o = l /\ mtx.v = held[l] /\ mtx.v > 0
      BY <1>1, <1>2, <2>2
    <3>2. mtx' = [v |-> mtx.v - 1, o |-> IF mtx.v = 1 THEN NoLwp ELSE mtx.o]
      BY <2>2 DEF rumpuser_mutex_exit
    <3>3. mtx'.v = mtx.v - 1 /\ mtx'.o = IF mtx.v = 1 THEN NoLwp ELSE l
      BY <3>1, <3>2
    <3> HIDE DEF l
    <3>4. CASE mtx.v = 1
      BY <1>1, <1>2, <2>2, <3>1, <3>2, <3>3, <3>4
    <3>5. CASE mtx.v # 1
      BY <1>1, <1>2, <2>2, <3>1, <3>2, <3>3, <3>5
    <3> QED
      BY <3>4, <3>5
  <2> QED
    BY <2>1, <2>2 DEF Mutex
<1> QED
  BY <1>1, <1>3 DEF LwpInv, LwpType, LwpBound, ThreadsOwnState, MutexByLwp

LEMMA LwpStep ==
  ASSUME LwpInv, [LwpNext]_lwpvars
  PROVE  LwpInv'
<1> USE DEF LwpInv
<1>1. CASE UNCHANGED lwpvars
  BY <1>1 DEF lwpvars, LwpType, LwpBound, ThreadsOwnState, MutexByLwp
<1>2. ASSUME NEW t \in Thread, Switch(t)
      PROVE  LwpInv'
  BY <1>2 DEF Switch, LwpType, LwpBound, ThreadsOwnState, MutexByLwp
<1>3. ASSUME NEW t \in Thread, bmk_sched_create(t)
      PROVE  LwpInv'
  <2>1. /\ t \notin alive /\ alive' = alive \cup {t}
        /\ tls' = [tls EXCEPT ![t] = NoLwp]
        /\ bt_errno' = [bt_errno EXCEPT ![t] = 0]
        /\ errno_set' = [errno_set EXCEPT ![t] = 0]
        /\ UNCHANGED <<current_thread, mtx, held, bound, panicked>>
    BY <1>3 DEF bmk_sched_create, thread_clear, bmk_sched_settls
  <2>2. LwpType'
    BY <2>1, LwpAssumption DEF LwpType, Owner
  <2>3. LwpBound' /\ ThreadsOwnState' /\ MutexByLwp'
    BY <2>1 DEF LwpType, LwpBound, ThreadsOwnState, MutexByLwp
  <2> QED
    BY <2>1, <2>2, <2>3
<1>4. ASSUME NEW t \in Thread, bmk_sched_exit(t)
      PROVE  LwpInv'
  BY <1>4 DEF bmk_sched_exit, LwpType, LwpBound, ThreadsOwnState, MutexByLwp, Owner
<1>5. ASSUME NEW op \in {"set", "clear"}, NEW l \in Lwp, lwproc(op, l)
      PROVE  LwpInv'
  <2> DEFINE new == IF op = "set" THEN l ELSE NoLwp
  <2>1. /\ bound' = [bound EXCEPT ![current_thread] = new]
        /\ rumpuser_curlwpop(op, l) /\ new \in Owner
        /\ UNCHANGED <<alive, current_thread, bt_errno, mtx, held, errno_set>>
    BY <1>5 DEF lwproc, Owner
  <2>2. tls' = [tls EXCEPT ![current_thread] = new] /\ ~ panicked'
    <3>1. bound[current_thread] = IF op = "set" THEN NoLwp ELSE l
      BY <1>5 DEF lwproc
    <3>2. rumpuser_curlwp = IF op = "set" THEN NoLwp ELSE l
      BY <3>1 DEF rumpuser_curlwp, bmk_sched_gettls, LwpType, LwpBound
    <3> QED
      BY <2>1, <3>2 DEF rumpuser_curlwpop, bmk_sched_settls, ThreadsOwnState
  <2> HIDE DEF new
  <2> QED
    BY <2>1, <2>2 DEF LwpType, LwpBound, ThreadsOwnState, MutexByLwp
<1>6. CASE Mutex
  BY <1>6, MutexStep
<1>7. ASSUME NEW e \in Error, rumpuser_seterrno(e)
      PROVE  LwpInv'
  BY <1>7 DEF rumpuser_seterrno, bmk_sched_geterrno,
              LwpType, LwpBound, ThreadsOwnState, MutexByLwp
<1> QED
  BY <1>1, <1>2, <1>3, <1>4, <1>5, <1>6, <1>7 DEF LwpNext

LEMMA LwpInvariant == LwpSpec => []LwpInv
<1>1. LwpInit => LwpInv
  BY LwpAssumption
  DEF LwpInit, LwpInv, LwpType, LwpBound, ThreadsOwnState, MutexByLwp, Owner
<1>2. LwpInv /\ [LwpNext]_lwpvars => LwpInv'
  BY LwpStep
<1> QED
  BY <1>1, <1>2, PTL DEF LwpSpec

(* For any number of threads and lwps: the asserts of rumpuser_curlwpop()  *)
(* hold, and a thread finds in errno what it stored itself, although the   *)
(* memory of threads is used again.                                        *)
THEOREM ThreadsHaveOwnState == LwpSpec => []ThreadsOwnState
BY LwpInvariant, PTL DEF LwpInv

(* The mutex is with one lwp, as often as that lwp has entered it, across  *)
(* all the threads the lwp moves to.                                       *)
THEOREM MutexHeldByLwp == LwpSpec => []MutexByLwp
BY LwpInvariant, PTL DEF LwpInv

-----------------------------------------------------------------------------
(* The boot: the memory behind the image.                                  *)

(* The chunk of the memory map the image was loaded into holds it up to    *)
(* its last page, and what is left of the chunk has a length that fits     *)
(* into a word.                                                            *)
ImageFits ==
  \A i \in DOMAIN mmap :
    ours(mmap[i]) => mmap[i].len - (osend - MEMSTART) \in 0..(2^WordBits - 1)

MapType ==
  \A i \in DOMAIN mmap : mmap[i].addr \in Nat /\ mmap[i].len \in Nat

MemoryInv == MapType /\ ImageFits /\ MemoryBehindImage

LEMMA RoundPage ==
  ASSUME NEW x \in Nat
  PROVE  /\ round_page(x) \in Nat
         /\ round_page(x) % PAGE_SIZE = 0
         /\ round_page(x) >= x
<1> DEFINE p == PAGE_SIZE
           k == (x + p - 1) \div p
<1>1. p \in Nat \ {0}
  BY BootAssumption
<1>2. /\ k \in Nat
      /\ x + p - 1 = p * k + ((x + p - 1) % p)
      /\ (x + p - 1) % p \in 0..(p - 1)
  BY <1>1
<1>3. p * k >= x
  BY <1>1, <1>2
<1>4. p * k \in Nat /\ (p * k) % p = 0 /\ p * k = k * p
  BY <1>1, <1>2
<1>5. round_page(x) = k * p
  BY DEF round_page
<1> QED
  BY <1>3, <1>4, <1>5

LEMMA ParsememStep ==
  ASSUME MemoryInv, parsemem
  PROVE  MemoryInv'
<1>1. MapType' /\ ImageFits'
  BY DEF parsemem, loader, MemoryInv, MapType, ImageFits
<1>2. CASE off \in DOMAIN mmap /\ ours(mmap[off])
  <2>1. /\ UNCHANGED <<mmap, off>> /\ mmap[off].addr = MEMSTART
        /\ bmk_membase' = mmap[off].addr + (osend - MEMSTART)
        /\ bmk_memsize' = (mmap[off].len - (osend - MEMSTART)) % 2^WordBits
    BY <1>2 DEF parsemem, loader, ours
  <2>2. osend \in Nat /\ osend % PAGE_SIZE = 0 /\ osend >= End
    BY RoundPage, BootAssumption DEF osend
  <2>3. bmk_membase' = osend
    BY <2>1, <2>2, BootAssumption
  <2>4. bmk_memsize' = mmap[off].len - (osend - MEMSTART)
    <3> DEFINE left == mmap[off].len - (osend - MEMSTART)
               word == 2^WordBits
    <3>1. left \in 0..(word - 1)
      BY <1>2 DEF MemoryInv, ImageFits
    <3>2. word \in Int
      BY BootAssumption
    <3>3. bmk_memsize' = left % word
      BY <2>1
    <3> HIDE DEF left, word
    <3>4. left % word = left
      BY <3>1, <3>2
    <3> QED
      BY <3>3, <3>4 DEF left
  <2>5. mmap[off].len \in Nat /\ MEMSTART \in Nat
    BY <1>2, BootAssumption DEF MemoryInv, MapType
  <2>6. bmk_membase' + bmk_memsize' = MEMSTART + mmap[off].len
    BY <2>2, <2>3, <2>4, <2>5
  <2>7. MemoryBehindImage'
    BY <1>2, <2>1, <2>2, <2>3, <2>6 DEF MemoryBehindImage, ours
  <2> QED
    BY <1>1, <2>7 DEF MemoryInv
<1>3. CASE ~ (off \in DOMAIN mmap /\ ours(mmap[off]))
  BY <1>1, <1>3 DEF parsemem, Goto, MemoryInv, MemoryBehindImage, Failed
<1> QED
  BY <1>2, <1>3

LEMMA MemoryStep ==
  ASSUME MemoryInv, [BootNext]_bvars
  PROVE  MemoryInv'
<1>1. CASE parsemem
  BY <1>1, ParsememStep
<1>2. CASE start32 \/ bmk_main
  BY <1>2 DEF start32, bmk_main, Goto, loader, MemoryInv, MapType, ImageFits,
              MemoryBehindImage, Failed
<1>3. CASE /\ UNCHANGED <<mmap, off, bmk_membase, bmk_memsize>>
           /\ stage' = stage \/ stage \notin Failed \cup {"_start32", "bmk_main", "parsemem"}
  BY <1>3 DEF MemoryInv, MapType, ImageFits, MemoryBehindImage
<1>4. CASE UNCHANGED bvars
  BY <1>3, <1>4 DEF bvars, loader, memory
<1>5. CASE cpu_lidt \/ initpic \/ cpu_clock \/ cpu_spl0 \/ isr_init \/ nanohlt \/ nanohlt_return
             \/ haltme
  BY <1>3, <1>5 DEF cpu_lidt, initpic, cpu_clock, cpu_spl0, isr_init, nanohlt,
       nanohlt_return, haltme, loader, memory, Failed
<1>6. ASSUME NEW c \in Cookie,
             irq_establish(c) \/ \E l \in Line : irq_map(c, l)
      PROVE  MemoryInv'
  BY <1>3, <1>6 DEF irq_establish, irq_map, loader, memory
<1> QED
  BY <1>1, <1>2, <1>4, <1>5, <1>6 DEF BootNext

(* For every memory map and page size: if the loader's chunk holds the     *)
(* image, the pages to allocate are those behind the image to the end of   *)
(* the chunk.                                                              *)
THEOREM PagesBehindImage == ImageFits /\ BootSpec => []MemoryBehindImage
<1>1. ImageFits /\ BootInit => MemoryInv
  <2> SUFFICES ASSUME ImageFits, BootInit PROVE MemoryInv
    OBVIOUS
  <2>1. PICK n \in 0..MaxEntries : mmap \in [1..n -> multiboot_mmap_entry]
    BY DEF BootInit
  <2>2. MapType
    BY <2>1, BootAssumption DEF MapType, multiboot_mmap_entry
  <2> QED
    BY <2>2 DEF MemoryInv, MemoryBehindImage, BootInit
<1>2. MemoryInv /\ [BootNext]_bvars => MemoryInv'
  BY MemoryStep
<1>3. MemoryInv => MemoryBehindImage
  BY DEF MemoryInv
<1> QED
  BY <1>1, <1>2, <1>3, PTL DEF BootSpec

-----------------------------------------------------------------------------
(* The boot: gates before interrupts.                                      *)

(* Interrupts are on from the clock's initialisation on.                   *)
Up == {"bmk_isr_init", "app", "hlt", "halted"}

(* The clock's gate is set before.                                         *)
ClockSet == {"spl0", "bmk_isr_init", "app", "hlt", "halted"}

Gate == {"none", "bmk_cpu_isr_clock", "bmk_isr"}

BootType ==
  /\ idt \in [loaded : BOOLEAN, traps : BOOLEAN, gate : [Line -> Gate]]
  /\ spldepth = IF stage \in Up THEN 0 ELSE 1
  /\ intrs \in [0..BMK_MAXINTR -> Line]
  /\ isr_ih \in [Line -> Nat] /\ allocated \in Nat

GatesInv ==
  /\ BootType
  /\ stage \in {"initpic", "clock"} \cup ClockSet => idt.loaded /\ idt.traps
  /\ stage \notin ClockSet => \A l \in Line : idt.gate[l] = "none"
  /\ stage \notin {"app", "hlt", "halted"} =>
       allocated = 0 /\ \A l \in Line : isr_ih[l] = 0
  /\ stage = "clock" => masked = Line \ {2}
  /\ stage \in ClockSet =>
       /\ idt.gate[0] = "bmk_cpu_isr_clock"
       /\ \A l \in Line \ masked : l # 2 => idt.gate[l] # "none"
  /\ \A l \in Line : idt.gate[l] = "bmk_isr" <=> isr_ih[l] > 0
  /\ allocated = isr_ih[10] + isr_ih[11]

LEMMA Lines == /\ 0 \in Line /\ 2 \in Line /\ 10 \in Line /\ 11 \in Line
               /\ Line \subseteq Nat
BY BootAssumption

LEMMA EstablishStep ==
  ASSUME GatesInv, NEW c \in Cookie, irq_establish(c)
  PROVE  GatesInv'
<1> DEFINE line == intrs[c]
<1>1. /\ stage = "app" /\ stage' = "app" /\ line \in Line
      /\ bmk_isr_netinit(line)
      /\ UNCHANGED <<spldepth, intrs>>
  BY DEF irq_establish, GatesInv, BootType
<1>2. CASE ~ has_stub(line)
  <2>1. allocated \in Nat
    BY DEF GatesInv, BootType
  <2>2. UNCHANGED <<stage, idt, masked, isr_ih, allocated, spldepth, intrs>>
    BY <1>1, <1>2, <2>1 DEF bmk_isr_netinit, intrhand
  <2> QED
    BY <2>2 DEF GatesInv, BootType
<1>3. CASE has_stub(line)
  <2>0. ~ (line > BMK_MAXINTR)
    BY <1>3, BootAssumption DEF has_stub
  <2>1. /\ line \in {10, 11} /\ allocated' = allocated + 1
        /\ idt' = [idt EXCEPT !.gate[line] = "bmk_isr"]
        /\ masked' = {l \in masked : l < 8} \cup {l \in Line : l >= 8 /\ l # line}
        /\ isr_ih' = [isr_ih EXCEPT ![line] = isr_ih[line] + 1]
    BY <1>1, <1>3, <2>0 DEF bmk_isr_netinit, intrhand, has_stub, bmk_cpu_intr_init
  <2> HIDE DEF line
  <2> DEFINE g == [idt.gate EXCEPT ![line] = "bmk_isr"]
  <2>2. g \in [Line -> Gate] /\ g[line] = "bmk_isr"
        /\ \A l \in Line \ {line} : g[l] = idt.gate[l]
    BY <1>1 DEF GatesInv, BootType, Gate
  <2>3. idt' = [idt EXCEPT !.gate = g]
    BY <2>1
  <2> HIDE DEF g
  <2>4. /\ idt' \in [loaded : BOOLEAN, traps : BOOLEAN, gate : [Line -> Gate]]
        /\ idt'.gate = g /\ idt'.loaded = idt.loaded /\ idt'.traps = idt.traps
    BY <2>2, <2>3 DEF GatesInv, BootType
  <2>5. /\ isr_ih' \in [Line -> Nat] /\ isr_ih'[line] = isr_ih[line] + 1
        /\ \A l \in Line \ {line} : isr_ih'[l] = isr_ih[l]
        /\ isr_ih[line] \in Nat
    BY <1>1, <2>1 DEF GatesInv, BootType
  <2>6. BootType'
    <3>1. /\ spldepth' = IF stage' \in Up THEN 0 ELSE 1
          /\ intrs' \in [0..BMK_MAXINTR -> Line] /\ allocated' \in Nat
      BY <1>1, <2>1 DEF GatesInv, BootType
    <3> QED
      BY <2>4, <2>5, <3>1 DEF BootType
  <2>7. idt'.gate[0] = "bmk_cpu_isr_clock"
    BY <1>1, <2>1, <2>2, <2>4, Lines DEF GatesInv, ClockSet, Up
  <2>8. \A l \in Line \ masked' : l # 2 => idt'.gate[l] # "none"
    <3> SUFFICES ASSUME NEW l \in Line, l \notin masked', l # 2
                 PROVE  g[l] # "none"
      BY <2>4
    <3>1. CASE l = line
      BY <2>2, <3>1
    <3>2. CASE l # line
      <4>1. l \notin masked
        BY <2>1, <3>2, Lines
      <4> QED
        BY <1>1, <2>2, <3>2, <4>1 DEF GatesInv, ClockSet, Up
    <3> QED
      BY <3>1, <3>2
  <2>9. \A l \in Line : idt'.gate[l] = "bmk_isr" <=> isr_ih'[l] > 0
    <3> SUFFICES ASSUME NEW l \in Line
                 PROVE  g[l] = "bmk_isr" <=> isr_ih'[l] > 0
      BY <2>4
    <3>1. CASE l = line
      BY <2>2, <2>5, <3>1
    <3>2. CASE l # line
      BY <2>2, <2>5, <3>2 DEF GatesInv
    <3> QED
      BY <3>1, <3>2
  <2>10. allocated' = isr_ih'[10] + isr_ih'[11]
    <3>1. /\ allocated = isr_ih[10] + isr_ih[11] /\ allocated' = allocated + 1
          /\ isr_ih[10] \in Nat /\ isr_ih[11] \in Nat /\ line \in {10, 11}
      BY <2>1, Lines DEF GatesInv, BootType
    <3>2. CASE line = 10
      BY <2>5, <3>1, <3>2, Lines
    <3>3. CASE line = 11
      BY <2>5, <3>1, <3>3, Lines
    <3> QED
      BY <3>1, <3>2, <3>3
  <2> QED
    <3>1. stage' \notin {"clock"} /\ stage' \in ClockSet /\ stage \in ClockSet
      BY <1>1 DEF ClockSet
    <3>2. idt'.loaded /\ idt'.traps
      BY <2>4, <3>1 DEF GatesInv
    <3> QED
      BY <1>1, <2>6, <2>7, <2>8, <2>9, <2>10, <3>1, <3>2 DEF GatesInv
<1> QED
  BY <1>2, <1>3

LEMMA GatesStep ==
  ASSUME GatesInv, [BootNext]_bvars
  PROVE  GatesInv'
<1>1. CASE start32 \/ bmk_main \/ parsemem \/ UNCHANGED bvars
  <2>1. /\ UNCHANGED <<idt, masked, spldepth, intrs, isr_ih, allocated>>
        /\ \/ stage' = stage
           \/ /\ stage \in {"_start32", "bmk_main", "parsemem"}
              /\ stage' \in Failed \cup {"bmk_main", "parsemem", "lidt"}
    BY <1>1 DEF start32, bmk_main, parsemem, Goto, drivers, Failed, bvars
  <2> QED
    BY <2>1 DEF GatesInv, BootType, ClockSet, Up, Failed
<1>2. CASE cpu_lidt
  BY <1>2 DEF cpu_lidt, Goto, drivers, GatesInv, BootType, ClockSet, Up
<1>3. CASE initpic
  BY <1>3 DEF initpic, initpic_mask, Goto, drivers, GatesInv, BootType, ClockSet, Up
<1>4. CASE cpu_clock
  <2> DEFINE g == [idt.gate EXCEPT ![0] = "bmk_cpu_isr_clock"]
  <2>1. /\ stage = "clock" /\ stage' = "spl0"
        /\ idt' = [idt EXCEPT !.gate = g]
        /\ UNCHANGED <<masked, spldepth, intrs, isr_ih, allocated>>
    BY <1>4 DEF cpu_clock, Goto, drivers
  <2>2. /\ g \in [Line -> Gate] /\ g[0] = "bmk_cpu_isr_clock"
        /\ \A l \in Line \ {0} : g[l] = idt.gate[l]
    BY Lines DEF GatesInv, BootType, Gate
  <2> HIDE DEF g
  <2>3. /\ idt' \in [loaded : BOOLEAN, traps : BOOLEAN, gate : [Line -> Gate]]
        /\ idt'.gate = g /\ idt'.loaded = idt.loaded /\ idt'.traps = idt.traps
    BY <2>1, <2>2 DEF GatesInv, BootType
  <2>4. \A l \in Line : g[l] # "bmk_isr" /\ ~ (isr_ih[l] > 0)
    BY <2>1, <2>2 DEF GatesInv, ClockSet, Up
  <2>5. Line \ masked \subseteq {2}
    BY <2>1 DEF GatesInv
  <2> QED
    BY <2>1, <2>2, <2>3, <2>4, <2>5 DEF GatesInv, BootType, ClockSet, Up
<1>5. CASE isr_init
  <2>1. /\ stage = "bmk_isr_init" /\ stage' = "app" /\ isr_ih' = [l \in Line |-> 0]
        /\ UNCHANGED <<idt, masked, spldepth, intrs, allocated>>
    BY <1>5 DEF isr_init, Goto
  <2> QED
    BY <2>1, Lines DEF GatesInv, BootType, ClockSet, Up
<1>6. CASE nanohlt
  <2>1. /\ stage = "app" /\ stage' = "hlt"
        /\ masked' = {l \in Line : IF l < 8 THEN l \notin {0, 2} ELSE l \in masked}
        /\ UNCHANGED <<idt, spldepth, intrs, isr_ih, allocated>>
    BY <1>6 DEF nanohlt, Goto, drivers
  <2>2. \A l \in Line \ masked' : l # 2 => l = 0 \/ l \notin masked
    BY <2>1
  <2> QED
    BY <2>1, <2>2 DEF GatesInv, BootType, ClockSet, Up
<1>7. CASE nanohlt_return
  <2>1. /\ stage = "hlt" /\ stage' = "app"
        /\ masked' = {l \in Line : IF l < 8 THEN l # 2 ELSE l \in masked}
        /\ UNCHANGED <<idt, spldepth, intrs, isr_ih, allocated>>
    BY <1>7 DEF nanohlt_return, Goto, drivers
  <2>2. \A l \in Line \ masked' : l # 2 => l \notin masked
    BY <2>1
  <2> QED
    BY <2>1, <2>2 DEF GatesInv, BootType, ClockSet, Up
<1>8. CASE haltme
  BY <1>8 DEF haltme, Goto, drivers, GatesInv, BootType, ClockSet, Up
<1>9. ASSUME NEW c \in Cookie, irq_establish(c)
      PROVE  GatesInv'
  BY <1>9, EstablishStep
<1>10. ASSUME NEW c \in Cookie, NEW l \in Line, irq_map(c, l)
       PROVE  GatesInv'
  BY <1>10 DEF irq_map, GatesInv, BootType, ClockSet, Up
<1>11. CASE cpu_spl0
  BY <1>11 DEF cpu_spl0, Goto, drivers, GatesInv, BootType, ClockSet, Up
<1> QED
  BY <1>1, <1>2, <1>3, <1>4, <1>5, <1>6, <1>7, <1>8, <1>9, <1>10, <1>11 DEF BootNext

(* Whatever lines there are and in whatever order drivers ask for them: as *)
(* soon as interrupts are on, every line that is not masked has a gate,    *)
(* and the handlers in memory are those of the lines that lead to bmk_isr. *)
THEOREM GatesBeforeInterrupts == BootSpec => []NoHyperspace
<1>1. BootInit => GatesInv
  <2> SUFFICES ASSUME BootInit PROVE GatesInv
    OBVIOUS
  <2>1. /\ stage = "_start32" /\ stage \notin Up /\ stage \notin ClockSet
        /\ spldepth = 1 /\ allocated = 0
        /\ \A l \in Line : idt.gate[l] = "none" /\ isr_ih[l] = 0
    BY DEF BootInit, ClockSet, Up
  <2>2. BootType
    BY <2>1, Lines DEF BootInit, BootType, Gate
  <2>3. \A l \in Line : idt.gate[l] = "bmk_isr" <=> isr_ih[l] > 0
    BY <2>1
  <2>4. allocated = isr_ih[10] + isr_ih[11]
    BY <2>1, Lines
  <2>5. stage \notin {"initpic", "clock", "app", "hlt", "halted"}
    BY <2>1
  <2>6. stage \notin {"initpic", "clock"} \cup ClockSet
    BY <2>1, <2>5
  <2> HIDE DEF Up, ClockSet
  <2> QED
    BY <2>6, <2>1, <2>2, <2>3, <2>4, <2>5, Zenon DEF GatesInv
<1>2. GatesInv /\ [BootNext]_bvars => GatesInv'
  BY GatesStep
<1>3. GatesInv => NoHyperspace
  BY DEF GatesInv, BootType, NoHyperspace, ClockSet, Up
<1> QED
  BY <1>1, <1>2, <1>3, PTL DEF BootSpec

-----------------------------------------------------------------------------
(* The lists.  LinkProofs says what putting in, taking out, replacing and  *)
(* joining do to pointers that stand for lists; here the macros are shown  *)
(* to do just that.                                                        *)

(* The pointers stand for the sequences.  Two facts that do not depend on  *)
(* the state come along until the library of theorems is brought in below: *)
(* numbers are well ordered, and a list without repetitions is no longer   *)
(* than there are elements.                                                *)
ListInv ==
  /\ WellOrdered /\ Fits
  /\ kind \in {"SLIST", "LIST", "SIMPLEQ", "CIRCLEQ", "TAILQ"}
  /\ Represents(kind, lists, next, prev)

WalkInv ==
  iter # NoLoop =>
    /\ kind = "TAILQ" /\ iter.head \in Queue
    /\ Walk(lists[iter.head], iter.all, iter.seen, Len(iter.seen), iter.var, iter.saved)

-----------------------------------------------------------------------------

LEMMA OnPos ==
  ASSUME ListInv, NEW h \in Queue, NEW x \in On(h)
  PROVE  /\ Len(lists[h]) \in Nat /\ Pos(h, x) \in 1..Len(lists[h])
         /\ lists[h][Pos(h, x)] = x
<1> DEFINE s == lists[h]
<1>1. s \in Seq(Elem)
  BY DEF ListInv, Represents
<1>2. Len(s) \in Nat /\ DOMAIN s = 1..Len(s)
  BY <1>1, Elements
<1>3. \E i \in DOMAIN s : s[i] = x
  BY DEF On, Members
<1>4. Pos(h, x) \in DOMAIN s /\ s[Pos(h, x)] = x
  BY <1>3 DEF Pos
<1> QED
  BY <1>2, <1>4

LEMMA UnlinkedFresh ==
  ASSUME NEW e \in Unlinked
  PROVE  e \in Elem /\ Fresh(e, lists)
<1>1. e \in Elem /\ \A h \in Queue : e \notin On(h)
  BY DEF Unlinked
<1>2. \A h \in Queue : On(h) = Members(lists[h])
  BY DEF On
<1> QED
  BY <1>1, <1>2 DEF Fresh

(* Following the pointers from a head meets the elements of its list.      *)
LEMMA ChainIsList ==
  ASSUME NEW N, NEW h, NEW end
  PROVE  Chain(N, h, end) = Follow(N, h, end)
BY DEF Chain, Follow, Met, Meets

LEMMA Searched ==
  ASSUME NEW h \in Queue, NEW p \in 1..Len(lists[h]), NEW x, lists[h][p] = x,
         ListInv, kind # "CIRCLEQ"
  PROVE  curelm(h, x) = IF p = 1 THEN h ELSE lists[h][p - 1]
<1> DEFINE w == IF p = 1 THEN h ELSE lists[h][p - 1]
<1>1. EndOf(kind, h) = NULL
  BY DEF EndOf
<1>10. Represents(kind, lists, next, prev) /\ WellOrdered /\ Fits
  BY Zenon DEF ListInv
<1>11. Follow(next, h, EndOf(kind, h)) = lists[h]
  BY <1>10, Followed
<1>2. Chain(next, h, NULL) = lists[h]
  BY <1>1, <1>11, ChainIsList
<1>3. curelm(h, x) = Search(next, h, lists[h], x)
  <2> DEFINE F(S) == CHOOSE l \in {h} \cup S : next[l] = x
  <2>1. Members(Chain(next, h, NULL)) = Members(lists[h])
    BY <1>2
  <2>2. curelm(h, x) = F(Members(Chain(next, h, NULL)))
    BY DEF curelm
  <2>3. Search(next, h, lists[h], x) = F(Members(lists[h]))
    BY DEF Search
  <2> HIDE DEF F
  <2> QED
    BY <2>1, <2>2, <2>3
<1>4. Before(h, lists[h], p, w, x)
  BY DEF Before
<1> HIDE DEF w
<1>5. Search(next, h, lists[h], x) = w
  BY <1>4, Found DEF ListInv
<1> QED
  BY <1>3, <1>5 DEF w

LEMMA SearchEnds ==
  ASSUME ListInv, kind # "CIRCLEQ", NEW h \in Queue, NEW x \in On(h)
  PROVE  next[curelm(h, x)] = x
<1> DEFINE p == Pos(h, x)
           n == Len(lists[h])
<1>1. n \in Nat /\ p \in 1..n /\ lists[h][p] = x
  BY OnPos
<1>2. ListAt(kind, h, lists[h], n, next, prev)
  BY PointersAt DEF ListInv
<1>3. curelm(h, x) = IF p = 1 THEN h ELSE lists[h][p - 1]
  BY <1>1, Searched
<1> HIDE DEF p, n
<1>4. CASE p = 1
  BY <1>1, <1>2, <1>3, <1>4 DEF ListAt
<1>5. CASE p # 1
  <2>1. p - 1 \in 1..n /\ p - 1 # n /\ (p - 1) + 1 = p
    BY <1>1, <1>5
  <2>2. next[lists[h][p - 1]] = lists[h][(p - 1) + 1]
    BY <1>2, <2>1 DEF ListAt
  <2> QED
    BY <1>1, <1>3, <1>5, <2>1, <2>2
<1> QED
  BY <1>4, <1>5

LEMMA HeadIn ==
  ASSUME ListInv, NEW h \in Queue, NEW e \in Unlinked, InsertHead(h, e),
         next' = [next EXCEPT ![e] = next[h], ![h] = e],
         BackAfter(kind, h, h, next[h], e, prev, prev')
  PROVE  Represents(kind, lists', next', prev')
<1> DEFINE r == <<e>> \o lists[h]
<1>1. lists' = [lists EXCEPT ![h] = r]
  BY DEF InsertHead
<1>2. e \in Elem /\ Fresh(e, lists) /\ Represents(kind, lists, next, prev)
  BY UnlinkedFresh DEF ListInv
<1>3. 0 \in 0..Len(lists[h])
  BY <1>2, Elements DEF Represents
<1>4. r = <<e>> \o lists[h]
  OBVIOUS
<1> HIDE DEF r
<1>5. Represents(kind, [lists EXCEPT ![h] = r], next', prev')
  BY <1>2, <1>3, <1>4, AfterStep
<1> QED
  BY <1>1, <1>5

LEMMA AfterIn ==
  ASSUME ListInv, NEW h \in Queue, NEW e \in Unlinked, NEW x \in On(h),
         InsertAfter(h, x, e), next' = [next EXCEPT ![e] = next[x], ![x] = e],
         BackAfter(kind, h, x, next[x], e, prev, prev')
  PROVE  Represents(kind, lists', next', prev')
<1> DEFINE p == Pos(h, x)
           r == PutIn(lists[h], p + 1, e)
<1>1. lists' = [lists EXCEPT ![h] = r]
  BY DEF InsertAfter
<1>2. e \in Elem /\ Fresh(e, lists) /\ Represents(kind, lists, next, prev)
  BY UnlinkedFresh DEF ListInv
<1>3. Len(lists[h]) \in Nat /\ p \in 1..Len(lists[h]) /\ lists[h][p] = x
  BY OnPos
<1>4. r = PutIn(lists[h], p + 1, e)
  OBVIOUS
<1> HIDE DEF r, p
<1>5. p \in 0..Len(lists[h]) /\ x = IF p = 0 THEN h ELSE lists[h][p]
  BY <1>3
<1>6. Represents(kind, [lists EXCEPT ![h] = r], next', prev')
  BY <1>2, <1>4, <1>5, AfterStep
<1> QED
  BY <1>1, <1>6

LEMMA BeforeIn ==
  ASSUME ListInv, kind \in Backed, NEW h \in Queue, NEW e \in Unlinked,
         NEW x \in On(h), InsertBefore(h, x, e),
         next' = [next EXCEPT ![e] = x, ![prev[x]] = e],
         prev' = [prev EXCEPT ![e] = prev[x], ![x] = e]
  PROVE  Represents(kind, lists', next', prev')
<1> DEFINE p == Pos(h, x)
           r == PutIn(lists[h], p, e)
<1>1. lists' = [lists EXCEPT ![h] = r]
  BY DEF InsertBefore
<1>2. e \in Elem /\ Fresh(e, lists) /\ Represents(kind, lists, next, prev)
  BY UnlinkedFresh DEF ListInv
<1>3. Len(lists[h]) \in Nat /\ p \in 1..Len(lists[h]) /\ lists[h][p] = x
  BY OnPos
<1>4. r = PutIn(lists[h], p, e)
  OBVIOUS
<1> HIDE DEF r, p
<1>5. /\ p \in 1..(Len(lists[h]) + 1) /\ p # Len(lists[h]) + 1
      /\ x = IF p = Len(lists[h]) + 1 THEN h ELSE lists[h][p]
  BY <1>3
<1>6. Represents(kind, [lists EXCEPT ![h] = r], next', prev')
  BY <1>2, <1>4, <1>5, BeforeStep
<1> QED
  BY <1>1, <1>6

LEMMA TailIn ==
  ASSUME ListInv, NEW h \in Queue, NEW e \in Unlinked, InsertTail(h, e),
         \/ /\ kind \in {"SIMPLEQ", "TAILQ"}
            /\ next' = [next EXCEPT ![e] = NULL, ![prev[h]] = e]
            /\ prev' = IF kind = "SIMPLEQ" THEN [prev EXCEPT ![h] = e]
                       ELSE [prev EXCEPT ![e] = prev[h], ![h] = e]
         \/ /\ kind = "CIRCLEQ"
            /\ next' = [next EXCEPT ![e] = h, ![prev[h]] = e]
            /\ prev' = [prev EXCEPT ![e] = prev[h], ![h] = e]
  PROVE  Represents(kind, lists', next', prev')
<1> DEFINE r == Append(lists[h], e)
           q == Len(lists[h]) + 1
<1>1. lists' = [lists EXCEPT ![h] = r]
  BY DEF InsertTail
<1>2. e \in Elem /\ Fresh(e, lists) /\ Represents(kind, lists, next, prev)
  BY UnlinkedFresh DEF ListInv
<1>3. q \in 1..(Len(lists[h]) + 1)
  BY <1>2, Elements DEF Represents
<1>4. CASE kind # "CIRCLEQ"
  <2>1. Represents(kind, [lists EXCEPT ![h] = Append(lists[h], e)], next', prev')
    BY <1>2, <1>4, LastStep
  <2> QED
    BY <1>1, <2>1
<1>5. CASE kind = "CIRCLEQ"
  <2>1. r = Append(lists[h], e) /\ q = Len(lists[h]) + 1 /\ kind \in Backed
    BY <1>5 DEF Backed
  <2> HIDE DEF r, q
  <2>2. h = IF q = Len(lists[h]) + 1 THEN h ELSE lists[h][q]
    BY <2>1
  <2>3. Represents(kind, [lists EXCEPT ![h] = r], next', prev')
    BY <1>2, <1>3, <1>5, <2>1, <2>2, BeforeStep
  <2> QED
    BY <1>1, <2>3
<1> QED
  BY <1>4, <1>5

LEMMA Gone ==
  ASSUME ListInv, NEW h \in Queue, NEW x \in On(h), NEW w, RemoveElem(h, x),
         \/ kind \in Backed /\ w = prev[x]
         \/ kind # "CIRCLEQ" /\ w = curelm(h, x),
         next' = [next EXCEPT ![w] = next[x]],
         BackOver(kind, h, w, next[x], prev, prev')
  PROVE  Represents(kind, lists', next', prev')
<1> DEFINE p == Pos(h, x)
<1>1. lists' = [lists EXCEPT ![h] = TakeOut(lists[h], p)]
  BY DEF RemoveElem
<1>2. Represents(kind, lists, next, prev)
  BY DEF ListInv
<1>3. p \in 1..Len(lists[h]) /\ lists[h][p] = x
  BY OnPos
<1> HIDE DEF p
<1>4. \/ kind \in Backed /\ w = prev[x]
      \/ w = IF p = 1 THEN h ELSE lists[h][p - 1]
  BY <1>3, Searched
<1>5. Represents(kind, [lists EXCEPT ![h] = TakeOut(lists[h], p)], next', prev')
  BY <1>2, <1>3, <1>4, OverStep
<1> QED
  BY <1>1, <1>5

LEMMA InsteadIn ==
  ASSUME ListInv, kind \in Backed, NEW h \in Queue, NEW e \in Unlinked,
         NEW x \in On(h), ReplaceElem(h, x, e),
         next' = [next EXCEPT ![e] = next[x], ![prev[x]] = e],
         BackAfter(kind, h, prev[x], next[x], e, prev, prev')
  PROVE  Represents(kind, lists', next', prev')
<1> DEFINE p == Pos(h, x)
<1>1. lists' = [lists EXCEPT ![h] = [lists[h] EXCEPT ![p] = e]]
  BY DEF ReplaceElem
<1>2. e \in Elem /\ Fresh(e, lists) /\ Represents(kind, lists, next, prev)
  BY UnlinkedFresh DEF ListInv
<1>3. p \in 1..Len(lists[h]) /\ x = lists[h][p]
  BY OnPos
<1> HIDE DEF p
<1>4. Represents(kind, [lists EXCEPT ![h] = [lists[h] EXCEPT ![p] = e]], next', prev')
  BY <1>2, <1>3, InsteadStep
<1> QED
  BY <1>1, <1>4

LEMMA Behind ==
  ASSUME ListInv, NEW h \in Queue, NEW g \in Queue, h # g, Concat(h, g),
         kind \in {"SIMPLEQ", "TAILQ"},
         \/ next[g] = NULL /\ next' = next /\ prev' = prev
         \/ /\ next[g] # NULL
            /\ next' = [next EXCEPT ![prev[h]] = next[g], ![g] = NULL]
            /\ \/ kind = "SIMPLEQ" /\ prev' = [prev EXCEPT ![h] = prev[g], ![g] = g]
               \/ /\ kind = "TAILQ"
                  /\ prev' = [prev EXCEPT ![next[g]] = prev[h], ![h] = prev[g], ![g] = g]
  PROVE  Represents(kind, lists', next', prev')
<1>1. Represents(kind, lists, next, prev)
  BY DEF ListInv
<1>2. lists' = [lists EXCEPT ![h] = lists[h] \o lists[g], ![g] = <<>>]
  BY DEF Concat
<1>3. CASE next[g] = NULL
  <2>1. lists[g] = <<>> /\ lists[h] \o lists[g] = lists[h]
    BY <1>1, <1>3, NothingBehind
  <2>2. lists' = lists
    BY <1>1, <1>2, <2>1 DEF Represents
  <2> QED
    BY <1>1, <1>3, <2>2
<1>4. CASE next[g] # NULL
  <2>1. /\ next' = [next EXCEPT ![prev[h]] = next[g], ![g] = NULL]
        /\ \/ kind = "SIMPLEQ" /\ prev' = [prev EXCEPT ![h] = prev[g], ![g] = g]
           \/ /\ kind = "TAILQ"
              /\ prev' = [prev EXCEPT ![next[g]] = prev[h], ![h] = prev[g], ![g] = g]
    BY <1>4
  <2>2. Represents(kind, [lists EXCEPT ![h] = lists[h] \o lists[g], ![g] = <<>>],
                   next', prev')
    BY <1>1, <1>4, <2>1, BehindStep, Zenon
  <2> QED
    BY <1>2, <2>2
<1> QED
  BY <1>3, <1>4

-----------------------------------------------------------------------------
(* Each kind of list.                                                      *)

LEMMA SlistStep ==
  ASSUME ListInv, kind = "SLIST", SLIST
  PROVE  Represents(kind, lists', next', prev')
<1>1. PICK h \in Queue :
        \/ \E e \in Unlinked :
             \/ SLIST_INSERT_HEAD(h, e) /\ InsertHead(h, e)
             \/ \E x \in On(h) : SLIST_INSERT_AFTER(x, e) /\ InsertAfter(h, x, e)
        \/ \E x \in On(h) : SLIST_REMOVE(h, x) /\ RemoveElem(h, x)
  BY DEF SLIST
<1>2. ASSUME NEW e \in Unlinked, SLIST_INSERT_HEAD(h, e), InsertHead(h, e)
      PROVE  Represents(kind, lists', next', prev')
  BY <1>2, HeadIn DEF SLIST_INSERT_HEAD, BackAfter
<1>3. ASSUME NEW e \in Unlinked, NEW x \in On(h), SLIST_INSERT_AFTER(x, e),
             InsertAfter(h, x, e)
      PROVE  Represents(kind, lists', next', prev')
  BY <1>3, AfterIn DEF SLIST_INSERT_AFTER, BackAfter
<1>4. ASSUME NEW x \in On(h), SLIST_REMOVE(h, x), RemoveElem(h, x)
      PROVE  Represents(kind, lists', next', prev')
  <2>1. next[curelm(h, x)] = x
    BY <1>4, SearchEnds
  <2> QED
    BY <1>4, <2>1, Gone DEF SLIST_REMOVE, SLIST_REMOVE_AFTER, BackOver
<1> QED
  BY <1>1, <1>2, <1>3, <1>4

LEMMA ListStep ==
  ASSUME ListInv, kind = "LIST", LIST
  PROVE  Represents(kind, lists', next', prev')
<1>1. PICK h \in Queue :
        \/ \E e \in Unlinked :
             \/ LIST_INSERT_HEAD(h, e) /\ InsertHead(h, e)
             \/ \E x \in On(h) :
                  \/ LIST_INSERT_AFTER(x, e) /\ InsertAfter(h, x, e)
                  \/ LIST_INSERT_BEFORE(x, e) /\ InsertBefore(h, x, e)
                  \/ LIST_REPLACE(x, e) /\ ReplaceElem(h, x, e)
        \/ \E x \in On(h) : LIST_REMOVE(x) /\ RemoveElem(h, x)
  BY DEF LIST
<1>2. kind \in Backed
  BY DEF Backed
<1>3. ASSUME NEW e \in Unlinked, LIST_INSERT_HEAD(h, e), InsertHead(h, e)
      PROVE  Represents(kind, lists', next', prev')
  BY <1>3, HeadIn DEF LIST_INSERT_HEAD, Relink, BackAfter
<1>4. ASSUME NEW e \in Unlinked, NEW x \in On(h), LIST_INSERT_AFTER(x, e),
             InsertAfter(h, x, e)
      PROVE  Represents(kind, lists', next', prev')
  BY <1>4, AfterIn DEF LIST_INSERT_AFTER, Relink, BackAfter
<1>5. ASSUME NEW e \in Unlinked, NEW x \in On(h), LIST_INSERT_BEFORE(x, e),
             InsertBefore(h, x, e)
      PROVE  Represents(kind, lists', next', prev')
  BY <1>2, <1>5, BeforeIn DEF LIST_INSERT_BEFORE
<1>6. ASSUME NEW e \in Unlinked, NEW x \in On(h), LIST_REPLACE(x, e),
             ReplaceElem(h, x, e)
      PROVE  Represents(kind, lists', next', prev')
  BY <1>2, <1>6, InsteadIn DEF LIST_REPLACE, Relink, BackAfter
<1>7. ASSUME NEW x \in On(h), LIST_REMOVE(x), RemoveElem(h, x)
      PROVE  Represents(kind, lists', next', prev')
  BY <1>2, <1>7, Gone DEF LIST_REMOVE, Relink, BackOver
<1> QED
  BY <1>1, <1>3, <1>4, <1>5, <1>6, <1>7

LEMMA SimpleqStep ==
  ASSUME ListInv, kind = "SIMPLEQ", SIMPLEQ
  PROVE  Represents(kind, lists', next', prev')
<1>1. PICK h \in Queue :
        \/ \E e \in Unlinked :
             \/ SIMPLEQ_INSERT_HEAD(h, e) /\ InsertHead(h, e)
             \/ SIMPLEQ_INSERT_TAIL(h, e) /\ InsertTail(h, e)
             \/ \E x \in On(h) :
                  SIMPLEQ_INSERT_AFTER(h, x, e) /\ InsertAfter(h, x, e)
        \/ \E x \in On(h) : SIMPLEQ_REMOVE(h, x) /\ RemoveElem(h, x)
        \/ \E g \in Queue \ {h} : SIMPLEQ_CONCAT(h, g) /\ Concat(h, g)
  BY DEF SIMPLEQ
<1>2. ASSUME NEW e \in Unlinked, SIMPLEQ_INSERT_HEAD(h, e), InsertHead(h, e)
      PROVE  Represents(kind, lists', next', prev')
  BY <1>2, HeadIn DEF SIMPLEQ_INSERT_HEAD, Ends, BackAfter
<1>3. ASSUME NEW e \in Unlinked, SIMPLEQ_INSERT_TAIL(h, e), InsertTail(h, e)
      PROVE  Represents(kind, lists', next', prev')
  BY <1>3, TailIn DEF SIMPLEQ_INSERT_TAIL
<1>4. ASSUME NEW e \in Unlinked, NEW x \in On(h), SIMPLEQ_INSERT_AFTER(h, x, e),
             InsertAfter(h, x, e)
      PROVE  Represents(kind, lists', next', prev')
  BY <1>4, AfterIn DEF SIMPLEQ_INSERT_AFTER, Ends, BackAfter
<1>5. ASSUME NEW x \in On(h), SIMPLEQ_REMOVE(h, x), RemoveElem(h, x)
      PROVE  Represents(kind, lists', next', prev')
  <2>1. next[curelm(h, x)] = x
    BY SearchEnds
  <2> QED
    BY <1>5, <2>1, Gone DEF SIMPLEQ_REMOVE, SIMPLEQ_REMOVE_AFTER, Ends, BackOver
<1>6. ASSUME NEW g \in Queue \ {h}, SIMPLEQ_CONCAT(h, g), Concat(h, g)
      PROVE  Represents(kind, lists', next', prev')
  BY <1>6, Behind DEF SIMPLEQ_CONCAT
<1> QED
  BY <1>1, <1>2, <1>3, <1>4, <1>5, <1>6

LEMMA CircleqStep ==
  ASSUME ListInv, kind = "CIRCLEQ", CIRCLEQ
  PROVE  Represents(kind, lists', next', prev')
<1>1. PICK h \in Queue :
        \/ \E e \in Unlinked :
             \/ CIRCLEQ_INSERT_HEAD(h, e) /\ InsertHead(h, e)
             \/ CIRCLEQ_INSERT_TAIL(h, e) /\ InsertTail(h, e)
             \/ \E x \in On(h) :
                  \/ CIRCLEQ_INSERT_AFTER(x, e) /\ InsertAfter(h, x, e)
                  \/ CIRCLEQ_INSERT_BEFORE(x, e) /\ InsertBefore(h, x, e)
        \/ \E x \in On(h) : CIRCLEQ_REMOVE(x) /\ RemoveElem(h, x)
  BY DEF CIRCLEQ
<1>2. kind \in Backed
  BY DEF Backed
<1>3. ASSUME NEW e \in Unlinked, CIRCLEQ_INSERT_HEAD(h, e), InsertHead(h, e)
      PROVE  Represents(kind, lists', next', prev')
  BY <1>3, HeadIn DEF CIRCLEQ_INSERT_HEAD, CIRCLEQ_INSERT_AFTER, BackAfter
<1>4. ASSUME NEW e \in Unlinked, CIRCLEQ_INSERT_TAIL(h, e), InsertTail(h, e)
      PROVE  Represents(kind, lists', next', prev')
  BY <1>4, TailIn DEF CIRCLEQ_INSERT_TAIL, CIRCLEQ_INSERT_BEFORE
<1>5. ASSUME NEW e \in Unlinked, NEW x \in On(h), CIRCLEQ_INSERT_AFTER(x, e),
             InsertAfter(h, x, e)
      PROVE  Represents(kind, lists', next', prev')
  BY <1>5, AfterIn DEF CIRCLEQ_INSERT_AFTER, BackAfter
<1>6. ASSUME NEW e \in Unlinked, NEW x \in On(h), CIRCLEQ_INSERT_BEFORE(x, e),
             InsertBefore(h, x, e)
      PROVE  Represents(kind, lists', next', prev')
  BY <1>2, <1>6, BeforeIn DEF CIRCLEQ_INSERT_BEFORE
<1>7. ASSUME NEW x \in On(h), CIRCLEQ_REMOVE(x), RemoveElem(h, x)
      PROVE  Represents(kind, lists', next', prev')
  BY <1>2, <1>7, Gone DEF CIRCLEQ_REMOVE, BackOver
<1> QED
  BY <1>1, <1>3, <1>4, <1>5, <1>6, <1>7

LEMMA TailqStep ==
  ASSUME ListInv, kind = "TAILQ", Operation
  PROVE  Represents(kind, lists', next', prev')
<1>1. PICK h \in Queue :
        \/ \E e \in Unlinked :
             \/ TAILQ_INSERT_HEAD(h, e) /\ InsertHead(h, e)
             \/ TAILQ_INSERT_TAIL(h, e) /\ InsertTail(h, e)
             \/ \E x \in On(h) :
                  \/ TAILQ_INSERT_AFTER(h, x, e) /\ InsertAfter(h, x, e)
                  \/ TAILQ_INSERT_BEFORE(x, e) /\ InsertBefore(h, x, e)
                  \/ TAILQ_REPLACE(h, x, e) /\ ReplaceElem(h, x, e)
        \/ \E x \in On(h) : TAILQ_REMOVE(h, x) /\ RemoveElem(h, x)
        \/ \E g \in Queue \ {h} : TAILQ_CONCAT(h, g) /\ Concat(h, g)
  BY DEF Operation
<1>2. kind \in Backed
  BY DEF Backed
<1>3. ASSUME NEW e \in Unlinked, TAILQ_INSERT_HEAD(h, e), InsertHead(h, e)
      PROVE  Represents(kind, lists', next', prev')
  BY <1>3, HeadIn DEF TAILQ_INSERT_HEAD, BackAfter
<1>4. ASSUME NEW e \in Unlinked, TAILQ_INSERT_TAIL(h, e), InsertTail(h, e)
      PROVE  Represents(kind, lists', next', prev')
  BY <1>4, TailIn DEF TAILQ_INSERT_TAIL
<1>5. ASSUME NEW e \in Unlinked, NEW x \in On(h), TAILQ_INSERT_AFTER(h, x, e),
             InsertAfter(h, x, e)
      PROVE  Represents(kind, lists', next', prev')
  BY <1>5, AfterIn DEF TAILQ_INSERT_AFTER, BackAfter
<1>6. ASSUME NEW e \in Unlinked, NEW x \in On(h), TAILQ_INSERT_BEFORE(x, e),
             InsertBefore(h, x, e)
      PROVE  Represents(kind, lists', next', prev')
  BY <1>2, <1>6, BeforeIn DEF TAILQ_INSERT_BEFORE
<1>7. ASSUME NEW e \in Unlinked, NEW x \in On(h), TAILQ_REPLACE(h, x, e),
             ReplaceElem(h, x, e)
      PROVE  Represents(kind, lists', next', prev')
  BY <1>2, <1>7, InsteadIn DEF TAILQ_REPLACE, BackAfter
<1>8. ASSUME NEW x \in On(h), TAILQ_REMOVE(h, x), RemoveElem(h, x)
      PROVE  Represents(kind, lists', next', prev')
  BY <1>2, <1>8, Gone DEF TAILQ_REMOVE, BackOver
<1>9. ASSUME NEW g \in Queue \ {h}, TAILQ_CONCAT(h, g), Concat(h, g)
      PROVE  Represents(kind, lists', next', prev')
  BY <1>9, Behind DEF TAILQ_CONCAT, TAILQ_EMPTY
<1> QED
  BY <1>1, <1>3, <1>4, <1>5, <1>6, <1>7, <1>8, <1>9

LEMMA MovedOut ==
  ASSUME ListInv, kind = "TAILQ", iter.head \in Queue, NEW g \in Queue, foreach_remove(g)
  PROVE  /\ Represents(kind, lists', next', prev')
         /\ lists'[iter.head] = TakeOut(lists[iter.head], Pos(iter.head, iter.var))
<1> DEFINE e == iter.var
           h == iter.head
           p == Pos(h, e)
           n == [next EXCEPT ![prev[e]] = next[e]]
           q == [prev EXCEPT ![IF next[e] # NULL THEN next[e] ELSE h] = prev[e]]
<1>1. Represents(kind, lists, next, prev) /\ lists \in [Queue -> Seq(Elem)]
  BY DEF ListInv, Represents
<1>2. h # g /\ p \in 1..Len(lists[h]) /\ e = lists[h][p]
  BY OnPos DEF foreach_remove
<1>3. Unlinks(h, e, next, prev, n, q)
  BY DEF Unlinks
<1>4. LinksFirst(g, e, n, q, next', prev')
  BY DEF LinksFirst, foreach_remove
<1>5. lists' = [lists EXCEPT ![h] = TakeOut(lists[h], p), ![g] = <<e>> \o lists[g]]
  BY <1>1, <1>2 DEF foreach_remove
<1> HIDE DEF e, h, p, n, q
<1>6. h \in Queue
  BY DEF h
<1>7. Represents(kind, [lists EXCEPT ![h] = TakeOut(lists[h], p),
                                     ![g] = <<e>> \o lists[g]], next', prev')
  BY <1>1, <1>2, <1>3, <1>4, <1>6, MoveStep
<1>8. lists'[h] = TakeOut(lists[h], p)
  BY <1>1, <1>2, <1>5, <1>6
<1> QED
  BY <1>5, <1>7, <1>8 DEF h, p, e

(* Every operation on lists of the kind keeps the pointers right.          *)
LEMMA ListsKept ==
  ASSUME ListInv, WalkInv, [LinkedListsNext]_lvars
  PROVE  ListInv'
<1>1. CASE UNCHANGED lvars
  BY <1>1 DEF lvars, qvars, ListInv
<1>2. ASSUME LinkedListsNext
      PROVE  Represents(kind, lists', next', prev')
  <2>1. CASE kind = "SLIST" /\ SLIST
    BY <2>1, SlistStep
  <2>2. CASE kind = "LIST" /\ LIST
    BY <2>2, ListStep
  <2>3. CASE kind = "SIMPLEQ" /\ SIMPLEQ
    BY <2>3, SimpleqStep
  <2>4. CASE kind = "CIRCLEQ" /\ CIRCLEQ
    BY <2>4, CircleqStep
  <2>5. CASE kind = "TAILQ" /\ Operation
    BY <2>5, TailqStep
  <2>6. CASE UNCHANGED <<lists, next, prev>>
    BY <2>6 DEF ListInv
  <2>7. ASSUME kind = "TAILQ", iter # NoLoop, NEW g \in Queue, foreach_remove(g)
        PROVE  Represents(kind, lists', next', prev')
    BY <2>7, MovedOut DEF WalkInv
  <2> QED
    BY <1>2, <2>1, <2>2, <2>3, <2>4, <2>5, <2>6, <2>7
       DEF LinkedListsNext, TailQueueNext, foreach_start, foreach_step
<1>3. LinkedListsNext => kind' = kind
  BY DEF LinkedListsNext
<1> QED
  BY <1>1, <1>2, <1>3 DEF ListInv

(* The loop meets the elements that were on the list.                      *)
LEMMA WalkKept ==
  ASSUME ListInv, ListInv', WalkInv, [LinkedListsNext]_lvars
  PROVE  WalkInv'
<1>1. CASE UNCHANGED <<lists, iter, kind>>
  BY <1>1 DEF WalkInv, NoLoop
<1>2. CASE iter = NoLoop /\ UNCHANGED iter
  BY <1>2 DEF WalkInv, NoLoop
<1>3. ASSUME kind = "TAILQ", kind' = kind, NEW h \in Queue, foreach_start(h)
      PROVE  WalkInv'
  <2> DEFINE s == lists[h]
             var == next[h]
             saved == IF var = NULL THEN NULL ELSE next[var]
  <2>1. /\ iter'.head = h /\ iter'.var = var /\ iter'.saved = saved
        /\ iter'.all = s /\ iter'.seen = <<>> /\ lists' = lists
    BY <1>3 DEF foreach_start, Loop
  <2>2. ListAt("TAILQ", h, s, Len(s), next, prev)
    BY <1>3, PointersAt DEF ListInv
  <2>3. Walk(s, s, <<>>, 0, var, saved)
    BY <2>2, WalkStarts
  <2> HIDE DEF s, var, saved
  <2>4. Len(<<>>) = 0
    OBVIOUS
  <2> QED
    BY <1>3, <2>1, <2>3, <2>4 DEF WalkInv, s
<1>4. ASSUME kind = "TAILQ", kind' = kind, iter # NoLoop, foreach_step, iter.var # NULL
      PROVE  WalkInv'
  <2> DEFINE h == iter.head
             s == lists[h]
             n == iter.saved
             m == Len(iter.seen)
             now == Append(iter.seen, iter.var)
             saved == IF n = NULL THEN NULL ELSE next[n]
  <2>1. /\ iter'.head = h /\ iter'.var = n /\ iter'.saved = saved
        /\ iter'.all = iter.all /\ iter'.seen = now /\ lists' = lists
    BY <1>4 DEF foreach_step, foreach_next, Loop
  <2>2. h \in Queue /\ Walk(s, iter.all, iter.seen, m, iter.var, n)
    BY <1>4 DEF WalkInv
  <2>3. ListAt("TAILQ", h, s, Len(s), next, prev)
    BY <1>4, <2>2, PointersAt DEF ListInv
  <2>4. Walk(s, iter.all, now, m + 1, n, saved)
    BY <1>4, <2>2, <2>3, WalkGoesOn
  <2> HIDE DEF h, s, n, m, now, saved
  <2>5. m + 1 = Len(now)
    BY <2>4 DEF Walk
  <2> QED
    BY <1>4, <2>1, <2>2, <2>4, <2>5 DEF WalkInv, s
<1>5. ASSUME foreach_step, iter.var = NULL
      PROVE  WalkInv'
  BY <1>5 DEF foreach_step, WalkInv, NoLoop
<1>6. ASSUME kind = "TAILQ", kind' = kind, iter # NoLoop, NEW g \in Queue, foreach_remove(g)
      PROVE  WalkInv'
  <2> DEFINE h == iter.head
             s == lists[h]
             p == Pos(h, iter.var)
             m == Len(iter.seen)
  <2>1. h \in Queue /\ Walk(s, iter.all, iter.seen, m, iter.var, iter.saved)
    BY <1>6 DEF WalkInv
  <2>2. p \in 1..Len(s) /\ iter.var = s[p]
    BY <1>6, <2>1, OnPos DEF foreach_remove
  <2>3. ListAt("TAILQ", h, s, Len(s), next, prev)
    BY <1>6, <2>1, PointersAt DEF ListInv
  <2>4. lists'[h] = TakeOut(s, p) /\ iter' = iter
    BY <1>6, <2>1, MovedOut DEF foreach_remove
  <2> HIDE DEF h, s, p, m
  <2>5. Walk(TakeOut(s, p), iter.all, iter.seen, m, iter.var, iter.saved)
    BY <2>1, <2>2, <2>3, WalkWithout
  <2> QED
    BY <1>6, <2>1, <2>4, <2>5 DEF WalkInv, h, m
<1>7. kind # "TAILQ" => iter = NoLoop
  BY DEF WalkInv
<1>8. CASE LinkedListsNext
  BY <1>2, <1>3, <1>4, <1>5, <1>6, <1>7, <1>8
     DEF LinkedListsNext, TailQueueNext, Operation
<1> QED
  BY <1>1, <1>8 DEF lvars, qvars

-----------------------------------------------------------------------------
(* What the pointers that are right give.                                  *)

LEMMA Straight ==
  ASSUME ListInv, NEW h \in Queue
  PROVE  Chain(next, h, ListEnd(h)) = lists[h]
<1>1. Follow(next, h, EndOf(kind, h)) = lists[h]
  BY Followed DEF ListInv
<1> QED
  BY <1>1, ChainIsList DEF ListEnd, EndOf

LEMMA Reversed ==
  ASSUME ListInv, kind = "CIRCLEQ", NEW h \in Queue
  PROVE  Chain(prev, h, h) = Backwards(lists[h])
<1>1. Follow(prev, h, h) = Backwards(lists[h])
  BY FollowedBack DEF ListInv
<1> QED
  BY <1>1, ChainIsList

LEMMA Addresses ==
  ASSUME ListInv
  PROVE  /\ kind = "SIMPLEQ" => LastAddress
         /\ kind = "LIST" => PreviousAddress
         /\ kind = "TAILQ" => BackLinks
<1>1. ASSUME NEW h \in Queue
      PROVE  /\ ListAt(kind, h, lists[h], Len(lists[h]), next, prev)
             /\ DOMAIN lists[h] = 1..Len(lists[h]) /\ Len(lists[h]) \in Nat
             /\ lists[h] = <<>> <=> Len(lists[h]) = 0
  <2>1. ListAt(kind, h, lists[h], Len(lists[h]), next, prev)
    BY PointersAt DEF ListInv
  <2>2. lists[h] \in Seq(Elem)
    BY <2>1 DEF ListAt
  <2> QED
    BY <2>1, <2>2
<1>2. ASSUME kind = "SIMPLEQ" PROVE LastAddress
  BY <1>1, <1>2 DEF ListAt, Ended, LastAddress
<1>3. ASSUME kind = "LIST" PROVE PreviousAddress
  BY <1>1, <1>3 DEF ListAt, Backed, PreviousAddress
<1>4. ASSUME kind = "TAILQ" PROVE BackLinks
  <2> SUFFICES ASSUME NEW h \in Queue
               PROVE  /\ next[prev[h]] = NULL
                      /\ TAILQ_LAST(h) = IF lists[h] = <<>> THEN NULL
                                         ELSE lists[h][Len(lists[h])]
                      /\ \A i \in DOMAIN lists[h] :
                           /\ next[prev[lists[h][i]]] = lists[h][i]
                           /\ TAILQ_PREV(lists[h][i]) =
                                IF i = 1 THEN NULL ELSE lists[h][i - 1]
    BY DEF BackLinks
  <2> DEFINE s == lists[h]
             n == Len(s)
  <2>1. Back(h, s, n, next, prev)
    BY <1>1, <1>4, BackAt
  <2>2. DOMAIN s = 1..n /\ (s = <<>> <=> n = 0)
    BY <1>1
  <2> HIDE DEF s, n
  <2>3. /\ next[prev[h]] = NULL
        /\ next[prev[prev[h]]] = IF s = <<>> THEN NULL ELSE s[n]
    BY <2>1, <2>2 DEF Back
  <2>4. \A i \in DOMAIN s :
          /\ next[prev[s[i]]] = s[i]
          /\ next[prev[prev[s[i]]]] = IF i = 1 THEN NULL ELSE s[i - 1]
    BY <2>1, <2>2 DEF Back
  <2> QED
    BY <2>3, <2>4 DEF TAILQ_LAST, TAILQ_PREV, s, n
<1> QED
  BY <1>2, <1>3, <1>4

LEMMA ListInvSays ==
  ASSUME ListInv
  PROVE  ListRepresented
BY Straight, Reversed, Addresses DEF ListRepresented

LEMMA WalkInvSays ==
  ASSUME WalkInv
  PROVE  ForeachVisitsAll
BY WalkMet DEF WalkInv, ForeachVisitsAll

-----------------------------------------------------------------------------
INSTANCE FiniteSetTheorems
INSTANCE WellFoundedInduction

(* A set of numbers that is not empty has a least element.                 *)
LEMMA Smallest == WellOrdered
<1> SUFFICES ASSUME NEW T \in SUBSET Nat, T # {}
             PROVE  \E n \in T : \A m \in T : n =< m
  BY DEF WellOrdered
<1>1. PICK n \in T : \A m \in T : ~ (<<m, n>> \in OpToRel(<, Nat))
  BY NatLessThanWellFounded, WFMin, Zenon
<1>2. \A m \in T : ~ (m < n)
  BY <1>1 DEF OpToRel
<1> QED
  BY <1>2

(* A list holds no element twice, so it is no longer than there are        *)
(* elements.                                                               *)
LEMMA ListFits == Fits
<1>1. IsFiniteSet(Elem) /\ Cardinality(Elem) \in Nat
  BY ListAssumption, FS_CardinalityType
<1> SUFFICES ASSUME NEW s \in Seq(Elem),
                    \A i, j \in 1..Len(s) : s[i] = s[j] => i = j
             PROVE  Len(s) =< Cardinality(Elem)
  BY <1>1 DEF Fits
<1> DEFINE n == Len(s)
<1>2. n \in Nat /\ n \in Int /\ s \in [1..n -> Elem]
  BY Elements
<1>3. s \in Injection(1..n, Elem)
  BY <1>2 DEF Injection, IsInjective
<1>4. Cardinality(1..n) =< Cardinality(Elem)
  BY <1>1, <1>3, FS_Injection
<1> HIDE DEF n
<1>5. Cardinality(1..n) = IF 1 > n THEN 0 ELSE n - 1 + 1
  BY <1>2, FS_Interval
<1>6. n =< Cardinality(Elem)
  BY <1>2, <1>4, <1>5
<1> QED
  BY <1>6 DEF n

LEMMA ListsInvariant == LinkedListsSpec => [](ListInv /\ WalkInv)
<1>1. LinkedListsInit => ListInv /\ WalkInv
  <2> SUFFICES ASSUME LinkedListsInit
               PROVE  ListInv /\ WalkInv
    OBVIOUS
  <2>1. next = [l \in Loc |-> IF l \in Queue THEN EndOf(kind, l) ELSE NULL]
    BY DEF LinkedListsInit, ListEnd, EndOf
  <2>2. Represents(kind, lists, next, prev)
    BY <2>1, EmptyLists DEF LinkedListsInit, ListsInit
  <2> QED
    BY <2>2, Smallest, ListFits DEF LinkedListsInit, ListInv, WalkInv
<1>2. ListInv /\ WalkInv /\ [LinkedListsNext]_lvars => (ListInv /\ WalkInv)'
  BY ListsKept, WalkKept
<1> QED
  BY <1>1, <1>2, PTL DEF LinkedListsSpec

(* Whatever operations of queue.h came before, for any number of lists and *)
(* of elements, the pointers stand for the sequences of elements: every    *)
(* list is met in order from its head, a circular one backwards too, and   *)
(* sqh_last, le_prev, tqh_last and tqe_prev are the addresses they should  *)
(* be.                                                                     *)
THEOREM PointersRepresentLists == LinkedListsSpec => []ListRepresented
BY ListsInvariant, ListInvSays, PTL

(* TAILQ_FOREACH_SAFE visits the elements that were on the list, each once *)
(* and in order, also when the body moves the current one to another list. *)
THEOREM ForeachSafe == LinkedListsSpec => []ForeachVisitsAll
BY ListsInvariant, WalkInvSays, PTL
=============================================================================
