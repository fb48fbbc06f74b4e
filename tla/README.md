# Specification of rumpuser-baremetal

TLA+ modules, TLC configurations and TLAPS proofs for the bare metal hypervisor
layer of the rump kernel: the code that lets a rump kernel run on an x86 PC
without an operating system. The reference is the C and assembly code in `src/`;
every definition is translated from it, and `PROJECT.json` names the lines.

## The system

| Part | Source | State | Operations |
|---|---|---|---|
| thread scheduler | `sched.c`, `arch/i386/locore32.S`, `cpu_sched.c` | the lists `threads` and `zombies`, flags, wakeup time and saved context of every thread, `current_thread` | create, exit, block, wake, sleep, `bmk_sched()`, reaper |
| joining | `sched.c`, `rumpfiber.c` | `THREAD_MUSTJOIN`, `THREAD_JOINED`, `joinwq` | the gate of `bmk_sched_exit()`, `bmk_sched_join()` |
| interrupts | `intr.c`, `locore32.S`, `machdep.c`, `md.h` | `isr_todo`, handlers, `bmk_spldepth`, the PIC masks | `bmk_isr()`, `isr()`, establish, `splhigh()`/`spl0()`, `nanohlt` |
| wait queues | `rumpfiber.c` | a `TAILQ` of `struct waiter`, which live on stacks | `wait()`, `wakeup_one()`, `wakeup_all()` |
| mutexes, condition variables | `rumpfiber.c` | `v`, `o`, `nwaiters`, wait queues | enter, enter_nowrap, tryenter, exit; wait, timedwait, signal, broadcast |
| reader/writer locks | `rumpfiber.c` | `v`, `o`, two wait queues | enter, tryenter, exit, downgrade, tryupgrade, held |
| clock and sleep | `rumpuser.c`, `sched.c` | time stamp counter | gettime, sleep |
| lwp and errno | `rumpfiber.c`, `sched.c`, `libc_errno.c` | one TLS slot and `bt_errno` per thread | set, clear |
| boot, CPU setup | `locore32.S`, `kernel.c`, `machdep.c` | `bmk_membase`, `bmk_memsize`, gates, PIC masks | `_start32`, `bmk_main()`, `parsemem()`, `bmk_cpu_init()`, `bmk_cpu_intr_init()` |
| page allocator | `kernel.c` | the counter `current` | `bmk_allocpg()` |
| memory allocator | `memalloc.c` | free list per bucket, headers | memalloc, memfree, memrealloc |
| users of the heap | `rumpuser.c`, `libc_malloc.c`, `libc_emul.c`, `rumppci.c`, `sched.c` | memory they own | malloc, mmap, DMA memory, thread stacks |
| console | `kernel.c` | cursor, screen | putc |
| strings, parameters, random numbers | `subr.c`, `rumpuser.c` | caller's memory, seed | copy, compare, getparam, getrandom |
| 64 bit division | `librt/` | none | pure functions |
| lists | `include/bmk/queue.h` | pointers | insert, remove, concatenate, iterate |
| PCI, libc stubs, application | `rumppci.c`, `libc_*.c`, `undefs.c`, `app.c` | `intrs` | interrupt map, port I/O, stubs |

How the parts interact. There is one CPU and no preemption: a thread runs until
it calls `bmk_sched()`. Locks and sleeps are built on block, wake and
`bmk_sched()`. A device interrupt does not switch threads, it sets a bit in
`isr_todo` and wakes `isr_thread`, which runs the handlers of the rump kernel and
then acknowledges the interrupt. The rump kernel above has one virtual CPU, which
a thread gives up by `rumpkern_unsched()` whenever a call blocks. All memory comes
from one page counter: the buckets of the memory allocator take whole pages from
it, and so do DMA memory and page-sized requests of the rump kernel.

What is hard about it, and must hold:

- the scheduler reads `prev` before a context switch and uses it after, on a
  different stack, to decide which zombies to free; addresses are reused;
- new threads go to the head of the list, which must not starve the others;
- timeouts race with wakeups, and the waiter that is queued is on a stack;
- interrupts come at any point where they are enabled: between the test of
  `isr_todo` and the block, between the scan and `hlt`;
- a mutex is not handed over: between the wakeup and the next try of the waiter
  others may enter and leave;
- a reader/writer lock does not know who leaves it;
- memory is aligned inside its block, and the block must be found again from the
  header when the memory is freed or reallocated, after any order of calls;
- interrupts are enabled when most gates are still empty;
- list macros keep redundant pointers, and a stale one shows operations later;
- boundaries: the last column of the last line, the last byte of a buffer,
  counters and sizes that wrap, divisors with a high word.

`PROJECT.json` lists these hazards with their lines and properties.

## Modules

| Module | Extends | Contents |
|---|---|---|
| `Sched` | | the scheduler: the base of everything else |
| `SchedRR` | `Sched` | a history of who overtook whom, to state round robin |
| `SchedJoin` | `Sched` | joinable threads |
| `Intr` | `Sched` | device interrupts, `isr()`, the PIC, spl |
| `WaitQueue` | `Sched` | `wait()` and the wakeups |
| `RumpThread` | `WaitQueue` | threads of the rump kernel, the virtual CPU, `rumpuser_clock_sleep()` |
| `Fiber` | `RumpThread` | mutexes and condition variables |
| `RwLock` | `RumpThread` | a reader/writer lock |
| `Lwp` | | lwps, errno and mutex ownership, over reused threads |
| `Boot` | | from the boot loader to the application: memory map, gates, masks, interrupt map |
| `PageAlloc` | | the page counter |
| `MemAlloc` | `PageAlloc` | buckets, headers, alignment, realloc |
| `Heap` | `MemAlloc` | all interfaces that hand out memory, used together |
| `Allocator` | | abstract: sets of disjoint ranges |
| `ListBase` | | heads and elements, putting in and taking out |
| `Lists` | `ListBase` | abstract: sequences and the operations on them |
| `TailQueue` | `Lists` | the pointers of the `TAILQ` macros |
| `LinkedLists` | `TailQueue` | the other lists of `queue.h`, and all of them together |
| `Console` | | screen and cursor, and a teletype to compare with |
| `Subr` | | the string functions over a memory of cells |
| `Strings`, `Params` | `Subr` | their results on short strings; parameters and random bytes |
| `Division` | | the division functions, one round of the loop per step |
| `MCParts` | the parts without common state | one of them runs, the others stay where they start |
| `SchedProofs` | `RumpThread` | proofs: facts about lists, the scheduler, what `wait()` and the wakeups do to a queue |
| `IntrProofs` | `Intr`, `SchedRR`, `SchedProofs` | proofs: round robin, interrupts |
| `FiberSteps`, `FiberProofs` | `Fiber`, `SchedProofs` | proofs: mutexes and condition variables |
| `RwLockProofs` | `RwLock`, `SchedProofs` | proofs: the reader/writer lock |
| `LinkProofs` | `ListBase` | proofs: what keeps pointers in step with a sequence |
| `PartsProofs` | `Boot`, `Lwp`, `LinkedLists`, `LinkProofs` | proofs: boot, lwps, the lists of `queue.h` |
| `MemProofs` | `PageAlloc`, `Console` | proofs: pages, console |

`Sched` is also the abstract specification of what runs on top of it. `Intr` and
`Fiber` have the scheduler's variables among theirs, and the runs check `Spec` of
`Sched` as a property: each of their steps is a step of the scheduler or leaves it
alone. This is also proved, of `RwLock` too, for all values of the constants; so
what is proved of `Sched` holds of all three.

`Allocator` is the abstract specification of memory: a set of ranges in use, to
which a step adds one that overlaps none, from which it takes one, or in which it
replaces one. `Heap`, the composition of all clients with the buckets and the page
counter, is checked to implement it, with the ranges the callers hold as the
refinement mapping. `Lists` plays the same part for the list macros: every
operation on the pointers goes together with the operation on the sequence it is
meant to be.

### Sched

`threads` is the `TAILQ` in scan order, `zombies` the set of exited threads, `bt`
the fields of `struct bmk_thread` that matter: the flag `THREAD_RUNNABLE`,
`bt_wakeup_time` and the kind of the saved `btcb_ip`. A member of `Thread` is an
address; `bmk_sched_create` takes any address that is on neither list, so reuse
after the reaper is included. `cpu` says what the CPU executes: the current
thread, the scan of `bmk_sched()` on its stack, or `hlt` on its stack.

One step is what happens between two calls of `bmk_sched()`. The scan is one step
although interrupts are enabled during it: an interrupt only makes `isr_thread`
runnable, and the outcome is that of an interrupt before or after the scan. An
interrupt between a scan that found nothing and `hlt` is the step `Wake` with
`cpu = "hlt"`; the code then halts until the next clock interrupt, which is the
later step `nanohlt_return`. A thread that enters through the bouncer does not
return into `bmk_sched()` and does not reap (`Reaped`).

Left out: `THREAD_TIMEDOUT`, which is set and never read; `THREAD_EXTSTACK`, as no
caller passes a stack; name, TLS and errno; `scheduler_hook`, which is never
called; the local `wakeup`, which is computed from an uninitialised value and not
used. A thread function that returns (`locore32.S`: "hope no threads exit ;)") is
not modelled: threads end by `bmk_sched_exit()`. The boot thread returns from
`bmk_main()` and does not exit through it.

### SchedRR

A thread waits from the moment the scan would stop at it. `overtakers[t]` are the
threads that got the CPU since then. A thread created at the address of one that
was freed is a different thread.

### SchedJoin

The whole of `bmk_sched_exit()` and `bmk_sched_join()`. `joinable` remembers what
the caller of `rumpuser_thread_create()` asked for; `mustjoin` is the flag the
code tests.

### Intr

The steps of `isr()` are cut where an interrupt could come in if spl did not keep
it out, also between the copy of `isr_todo` and its reset. `spldepth` is
`bmk_spldepth`; interrupts are off unless it is 0. The PIC: `masked` is what the
code writes to PIC2, `pending` the latched edges, `inservice` what was delivered
and not acknowledged. The stubs do not acknowledge, and both lines sit behind one
line of the master, so the next device waits for the acknowledgement in `isr()`.
A handler serves its device and may sleep before it does. `owed` records the
devices that raised an interrupt since their handler last ran.

Inside a handler the accesses to the fields of `isr_thread` by
`bmk_sched_nanosleep()` are not atomic against `bmk_isr()`; that they can be one
step is the invariant `HandlerUndisturbed`.

Left out: the prologue of `isr()` (an lwp for the thread), several handlers on one
line, the message about stray interrupts, the 100Hz clock interrupt except as the
end of `hlt`.

### WaitQueue, RumpThread, Fiber, RwLock

`waiters[h]` is the queue, `onlist[t]` the flag of the `struct waiter` on the
stack of thread `t`. `frame[t]` is the call a thread is in. `vcpu` is the thread
that has the virtual CPU, which belongs to the rump kernel and is modelled from
how the code calls `rumpkern_sched()` and `rumpkern_unsched()`. `Interrupted` are
the threads `bmk_isr()` may wake at any time, whatever they wait for: a wait that
nobody ended.

A thread makes any call that the contract of the calls allows; the head comment of
`Fiber` states that contract. An lwp is identified with its thread. The order in
which `cv_resched()` takes mutex and virtual CPU depends on the kind of the mutex
and is not observable, since neither blocks.

`RwLock` keeps in `hold` what each thread believes about the lock. `overlap` and
`downgraded` record that a writer entered beside readers and that `v` was
overwritten, the two ways in which the lock stops excluding.

Locks are created and destroyed too, the latter under the asserts of the code.

### Lwp

A thread's TLS slot and `bt_errno` over creation, exit and reuse of its memory.
The rump kernel binds lwps to threads (`bound`, from how `rumpuser_curlwpop()` is
used) and an lwp may go on in another thread while it holds the mutex. The
scheduler is reduced to `Switch`: any live thread may run next. `Fiber` and
`RwLock` identify lwp and thread; this module checks what that leaves out. Threads
that have no lwp are one owner of the mutex, `NoLwp`, because the code compares NULL
with NULL.

### Boot

A step per stage of the boot: `_start32`, `bmk_main()`, one entry of the memory
map at a time, then `bmk_cpu_init()` cut at each store that matters (descriptor
table, traps, PIC, clock gate and, as a step of its own, `spl0()`), the scheduler,
the application. The
loader's magic number, flags and memory map, and the masks the firmware left, are
arbitrary, except that the image lies in available memory. Drivers then map and
establish lines. `intrs` includes the word behind the array, which the check of
`rumpcomp_pci_irq_map()` does not keep out. `bmk_isr_netinit()` takes memory for the
handler and frees it when the line is refused. Encoding of descriptors and the
timer's divisor are left out.

### PageAlloc, MemAlloc, Heap, Allocator

Addresses and sizes are numbers of `WordBits` bits and their arithmetic wraps, as
`unsigned long` does on the target. `runs` records what `bmk_allocpg()` returned.
In `MemAlloc` a free list is a sequence of addresses and `hdr` holds the header in
front of memory in use. `live` has what the caller asked for, and how many bytes
of its data a realloc did not copy. `bmk_memalloc()` includes its early returns: a
failure may have moved the page counter. The range check, the statistics and the
test program in `memalloc.c` are compiled out and not modelled.

`Heap` has an action per interface; `owned` says which interface memory came from
and which length its owner will pass back. Only owners free, once and through
their own interface. `mmap()` of a file reads it in a second step, after other
threads ran, and gives the memory back when that fails. `realloc()` changes the owner
by the address that `bmk_memrealloc()` returned: when it failed, the owner keeps
what it has, with the length it had. Freeing a thread's stack
frees it through `stackfree()`.

### Lists, TailQueue, LinkedLists

A head and an element's link field have the same layout, and the address of the
pointer in it is written as the head or element itself; so `*tqh_last = elm` is a
store to `next[prev[h]]`. Two heads and three elements move between them.
`TAILQ_FOREACH_SAFE` is a loop of several steps whose body removes elements.
`LinkedLists` chooses the kind of list at the start and checks each kind against
the same sequences.

### Console

`bmk_cons_putc()` as it is. Beside it a teletype types the same characters on
paper that is cut off at the height of the screen: no buffer, no scrolling.

### Subr, Strings, Params

Memory is a function from cells to bytes, and the string functions are operators
from memories to memories that copy cell by cell as the loops do, including the
cells after the terminator that `bmk_strncpy()` writes. `Strings` checks them on
two arrays with all contents over a small alphabet, and all lengths. The counter of
`bmk_strncpy()` passes zero when the source is longer than it; the second loop then
writes zeroes through all of memory. `bmk_strcmp()` looks at the character after the
last one it compared; when strings first differ at the last character of the first
argument, it returns the difference of what follows. `StringsRight` says for every
call what it returns and what memory holds after it, these two cases included.

`Params` answers each parameter into a buffer behind the constant strings of the
program, for memory sizes around the powers of ten, and stores random words, all
with the same bytes. Buffers are left as the calls before left them. Names are
sequences of characters and compared by `bmk_strcmp()`: `Names` has the parameters,
and names with another last character, with one less, one more and two more. The
byte behind a constant string, which the comparison may read, is whatever the linker
put there. A call with a host name longer than the buffer destroys the program, and
nothing follows it.

### Division

`__udivmoddi4()` and `__udivsi3()` with their callers, for words of
`n_uword_bits`. The special cases are the first step, a round of the loop is a
step each. Shifts, `clz` and `ctz` are those of the machine.

## Runs

| Run | Checks | States |
|---|---|---|
| `sched` | lists, stacks, contexts and timeouts consistent; no starvation of runnable threads and timed sleepers; round robin | 31,990 |
| `join` | violation: a joinable thread cannot be joined | |
| `intr` | no interrupt lost, no wakeup missed, the PIC always acknowledged, handlers undisturbed, interrupts on outside `isr()`, every request handled; refines `Sched` | 60,780 |
| `intr_mask` | violation: the second line established masks the first | |
| `fiber` | no dangling waiter, no lost wakeup, owners live, virtual CPU given up, waiters counted, nowrap succeeds; refines `Sched` | 535,700 |
| `fiber_live` | timed and signalled waits return | 11,180 |
| `fiber_adaptive` | violation: with an adaptive interlock, nowrap panics | |
| `rwlock` | no lost wakeup, no reader left, holders counted, exclusion as far as it goes | 1,158,272 |
| `rw_downgrade` | violation: the assert of downgrade fails | |
| `heap` | pages once, blocks apart and kept, memory as large and as aligned as asked and going back where it came from; all interfaces together implement `Allocator` | 39,027 |
| `mem_realloc` | violation: realloc does not copy all data | |
| `parts` | see below | 446,224 |

`parts` is a sum, not a product: the part that runs is chosen at the start and
runs from each of its initial states, the others stand still.

| Part | Property | What it says |
|---|---|---|
| `Boot` | `MemoryBehindImage` | the memory to allocate is whole pages behind the image, to the end of its chunk |
| | `NoHyperspace` | no open line without a gate once interrupts are on, handlers exactly on the lines that lead to them, and no memory kept for a line that was refused |
| `Lwp` | `ThreadsOwnState` | the asserts of `rumpuser_curlwpop()` hold and errno is the thread's own, over reuse of its memory |
| | `MutexByLwp` | a mutex is held by the lwp that entered it, or by the threads without one, on whatever thread it goes on |
| `Params` | `ParamAnswered` | an answer is the value of the parameter, terminated inside the buffer; only names that `bmk_strcmp()` confuses with a parameter are answered, and a parameter is refused only for want of room |
| | `BufferKept` | a call writes outside the buffer exactly when the host name does not fit, a refused one writes nothing |
| `Strings` | `StringsRight` | copies complete and nothing beyond, comparison; what the two flawed cases do |
| `Console` | `ScreenShowsPaper` | the screen shows the end of the paper |
| `Division` | `DivisionCorrect` | quotient and remainder right for all arguments, the loop's invariant, traps only for zero |
| `Lists` | `ListRepresented` | the pointers are the sequence; back links and tail pointers right |
| | `ForeachVisitsAll` | safe iteration visits every element although its body removes them |

Bounds. Three threads give a thread that runs, one that
waits and one that is created, exits and is reused. `MaxTime` and `MaxSleep` bound
the clock; with 1 a sleep can be expired or not, and `sched` uses 3 and 2 so that
sleeps overlap. `MaxRaise = 2` lets an interrupt come while another is handled.
`MaxDepth = 2` lets a mutex be recursive. At the bound of the clock sleeps that
would end later are not started; threads can still wait without a timeout, yield
by a sleep of length 0, and exit.

The allocators run in a memory of three or four pages of 64 bytes and words of 10
bits: one bucket size below a page, one of a page and larger ones, requests that
fail for want of pages, and alignments below, at and above the header; 12 is no
power of two and is refused. `MaxLive` is the number of blocks in use. `heap`
keeps `MaxCurrent` below the wrap and asks for no empty aligned memory
(`EmptyAligned`), which is needed: see the disagreements. Two words of 3 bits take
the division through every special case and every shift below, at and above the
word. A screen of 3 by 3 has a first, a middle and a last line. Three elements
give a list a first, a middle and a last one. A memory map of two entries has one
that is skipped. `BMK_MAXINTR` is 12, above the lines that have a stub, and cookies
and lines below, at and above it are used. Buffers of 0 to 6 bytes are shorter than,
as long as and longer than the host name, of `HostLen` characters, and the numbers.

`rwlock` does not check for deadlock: after the failed assert of a downgrade the
system really stops. `heap` stops when all requests within the bounds were made,
or in a panic, and `parts` in a failed boot, a failed assertion of
`rumpuser_getparam()`, or when a function has returned.

Fairness. Scheduler, halted CPU and clock do not stop. A thread reaches its next
call of `bmk_sched()`: the scheduler is cooperative, and a thread that never
yields stops the system. A handler returns. In `Fiber` the rump kernel leaves spin
mutexes and does not stay outside for ever; strong fairness is needed because
other calls can make such a call unavailable for a while. No liveness is claimed
for entering a mutex: the code lets others overtake a woken waiter.

## Disagreements between code and comments

1. Joining (`sched.c:316`): `bmk_sched_create()` ignores `thrflags`, so
   `THREAD_MUSTJOIN` is never set and every join fails its assert.
2. PIC mask (`machdep.c:194`): "unmask interrupt in PIC" overwrites the mask.
3. `rumpuser_mutex_enter_nowrap()` (`rumpfiber.c:185`): "must succeed" does not
   hold for the adaptive mutexes `cv_resched()` uses it for.
4. `rumpuser_rw_downgrade()` (`rumpfiber.c:350`): the assert can fail for a
   writer, because readers do not keep writers out and a reader that leaves clears
   the owner.
5. `bmk_memrealloc()` (`memalloc.c:450`): the header is taken off twice, so the
   last 8 bytes of a full block are not copied, not even when it is reallocated to
   the size it has.

Each of these five has a run that ends in a counterexample. Modelling met others,
which have no run of their own: of most of them no comment, assertion or test says
anything. Of the first three, properties of `parts` say exactly when they occur:

- `bmk_strncpy()` (`subr.c:49`): when the source is longer than `n`, the counter
  passes zero and the second loop writes zeroes through all of memory. The callers
  pass the size of the buffer less one, so this happens for the host name in a buffer
  it does not fit into (`rumpuser.c:35`, `BufferKept`) and for a thread with a long
  name (`sched.c:260`; `Sched` has no names).
- `bmk_strcmp()` (`subr.c:27`) takes two strings for equal that differ only in the
  last character of the first, or where the first has one character more and a 0
  follows the second. So `rumpuser_getparam()` answers names that are no
  parameters (`ParamAnswered`).
- `rumpuser_mutex_tryenter()` (`rumpfiber.c:196`) compares lwps: threads without
  one are taken for the owner of each other's mutex (`MutexByLwp`).
- `rumpcomp_pci_irq_map()` (`rumppci.c:51`): the check lets `BMK_MAXINTR` through,
  and `intrs[]` ends before it. `Boot` has the word behind the array; what else it is
  used for is not in the model.
- `rumpuser_rw_held()` (`rumpfiber.c:338`) denies the lock to a thread that holds it:
  to the reader after a downgrade, which leaves `v` negative, and to a writer when a
  reader that left has cleared `o`. These are the two exceptions of
  `WriterExcludes`.
- `rumpuser_cv_timedwait()` (`rumpfiber.c:446`) with a timeout of zero waits without
  one, because `wait()` takes zero for no timeout; `TimedWaitEnds` is about the others.
- `bmk_memfree()` (`memalloc.c:406`): "also clobbers ov_magic" is not so, the link
  overlays `ov_alignpad`. A second free of the same memory is not noticed; in
  `Heap` owners free once.
- `bmk_memrealloc()` (`memalloc.c:442`): the same difference passes zero for an
  empty block whose alignment reaches its bucket. With `EmptyAligned = TRUE` and
  0 among `Nbytes` and 64 in `Align`, `MemSpec` violates `LiveInside`.
- `bmk_memalloc()` (`memalloc.c:235`): the sum wraps for the largest sizes. With
  1023 among `Nbytes`, `MemSpec` violates `LiveInside`. `calloc()` does not test
  its product either.
- `bmk_allocpg()` (`kernel.c:23`): failed requests count, and the product wraps.
  With `MaxCurrent` above 2^`WordBits` / `PAGE_SIZE`, `PageSpec` violates
  `PagesOnce`.
- `LIST_MOVE` (`queue.h:203`): the back link of the first element is stale. The
  macro is not used in the repository, and not in `LinkedLists`.
- `bmk_main()` (`kernel.c:68`): the flag tested is one of the multiboot header, not
  of the info structure, where the bit stands for a boot device.

## Proofs

All of these hold for every value of the constants that meets the named
assumptions (`ASSUME` in the modules): any set of threads, mutexes, interrupt lines,
any size of memory, screen or memory map.

### Scheduler

`SchedProofs` proves from `init_thread \in Thread` and `MaxTime, MaxSleep \in Nat`:

- `TypeCorrect`: `Spec => []TypeOK`;
- `SchedSafe`: `Spec => []Safety`, and from it `ListsStayIntact`,
  `StacksOutliveUse`, `ContextsSaved` and `TimeoutsDisarmed`.

`Safety`, the conjunction of the four invariants, is inductive given `TypeOK`. The
conjuncts need each other: that the current thread is live while it runs
(`StackNotFreed`) says that exit finds it on the list; that no zombie is live
(`ListsIntact`) says that the reaper frees no thread the scan can find, and
keeps a stored context from being wiped; `RunnableDisarmed` needs to know that
only the thread on the list is changed. The module begins with the facts about
removing from and adding to an injective sequence. The lemmas `...Fields` say what
the operators on `bt` change, `RunEffect` what a successful scan does, and
`SafetyStep` has one step per action.

`IntrProofs` proves `SchedulerIsRoundRobin`, `RRSpec => RoundRobin`, on top of
it. The property is about one step and says nothing about the list; `RRInv` adds
`OvertakersBehind`, that whoever overtook a waiting thread is behind it on the
list, and that an address on no list has been overtaken by nobody. A dispatch
puts the thread last, an exit keeps the order of the rest (`RemoveAtOrder`), and a
new thread, which goes to the head, starts with a clean record on both sides.
The scan takes the first thread that can run, so it takes none that is behind a
waiting one.

### Interrupts

The rest of `IntrProofs` is about `Intr`: `IntrImplementsSched` (`IntrSpec => Spec`),
`InterruptsKept`, `InterruptsNeverWedge` and `HandlersUndisturbed`. `IntrInv` joins
the three invariants and adds what they leave out: `IsrControl` ties the place
where `isr_thread` is to `spldepth`, to the CPU and to the copy it works on, and says
that nothing is established or open before `bmk_isr_init()`; `ServiceBegun` says that
a line is in service as long as `isr()` has work. The PIC starts a stub only when none
is, and this is what keeps stubs out of handlers.

### Wait queues, mutexes, condition variables, the reader/writer lock

`SchedProofs` ends with what is common: one lemma for each way a step can meet a queue
(`QuietStep`: not at all, `WaitStep`: the caller joins it, `ReturnStep`: a waiter
returns from `wait()`, on the queue still or not, `WakeupStep`: the first waiter is
woken), each of which keeps `WaitersLive`. They serve both modules that extend
`RumpThread`.

`FiberSteps` defines `FiberInv` and proves that calling, blocking and returning keep
it, `FiberProofs` does the same for releasing, signalling and broadcasting, and draws
the conclusions. Beside types, `WaitersLive` and `WaitersCounted` it says

- `VcpuOnCpu`, `SpinOnCpu`: the virtual CPU, and a spin mutex, are with the thread
  that runs, and not while it is on its way to block. `VcpuReleased` alone says
  nothing of a thread that is about to block;
- `OwnersLive`: an owner is live and not in the loop for its own mutex;
- `HandedOver`: a free mutex that has a queue will be tried by a runnable thread.
  The thread may be at the top of the loop or in `wait()`; the wakeup of the release,
  and the way from the one place to the other, keep it.

`FiberImplementsSched` (`FiberSpec => Spec`) and `FiberSafeUntilPanic` have no
hypothesis: either an assertion of the code has fired or the four invariants hold.
`SpinMutexesSucceed` (`NowrapSucceeds`) has the hypothesis `Interlock \subseteq Spin`:
the interlocks passed to a wait that does not give up the virtual CPU are spin
mutexes. The run `fiber_adaptive` shows that the assertion does fire otherwise.
Under the same hypothesis follow `WaitQueuesLive`, `NoWakeupLost`,
`BlockedWithoutVcpu` and `CvWaitersCounted`, as the run `fiber` checks them. That
mutexes and condition variables are different objects (`Mutex \cap CV = {}`) is
assumed: each has a queue of its own in its own structure.

`RwLockProofs` proves `RwImplementsSched`, `NoRwWakeupLost`, `RwHoldersCounted`,
`RwExclusion` and `RwWaitQueues`. The invariant has two layers. `RwQueues` is about
threads and queues: the loop that wakes the readers runs without interruption
(`OnCpu`), who tries to get the lock does not hold it (`Holds`), and `HandedOn`, the
inductive form of `NoLostRwWakeup`, in which a writer on its way may be anywhere in
the loop of `rumpuser_rw_enter()`. `RwLocked` is about the lock word:
`HoldersCounted`, `WriterExcludes` and `OwnerLive`, that the owner is live as long as
neither of the two flaws of the lock (see above) has shown.

### Parts

`PartsProofs`:

- `ThreadsHaveOwnState` and `MutexHeldByLwp` for any number of threads and lwps.
  `LwpBound`, that the TLS slot of a live thread is the lwp bound to it and that no
  dead thread has one, makes them inductive.
- `PagesBehindImage`: `ImageFits /\ BootSpec => []MemoryBehindImage`. `ImageFits` says
  of the memory map that the chunk the image was loaded into has room for it up to
  its last page, which `bmk_main()` does not test and the boot loader ensures, and
  that the rest fits into a word. `RoundPage` is the lemma on rounding up.
- `GatesBeforeInterrupts`: `BootSpec => []NoHyperspace`. `GatesInv` says for every stage
  of the boot which gates are set, which lines masked and that interrupts are off.
  `BootAssumption` says which lines there are at least, and that `BMK_MAXINTR` is not
  below those that have a stub.
- `PointersRepresentLists` and `ForeachSafe`, for any heads and any finite set of
  elements: after every sequence of the macros of the five kinds of list the pointers
  are those of the sequences, and a safe loop visits what was on the list when it
  began, in order and once. Why this needs more than `ListRepresented`: that property
  follows pointers from the head, and what a step does to the pointers is seen from
  the places they are at. `ListInv` says that the places of a list (its head, its
  elements, its end) are distinct, that the pointers lead from each to the next and,
  for the kinds that have them, back, and that no element is on two lists. For each way
  pointers change (put in, take out, put in place of, join) `LinkProofs` has a lemma on
  one list and one on all of them, for any pointers; `PartsProofs` shows of every macro
  which of these it is. `SLIST_REMOVE` and `SIMPLEQ_REMOVE` search for the element in
  front: the search ends because the list is no longer than there are elements
  (`ListFits`) and numbers have a least one that meets a condition (`Smallest`).
  `WalkInv` describes the loop: seen is the beginning of what the list was at the
  start, the current and the saved element come next, and all behind the current one
  are still on the list, at its end and in order.

### Memory and console

`MemProofs` proves `PagesHandedOutOnce`: under `NoWrap`, that all requests
together, failed ones included, stay inside the address space, no page is handed
out twice or lies outside the memory, for every page and memory size. Without
`NoWrap` the theorem is false, as said above. `PagesOnce` is not inductive: `PageInv`
adds that everything handed out ends below the next page the counter stands for.

It also proves `ConsoleIsTeletype` for every width and height above zero and every
text: the screen shows the end of the paper. `ConsoleInv` adds that the cursor is where the
teletype is and that buffer and paper have their types. One lemma each for storing
a character, clearing a line and scrolling says what it does to the lines shown;
the arithmetic of rows and columns is in `Products` and the lemmas next to it.

### Only model-checked

Liveness (under fairness); `SchedJoin`; `MemAlloc` and `Heap`, with what they
implement, whose arithmetic with powers of two is beyond the provers;
`Division`, `Strings` and `Params`, whose results for every input need
induction over data or bit operations.

## Not modelled

- In `Intr`: the prologue of `isr()` (an lwp for the thread), several handlers on
  one line, the message about stray interrupts. Nothing in `src/` puts two
  handlers on a line.
- Descriptor encoding, the timer's divisor, PCI configuration space: port I/O and
  constants of the hardware. The PCI mappings are the identity.
- `rumpuser_clock_gettime()`: one division and one remainder by a constant.
- `STAILQ`: the macros are those of `SIMPLEQ` under other names.
- The stubs of `libc_emul.c` and `undefs.c` that return a constant or panic, and
  `rumpuser_dprintf()`, `rumpuser_exit()` and the like: no state.
- The parts of `memalloc.c` that are compiled out: `RCHECK`, `MSTATS`,
  `MEMALLOC_TESTING`.
- `app.c`: calls network and disk functions of the rump kernel, which are not in
  the repository.
- A thread function that returns, and stacks passed by the caller: nothing in
  `src/` does either.
