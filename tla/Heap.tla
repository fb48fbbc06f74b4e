-------------------------------- MODULE Heap --------------------------------
(***************************************************************************)
(* The memory interfaces on top of the page and the block allocator: the   *)
(* hypercalls rumpuser_malloc() and rumpuser_free(), DMA memory for PCI    *)
(* drivers, malloc() and mmap() of libc, and bmk_xmalloc() of the kernel.  *)
(***************************************************************************)
EXTENDS MemAlloc

VARIABLES owned,   \* the memory clients hold, by address: the interface it
                   \* came from, its length and the alignment asked for
          halted   \* panic() or a failed assert() spins for ever

hvars == <<mvars, owned, halted>>

Owner(kind, len, a) == [kind |-> kind, len |-> len, align |-> a]

(* Memory from bmk_memalloc(nbytes, a), taken for len bytes of it; nothing *)
(* if that returns NULL.                                                   *)
TakeBlock(nbytes, a, owner) ==
  /\ nbytes > 0 \/ a < 32 \/ EmptyAligned
  /\ \/ memalloc_fails(nbytes, a) /\ UNCHANGED owned
     \/ \E b \in Bucket :
          /\ memalloc_finds(b, nbytes, a)
          /\ heap' = Give(b, nbytes, a, 0)
          /\ owned' = (place(Head(Refill(b)), a) :> owner) @@ owned

TakePages(howmany, owner) ==
  /\ bmk_allocpg(howmany)
  /\ owned' = IF allocpg_rv(howmany) = NULL THEN owned
              ELSE (allocpg_rv(howmany) :> owner) @@ owned
  /\ UNCHANGED heap

Drop(cp) == owned' = Restrict(owned, DOMAIN owned \ {cp})

-----------------------------------------------------------------------------

\* Mutant: the size is rounded up to pages before it is compared.
rumpuser_malloc_round(howmuch, alignment) ==
  LET owner == Owner("rump", howmuch, alignment)
  IN  IF round_page(howmuch) = PAGE_SIZE THEN TakePages(1, owner)
      ELSE TakeBlock(howmuch, alignment, owner)

rumpuser_malloc(howmuch, alignment) ==
  LET owner == Owner("rump", howmuch, alignment)
  IN  IF howmuch = PAGE_SIZE THEN TakePages(1, owner)
      ELSE TakeBlock(howmuch, alignment, owner)

(* The caller passes the length it asked for; a page is not taken back.    *)
rumpuser_free(mem) ==
  /\ owned[mem].kind = "rump"
  /\ IF owned[mem].len = PAGE_SIZE THEN UNCHANGED mvars ELSE bmk_memfree(mem)
  /\ Drop(mem)

\* Mutant: the size is rounded down to pages.
rumpcomp_pci_dmalloc_down(size) ==
  TakePages(size \div PAGE_SIZE, Owner("dma", size, 0))

(* The alignment a driver asks for is ignored, pages have to do.           *)
rumpcomp_pci_dmalloc(size) ==
  TakePages(round_page(size) \div PAGE_SIZE, Owner("dma", size, 0))

(* panic("xmalloc failed") when there is no memory.                        *)
bmk_xmalloc(howmuch) ==
  /\ TakeBlock(howmuch, 0, Owner("kernel", howmuch, 0))
  /\ halted' = (owned' = owned)

stackfree(stack) ==
  owned[stack].kind = "kernel" /\ bmk_memfree(stack) /\ Drop(stack)

-----------------------------------------------------------------------------

posix_memalign(nbytes, a) == TakeBlock(nbytes, a, Owner("libc", nbytes, a))

malloc(size) == TakeBlock(size, 8, Owner("libc", size, 8))

(* n * size wraps.                                                         *)
calloc(n, size) ==
  TakeBlock((n * size) % WordMod, 8, Owner("libc", n * size, 8))

free(cp) == owned[cp].kind = "libc" /\ bmk_memfree(cp) /\ Drop(cp)

(* What the caller of realloc() owns after it, by what it returns: NULL    *)
(* for more than no bytes is a failure, which leaves the old memory.       *)
realloc_owner(cp, nbytes) ==
  LET rv == memrealloc_rv(cp, nbytes)
  IN  CASE rv = NULL /\ nbytes > 0 -> UNCHANGED owned
        [] rv = NULL /\ nbytes = 0 -> Drop(cp)
        [] rv # NULL /\ rv = cp -> owned' = [owned EXCEPT ![cp].len = nbytes]
        [] OTHER -> owned' = (rv :> Owner("libc", nbytes, 8))
                               @@ Restrict(owned, DOMAIN owned \ {cp})

realloc(cp, nbytes) ==
  /\ cp # NULL => owned[cp].kind = "libc"
  /\ bmk_memrealloc(cp, nbytes)
  /\ realloc_owner(cp, nbytes)

(* mmap() of anonymous memory returns at once; that of a file reads it in  *)
(* first, and pread() lets other threads run.                              *)
mmap(len, anon) ==
  TakeBlock(len, PAGE_SIZE,
            Owner(IF anon THEN "mmap" ELSE "pread", len, PAGE_SIZE))

mmap_pread(v) ==
  /\ owned[v].kind = "pread"
  /\ \/ owned' = [owned EXCEPT ![v].kind = "mmap"] /\ UNCHANGED mvars
     \/ bmk_memfree(v) /\ Drop(v)

munmap(addr) == owned[addr].kind = "mmap" /\ bmk_memfree(addr) /\ Drop(addr)

-----------------------------------------------------------------------------

HeapInit == MemInit /\ owned = <<>> /\ halted = FALSE

Take ==
  /\ Cardinality(DOMAIN owned) < MaxLive
  /\ \E n \in Nbytes :
       \/ bmk_xmalloc(n)
       \/ /\ UNCHANGED halted
          /\ \/ malloc(n)
             \/ realloc(NULL, n)
             \/ calloc(2, n)
             \/ n > 0 /\ rumpcomp_pci_dmalloc(n)
             \/ \E anon \in BOOLEAN : n > 0 /\ mmap(n, anon)
             \/ \E al \in Align : posix_memalign(n, al) \/ rumpuser_malloc(n, al)

GiveBack ==
  \E cp \in DOMAIN owned :
    \/ rumpuser_free(cp) \/ stackfree(cp) \/ free(cp)
    \/ mmap_pread(cp) \/ munmap(cp)
    \/ \E n \in Nbytes : realloc(cp, n)

HeapNext ==
  /\ ~ halted
  /\ \/ Take
     \/ GiveBack /\ UNCHANGED halted

HeapSpec == HeapInit /\ [][HeapNext]_hvars

-----------------------------------------------------------------------------

(* Memory goes back to where it came from: what its owner will pass to     *)
(* bmk_memfree() has a header in front of it, and whole pages do not get   *)
(* there.  No block in use is without an owner, and every owner has the    *)
(* room and, up to a page, the alignment it asked for, also after          *)
(* realloc().                                                              *)
OwnersServed ==
  /\ LiveInside
  /\ DOMAIN heap.live =
       {cp \in DOMAIN owned : ~ \/ owned[cp].kind = "dma"
                                \/ /\ owned[cp].kind = "rump"
                                   /\ owned[cp].len = PAGE_SIZE}
  /\ \A cp \in DOMAIN owned :
       PowerOfTwo(owned[cp].align) /\ owned[cp].align =< PAGE_SIZE
         => cp % align(owned[cp].align) = 0

Held == {[base |-> cp, len |-> owned[cp].len] : cp \in DOMAIN owned}

AllInterfaces == INSTANCE Allocator WITH HeapBase <- bmk_membase,
                                         HeapSize <- bmk_memsize,
                                         allocated <- Held

(* The interfaces together are one allocator: memory of one is never       *)
(* handed out by another, and each owner has the length it asked for.      *)
ImplementAllocator == AllInterfaces!Spec
=============================================================================
