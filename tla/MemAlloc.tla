------------------------------ MODULE MemAlloc ------------------------------
(***************************************************************************)
(* The memory allocator (memalloc.c): free lists of blocks of 2^(i+5)      *)
(* bytes, filled from the page allocator and never merged.  In front of    *)
(* the memory a caller gets lies a header that says which list the block   *)
(* belongs to and how far the block begins before that memory.             *)
(*                                                                         *)
(* A free list is a sequence of block addresses: the ov_next pointers lie  *)
(* in the free blocks, and LiveInside says that no caller writes there.    *)
(***************************************************************************)
EXTENDS PageAlloc, TLC

CONSTANTS Nbytes,       \* sizes callers ask for
          Align,        \* alignments callers ask for
          EmptyAligned, \* whether they ask for 0 bytes aligned to 32 or more
          MaxLive       \* bound on the number of blocks in use

VARIABLE heap  \* a record of
               \*   nextf: the free list of every bucket
               \*   hdr: union overhead by the address of the memory behind it
               \*   live: the memory in use, by address: what was asked for
               \*     and how many bytes of its data realloc dropped

mvars == <<current, runs, heap>>

MINSHIFT == 5
NBUCKETS == 30
MAGIC == 239
Overhead == 8  \* sizeof(union overhead)
PtrSize == 4   \* sizeof(void *)

BucketSize(b) == 2^(b + MINSHIFT)

(* amt, the size of a bucket, is an unsigned that must not wrap to 0.      *)
Bucket == {b \in 0..(NBUCKETS - 1) : b + MINSHIFT < WordBits}

pagebucket == CHOOSE b \in Bucket : BucketSize(b) = PAGE_SIZE

PowerOfTwo(a) == \E k \in 0..(WordBits - 1) : a = 2^k

roundup(x, a) == ((x + a - 1) \div a) * a

align(a) == Max({a, PtrSize})

allocbytes(nbytes, a) == (nbytes + roundup(Overhead, align(a))) % WordMod

(* Buckets that satisfy the request; the loop stops at the smallest.       *)
Suitable(nbytes, a) ==
  {b \in Bucket : /\ a = 0 \/ PowerOfTwo(a)
                  /\ BucketSize(b) >= allocbytes(nbytes, a)}

-----------------------------------------------------------------------------

(* corealloc(): the number of pages for one refill of the bucket.          *)
corealloc(b) == IF b < pagebucket THEN 1 ELSE 2^(b - pagebucket)

\* Mutant: one block too many is carved out of the page.
morecore_more(b) ==
  LET op  == allocpg_rv(corealloc(b))
      nblks == IF b < pagebucket THEN PAGE_SIZE \div BucketSize(b) + 1 ELSE 1
  IN  IF op = NULL THEN <<>>
      ELSE [i \in 1..nblks |-> op + (i - 1) * BucketSize(b)]

(* The free list morecore() builds.                                        *)
morecore(b) ==
  LET op  == allocpg_rv(corealloc(b))
      nblks == IF b < pagebucket THEN PAGE_SIZE \div BucketSize(b) ELSE 1
  IN  IF op = NULL THEN <<>>
      ELSE [i \in 1..nblks |-> op + (i - 1) * BucketSize(b)]

Refill(b) == IF heap.nextf[b] = <<>> THEN morecore(b) ELSE heap.nextf[b]

(* Where in the block at op the caller's memory begins.                    *)
place(op, a) == roundup(op + Overhead, align(a))

(* bmk_memalloc() once it has a block of bucket b.                         *)
Give(b, nbytes, a, lost) ==
  LET op == Head(Refill(b))
      rv == place(op, a)
  IN  [nextf |-> [heap.nextf EXCEPT ![b] = Tail(Refill(b))],
       hdr   |-> (rv :> [magic |-> MAGIC, index |-> b, alignpad |-> rv - op])
                   @@ heap.hdr,
       live  |-> (rv :> [nbytes |-> nbytes, align |-> a, lost |-> lost])
                   @@ heap.live]

(* The early returns; only the page counter may have moved.                *)
memalloc_fails(nbytes, a) ==
  LET fit == Suitable(nbytes, a)
  IN  /\ UNCHANGED heap
      /\ IF fit = {} THEN UNCHANGED <<current, runs>>
         ELSE /\ Refill(Min(fit)) = <<>>
              /\ bmk_allocpg(corealloc(Min(fit)))

(* A block of bucket b is there or can be had.                             *)
memalloc_finds(b, nbytes, a) ==
  /\ b \in Suitable(nbytes, a)
  /\ \A c \in Suitable(nbytes, a) : b =< c
  /\ Refill(b) # <<>>
  /\ IF heap.nextf[b] = <<>> THEN bmk_allocpg(corealloc(b))
     ELSE UNCHANGED <<current, runs>>

(* What bmk_memalloc() returns.                                            *)
memalloc_rv(nbytes, a) ==
  LET fit == Suitable(nbytes, a)
  IN  IF fit = {} \/ Refill(Min(fit)) = <<>> THEN NULL
      ELSE place(Head(Refill(Min(fit))), a)

bmk_memalloc(nbytes, a) ==
  /\ Cardinality(DOMAIN heap.live) < MaxLive
  /\ nbytes > 0 \/ a < 32 \/ EmptyAligned
  /\ \/ memalloc_fails(nbytes, a)
     \/ \E b \in Bucket :
          memalloc_finds(b, nbytes, a) /\ heap' = Give(b, nbytes, a, 0)

-----------------------------------------------------------------------------

origp(h, cp) == cp - h.hdr[cp].alignpad

\* Mutant: the block is taken to begin at the header.
memfree_header(h, cp) ==
  [nextf |-> [h.nextf EXCEPT ![h.hdr[cp].index] = Cons(cp - Overhead, @)],
   hdr   |-> Restrict(h.hdr, DOMAIN h.hdr \ {cp}),
   live  |-> Restrict(h.live, DOMAIN h.live \ {cp})]

(* What bmk_memfree(cp) does to the heap.                                  *)
memfree(h, cp) ==
  IF h.hdr[cp].magic # MAGIC THEN h
  ELSE [nextf |-> [h.nextf EXCEPT ![h.hdr[cp].index] = Cons(origp(h, cp), @)],
        hdr   |-> Restrict(h.hdr, DOMAIN h.hdr \ {cp}),
        live  |-> Restrict(h.live, DOMAIN h.live \ {cp})]

bmk_memfree(cp) ==
  /\ heap' = memfree(heap, cp)
  /\ UNCHANGED <<current, runs>>

(* The room bmk_memrealloc() takes cp to have.  alignpad counts the header *)
(* already; the arithmetic is unsigned.                                    *)
realloc_room(cp) ==
  (BucketSize(heap.hdr[cp].index) - (heap.hdr[cp].alignpad + Overhead))
    % WordMod

realloc_stays(cp, nbytes) ==
  /\ realloc_room(cp) >= nbytes
  /\ heap' = [heap EXCEPT !.live[cp].nbytes = nbytes]
  /\ UNCHANGED <<current, runs>>

realloc_moves(cp, nbytes) ==
  LET old  == heap.live[cp].nbytes
      lost == Max({0, Min({old, nbytes}) - realloc_room(cp)})
  IN  /\ realloc_room(cp) < nbytes
      /\ \/ memalloc_fails(nbytes, 8)
         \/ \E b \in Bucket :
              /\ memalloc_finds(b, nbytes, 8)
              /\ heap' = memfree(Give(b, nbytes, 8, lost), cp)

(* No memory yet, none wanted any more, or another size of it.             *)
bmk_memrealloc(cp, nbytes) ==
  IF cp = NULL THEN bmk_memalloc(nbytes, 8)
  ELSE IF nbytes = 0 THEN bmk_memfree(cp)
  ELSE realloc_stays(cp, nbytes) \/ realloc_moves(cp, nbytes)

memrealloc_rv(cp, nbytes) ==
  IF cp # NULL /\ nbytes = 0 THEN NULL
  ELSE IF cp # NULL /\ realloc_room(cp) >= nbytes THEN cp
  ELSE memalloc_rv(nbytes, 8)

-----------------------------------------------------------------------------

MemInit ==
  /\ PageInit
  /\ heap = [nextf |-> [b \in Bucket |-> <<>>], hdr |-> <<>>, live |-> <<>>]

(* The clients of the allocator, and those that take pages.                *)
MemNext ==
  \/ \E nbytes \in Nbytes, a \in Align : bmk_memalloc(nbytes, a)
  \/ \E cp \in DOMAIN heap.live : bmk_memfree(cp)
  \/ \E cp \in DOMAIN heap.live \cup {NULL}, nbytes \in Nbytes :
       bmk_memrealloc(cp, nbytes)
  \/ bmk_allocpg(1) /\ UNCHANGED heap

MemSpec == MemInit /\ [][MemNext]_mvars

-----------------------------------------------------------------------------

BlockOf(cp) ==
  [base |-> origp(heap, cp), len |-> BucketSize(heap.hdr[cp].index)]

FreeBlocks ==
  UNION {{[base |-> op, len |-> BucketSize(b)] : op \in ToSet(heap.nextf[b])} :
           b \in Bucket}

LiveBlocks == {BlockOf(cp) : cp \in DOMAIN heap.live}

Blocks == FreeBlocks \cup LiveBlocks

(* No block is free and in use, twice free, or shared between two callers, *)
(* and blocks lie side by side in the pages they were carved from.         *)
BlocksApart ==
  LET blocks == Blocks
  IN  /\ \A b \in Bucket : IsInjective(heap.nextf[b])
      /\ FreeBlocks \cap LiveBlocks = {}
      /\ Cardinality(LiveBlocks) = Cardinality(DOMAIN heap.live)
      /\ \A r \in blocks :
           /\ \A s \in blocks : r = s \/ Apart(r, s)
           /\ \E run \in ToSet(runs) : run.base =< r.base /\
                                        r.base + r.len =< run.base + run.len

(* A caller has the alignment and the room it asked for, also after        *)
(* bmk_memrealloc(), and the header fits in front of it: the block holds   *)
(* "at least this many bytes plus header".                                 *)
LiveInside ==
  \A cp \in DOMAIN heap.live :
    LET block == BlockOf(cp)
    IN  /\ cp % align(heap.live[cp].align) = 0
        /\ block.base =< cp - Overhead
        /\ cp + heap.live[cp].nbytes =< block.base + block.len

(* A block stays a block of its size: it is never lost, merged or put on   *)
(* another free list, whatever alignment it was used with.                 *)
BlocksKept == [][Blocks \subseteq Blocks']_mvars

(* bmk_memrealloc() keeps the caller's data: "else ==> realloc".           *)
DataKept == \A cp \in DOMAIN heap.live : heap.live[cp].lost = 0
=============================================================================
