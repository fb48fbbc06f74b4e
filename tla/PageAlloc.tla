----------------------------- MODULE PageAlloc -----------------------------
(***************************************************************************)
(* The page allocator, bmk_allocpg() of kernel.c: a counter of the pages   *)
(* handed out so far, which nothing ever takes back.  unsigned long has    *)
(* WordBits bits and its arithmetic wraps.                                 *)
(***************************************************************************)
EXTENDS Integers, FiniteSetsExt, SequencesExt

CONSTANTS PAGE_SIZE,
          WordBits,     \* 32 on the target
          bmk_membase,  \* page aligned, see parsemem() in Boot
          bmk_memsize,
          MaxCurrent    \* bound on the counter

ASSUME PageAssumption ==
  /\ PAGE_SIZE \in Nat \ {0} /\ WordBits \in Nat
  /\ bmk_membase \in Nat \ {0} /\ bmk_membase % PAGE_SIZE = 0
  /\ bmk_memsize \in Nat /\ bmk_membase + bmk_memsize =< 2^WordBits
  /\ MaxCurrent \in Nat

VARIABLES current,  \* static counter of bmk_allocpg()
          runs      \* the page runs handed out, oldest first

NULL == 0

WordMod == 2^WordBits

round_page(x) == ((x + PAGE_SIZE - 1) \div PAGE_SIZE) * PAGE_SIZE

\* Mutant: the counter stays where it is.
allocpg_current_still(howmany) == current

(* What bmk_allocpg(howmany) leaves in current and what it returns.        *)
allocpg_current(howmany) == (current + howmany) % WordMod

allocpg_rv(howmany) ==
  IF (allocpg_current(howmany) * PAGE_SIZE) % WordMod > bmk_memsize THEN NULL
  ELSE (bmk_membase + PAGE_SIZE * current) % WordMod

(* A request that fails moves the counter too.                             *)
bmk_allocpg(howmany) ==
  /\ current + howmany =< MaxCurrent
  /\ current' = allocpg_current(howmany)
  /\ runs' = IF allocpg_rv(howmany) = NULL THEN runs
             ELSE Append(runs, [base |-> allocpg_rv(howmany),
                                len |-> howmany * PAGE_SIZE])

PageInit == current = 0 /\ runs = <<>>

(* No caller asks for more than half of the address space at a time.       *)
PageNext == \E n \in 0..((WordMod \div 2) \div PAGE_SIZE) : bmk_allocpg(n)

PageSpec == PageInit /\ [][PageNext]_<<current, runs>>

-----------------------------------------------------------------------------

Apart(r, s) == r.base + r.len =< s.base \/ s.base + s.len =< r.base

(* No page is handed out twice and none lies outside of the memory that    *)
(* parsemem() found: "we don't need freepg", pages only go out.            *)
PagesOnce ==
  \A i \in DOMAIN runs :
    /\ runs[i].base % PAGE_SIZE = 0
    /\ bmk_membase =< runs[i].base
    /\ runs[i].base + runs[i].len =< bmk_membase + bmk_memsize
    /\ \A j \in 1..(i - 1) : Apart(runs[i], runs[j])
=============================================================================
