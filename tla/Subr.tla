-------------------------------- MODULE Subr --------------------------------
(***************************************************************************)
(* The string functions of subr.c, on a memory of MemCells bytes whose     *)
(* addresses and counters wrap around like unsigned long and size_t.       *)
(***************************************************************************)
EXTENDS Integers

CONSTANT MemCells  \* the number of addresses, and one more than SIZE_MAX

ASSUME SubrAssumption == MemCells \in Nat \ {0}

Addr == 0..(MemCells - 1)
At(p, i) == (p + i) % MemCells

(* The least number of 0..MemCells with the property the loop runs to.     *)
First(P(_)) ==
  CHOOSE i \in 0..MemCells : P(i) /\ \A j \in 0..(i - 1) : ~P(j)

bmk_strlen(mem, s) == First(LAMBDA i : mem[At(s, i)] = 0)

(* The loop leaves the pointers at the end of a, or one behind the first   *)
(* difference, from where they go back only if a does not end there.       *)
bmk_strcmp(mem, a, b) ==
  LET i == First(LAMBDA k : \/ mem[At(a, k)] = 0
                            \/ mem[At(a, k)] # mem[At(b, k)])
      j == IF mem[At(a, i)] = 0 THEN i ELSE i + 1
      k == IF mem[At(a, j)] # 0 THEN j - 1 ELSE j
  IN  mem[At(a, k)] - mem[At(b, k)]

(* Memory after n bytes went from s to d, one after the other.             *)
bmk_memcpy(mem, d, s, n) ==
  LET copied[i \in 0..n] ==
        IF i = 0 THEN mem
        ELSE [copied[i - 1] EXCEPT
                ![At(d, i - 1)] = copied[i - 1][At(s, i - 1)]]
  IN  copied[n]

bmk_memset(mem, b, c, n) ==
  LET set[i \in 0..n] ==
        IF i = 0 THEN mem ELSE [set[i - 1] EXCEPT ![At(b, i - 1)] = c]
  IN  set[n]

bmk_strcpy(mem, d, s) == bmk_memcpy(mem, d, s, bmk_strlen(mem, s) + 1)

\* Mutant: the counter is not decremented while the string is copied.
bmk_strncpy_fill(mem, d, s, n) ==
  LET len == bmk_strlen(mem, s)
      copied == IF len <= n THEN len + 1 ELSE n + 1
  IN  bmk_memset(bmk_memcpy(mem, d, s, copied), At(d, copied), 0, n)

(* The first loop copies up to the terminator, or n + 1 bytes and then     *)
(* leaves the counter at SIZE_MAX; the second one fills up with what is    *)
(* left in the counter.                                                    *)
bmk_strncpy(mem, d, s, n) ==
  LET len == bmk_strlen(mem, s)
      copied == IF len <= n THEN len + 1 ELSE n + 1
      left == IF len <= n THEN n - len ELSE MemCells - 1
  IN  bmk_memset(bmk_memcpy(mem, d, s, copied), At(d, copied), 0, left)
=============================================================================
