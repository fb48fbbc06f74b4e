------------------------------ MODULE Division ------------------------------
(***************************************************************************)
(* The integer division of librt: __udivmoddi4 divides double words by     *)
(* shift and subtract after it has sorted out the cases a word division or *)
(* a shift answers; __udivdi3, __umoddi3, __divdi3 and __moddi3 call it;   *)
(* __udivsi3 is the same loop for words.  A step is the preparation, one   *)
(* iteration of the loop, or the return.                                   *)
(***************************************************************************)
EXTENDS Integers, Bitwise

CONSTANTS n_uword_bits,  \* bits of a word
          Ops            \* the functions called

VARIABLES op, a, b,  \* the function and its arguments
          n, d,      \* the dividend and the divisor of the unsigned division
          q, r,      \* quotient and remainder
          sr, carry, pc

dvars == <<op, a, b, n, d, q, r, sr, carry, pc>>

n_udword_bits == 2 * n_uword_bits
Base == 2^n_uword_bits

(* The width the function works with.                                      *)
Bits == IF op = "udivsi3" THEN n_uword_bits ELSE n_udword_bits

high(x) == x \div Base
low(x) == x % Base
all(h, l) == h * Base + l

(* The machine takes the count of a word shift modulo the word's width.    *)
shl(x, k) == (x * 2^(k % n_uword_bits)) % Base
shr(x, k) == x \div 2^(k % n_uword_bits)

clz(x) == CHOOSE k \in 0..(n_uword_bits - 1) :
            2^(n_uword_bits - 1 - k) <= x /\ x < 2^(n_uword_bits - k)
ctz(x) == CHOOSE k \in 0..(n_uword_bits - 1) :
            x % 2^k = 0 /\ x % 2^(k + 1) # 0
PowerOfTwo(x) == \E k \in 0..(n_uword_bits - 1) : x = 2^k

-----------------------------------------------------------------------------

(* All ones if the double word x is negative; x negated by such a sign.    *)
sign(x) == IF x >= 2^(n_udword_bits - 1) THEN 2^n_udword_bits - 1 ELSE 0
negate(x, s) == ((x ^^ s) - s) % 2^n_udword_bits

Signed == op \in {"divdi3", "moddi3"}

(* The arguments the function passes on to the unsigned division.          *)
DivisionInit ==
  /\ op \in Ops
  /\ a \in 0..(2^Bits - 1) /\ b \in 0..(2^Bits - 1)
  /\ n = IF Signed THEN negate(a, sign(a)) ELSE a
  /\ d = IF Signed THEN negate(b, sign(b)) ELSE b
  /\ q = 0 /\ r = 0 /\ sr = 0 /\ carry = 0 /\ pc = "start"

(* What it returns; a word division by zero traps instead.                 *)
Result ==
  CASE op \in {"udivdi3", "udivsi3"} -> q
    [] op = "umoddi3" -> r
    [] op = "divdi3" -> negate(q, sign(a) ^^ sign(b))
    [] op = "moddi3" -> negate(r, sign(a))

Return(quotient, rem) ==
  pc' = "done" /\ q' = quotient /\ r' = rem /\ UNCHANGED <<sr, carry>>

Trap == pc' = "trap" /\ UNCHANGED <<q, r, sr, carry>>

Enter(quotient, rem, s) ==
  pc' = "loop" /\ q' = quotient /\ r' = rem /\ sr' = s /\ carry' = 0

(* q and r start as the two halves of n << (n_udword_bits - sr), for sr    *)
(* below, at or above the width of a word.                                 *)
EnterLoop(s) ==
  LET up == n_uword_bits - s
      over == s - n_uword_bits
  IN  CASE s < n_uword_bits ->
             Enter(all(shl(low(n), up), 0),
                   all(shr(high(n), s), shl(high(n), up) | shr(low(n), s)), s)
        [] s = n_uword_bits -> Enter(all(low(n), 0), high(n), s)
        [] s > n_uword_bits ->
             LET left == n_udword_bits - s
             IN  Enter(all(shl(high(n), left) | shr(low(n), over),
                           shl(low(n), left)),
                       shr(high(n), over), s)

(* The special cases with n.s.high == 0.                                   *)
SmallDividend ==
  /\ high(n) = 0
  /\ IF high(d) # 0 THEN Return(0, n)
     ELSE IF low(d) = 0 THEN Trap
     ELSE Return(low(n) \div low(d), low(n) % low(d))

\* Mutant: equally long operands need no loop.
HighDivisor_far(most) ==
  LET s == (clz(high(d)) - clz(high(n))) % Base
  IN  IF s > most \/ s = 0 THEN Return(0, n) ELSE EnterLoop(s + 1)

(* The loop is needed unless d is longer than n, when the difference of    *)
(* the leading zeros wraps around.                                         *)
HighDivisor(most) ==
  LET s == (clz(high(d)) - clz(high(n))) % Base
  IN  IF s > most THEN Return(0, n) ELSE EnterLoop(s + 1)

(* d.s.low == 0.                                                           *)
WholeDivisor ==
  /\ high(n) # 0 /\ low(d) = 0
  /\ IF high(d) = 0 THEN Trap
     ELSE IF low(n) = 0
     THEN Return(high(n) \div high(d), all(high(n) % high(d), 0))
     ELSE IF PowerOfTwo(high(d))
     THEN Return(shr(high(n), ctz(high(d))),
                 all(high(n) & (high(d) - 1), low(n)))
     ELSE HighDivisor(n_uword_bits - 2)

(* d fits into a word.                                                     *)
WordDivisor ==
  LET s == ctz(low(d))
  IN  /\ high(n) # 0 /\ low(d) # 0 /\ high(d) = 0
      /\ IF PowerOfTwo(low(d))
         THEN Return(IF low(d) = 1 THEN n
                     ELSE all(shr(high(n), s),
                              shl(high(n), n_uword_bits - s) | shr(low(n), s)),
                     low(n) & (low(d) - 1))
         ELSE EnterLoop((1 + n_uword_bits + clz(low(d)) - clz(high(n))) % Base)

(* Both halves of d are not zero.                                          *)
LongDivisor ==
  /\ high(n) # 0 /\ low(d) # 0 /\ high(d) # 0
  /\ HighDivisor(n_uword_bits - 1)

udivmoddi4 == SmallDividend \/ WholeDivisor \/ WordDivisor \/ LongDivisor

udivsi3 ==
  IF d = 0 \/ n = 0 THEN Return(0, 0)
  ELSE LET s == (clz(d) - clz(n)) % Base
       IN  IF s > n_uword_bits - 1 THEN Return(0, n)
           ELSE IF s = n_uword_bits - 1 THEN Return(n, 0)
           ELSE Enter(shl(n, n_uword_bits - s - 1), shr(n, s + 1), s + 1)

Start ==
  /\ pc = "start"
  /\ IF op = "udivsi3" THEN udivsi3 ELSE udivmoddi4
  /\ UNCHANGED <<op, a, b, n, d>>

(* The sign of d - r - 1: r is not below d.                                *)
borrows(x) == (d - x - 1) % 2^Bits >= 2^(Bits - 1)

Iterate ==
  LET M == 2^Bits
      r2 == ((r * 2) % M) | (q \div 2^(Bits - 1))
  IN  /\ pc = "loop" /\ sr > 0
      /\ q' = ((q * 2) % M) | carry
      /\ carry' = IF borrows(r2) THEN 1 ELSE 0
      /\ r' = IF borrows(r2) THEN (r2 - d) % M ELSE r2
      /\ sr' = sr - 1
      /\ UNCHANGED <<op, a, b, n, d, pc>>

Leave ==
  /\ pc = "loop" /\ sr = 0
  /\ q' = ((q * 2) % 2^Bits) | carry
  /\ pc' = "done"
  /\ UNCHANGED <<op, a, b, n, d, r, sr, carry>>

DivisionNext == Start \/ Iterate \/ Leave

DivisionSpec == DivisionInit /\ [][DivisionNext]_dvars

-----------------------------------------------------------------------------

(* The value of a double word as a signed integer; C truncates quotients.  *)
Value(x) == IF sign(x) = 0 THEN x ELSE x - 2^n_udword_bits
Abs(i) == IF i < 0 THEN -i ELSE i
Trunc(i, j) == (IF (i < 0) = (j < 0) THEN 1 ELSE -1) * (Abs(i) \div Abs(j))

(* What the function should return.                                        *)
Quotient ==
  CASE op \in {"udivdi3", "udivsi3"} -> a \div b
    [] op = "umoddi3" -> a % b
    [] op = "divdi3" -> Trunc(Value(a), Value(b)) % 2^n_udword_bits
    [] op = "moddi3" -> (Value(a) - Trunc(Value(a), Value(b)) * Value(b))
                          % 2^n_udword_bits

(* The loop is entered with a shift count of 1 to n_udword_bits - 1 and    *)
(* then keeps, of n cut to the bits done, the remainder in r, below d, the *)
(* quotient in the low bits of q and the carry, and the bits still to do   *)
(* at the top of q.                                                        *)
LoopInvariant ==
  LET done == n \div 2^sr
  IN  /\ sr \in 0..(Bits - 1)
      /\ r = done % d
      /\ carry = (done \div d) % 2
      /\ q = (n % 2^sr) * 2^(Bits - sr) + done \div (2 * d)

(* Every function returns the quotient or the remainder its name says, for *)
(* all arguments, and its loop is right after every iteration.  A double   *)
(* word divided by zero traps, and nothing else does; a word gives 0.      *)
DivisionCorrect ==
  CASE pc = "start" -> TRUE
    [] pc = "loop" -> b # 0 /\ LoopInvariant
    [] pc = "trap" -> b = 0 /\ op # "udivsi3"
    [] pc = "done" -> IF b = 0 THEN op = "udivsi3" /\ Result = 0
                      ELSE Result = Quotient
=============================================================================
