----------------------------- MODULE MemProofs -----------------------------
(***************************************************************************)
(* Proofs about the pages and the screen, the two parts of memory that     *)
(* kernel.c manages itself.  The page allocator is right as long as its    *)
(* counter, taken in bytes, stays inside the address space: every request  *)
(* moves the counter, also one that fails, so that it can leave, and then  *)
(* pages go out twice.  The screen shows what a teletype would print.      *)
(***************************************************************************)
EXTENDS PageAlloc, Console, TLAPS

(* All the requests together, failed ones included, stay below 2^WordBits. *)
NoWrap == bmk_membase + MaxCurrent * PAGE_SIZE < WordMod

Run == [base : Nat, len : Nat]

(* What has gone out ends where the next run would start.                  *)
PageInv ==
  /\ current \in 0..MaxCurrent
  /\ runs \in Seq(Run)
  /\ PagesOnce
  /\ \A i \in DOMAIN runs :
       runs[i].base + runs[i].len =< bmk_membase + PAGE_SIZE * current

-----------------------------------------------------------------------------

LEMMA WordModInt == WordMod \in Int
  BY PageAssumption DEF WordMod

LEMMA SmallMod ==
  ASSUME NEW x \in Nat, NEW m \in Int, x < m
  PROVE  x % m = x
  OBVIOUS

LEMMA Product ==
  ASSUME NEW a \in Nat, NEW b \in Nat, NEW p \in Nat \ {0}, a =< b
  PROVE  /\ a * p \in Nat /\ p * a = a * p
         /\ a * p =< b * p /\ a =< a * p
  OBVIOUS

LEMMA AtMostItself ==
  ASSUME NEW a \in Nat
  PROVE  a =< a
  OBVIOUS

(* Stepping on by whole pages keeps the alignment.                         *)
LEMMA Aligned ==
  ASSUME NEW a \in Nat, NEW b \in Nat, NEW p \in Nat \ {0}, a % p = 0
  PROVE  (a + p * b) % p = 0
<1> DEFINE k == a \div p
<1>1. k \in Nat /\ a = p * k
  OBVIOUS
<1>2. a + p * b = p * (k + b)
  BY <1>1
<1>3. \A j \in Nat : (p * j) % p = 0
  OBVIOUS
<1>4. k + b \in Nat
  BY <1>1
<1> HIDE DEF k
<1>5. (p * (k + b)) % p = 0
  BY <1>3, <1>4
<1> QED BY <1>2, <1>5

(* One call without wrap: where its run starts, and that it fits.          *)
LEMMA AllocpgReturns ==
  ASSUME NoWrap, current \in 0..MaxCurrent,
         NEW n \in Nat, current + n =< MaxCurrent
  PROVE  /\ allocpg_current(n) = current + n
         /\ allocpg_rv(n) # NULL =>
              /\ allocpg_rv(n) = bmk_membase + PAGE_SIZE * current
              /\ PAGE_SIZE * (current + n) =< bmk_memsize
<1> USE PageAssumption, WordModInt
<1>1. /\ current + n < WordMod
      /\ (current + n) * PAGE_SIZE \in Nat
      /\ (current + n) * PAGE_SIZE < WordMod
      /\ PAGE_SIZE * (current + n) = (current + n) * PAGE_SIZE
  BY Product DEF NoWrap
<1>2. /\ bmk_membase + PAGE_SIZE * current \in Nat
      /\ bmk_membase + PAGE_SIZE * current < WordMod
  BY Product DEF NoWrap
<1>3. allocpg_current(n) = current + n
  BY <1>1, SmallMod DEF allocpg_current
<1>4. ((current + n) * PAGE_SIZE) % WordMod = (current + n) * PAGE_SIZE
  BY <1>1, SmallMod
<1>5. (bmk_membase + PAGE_SIZE * current) % WordMod = bmk_membase + PAGE_SIZE * current
  BY <1>2, SmallMod
<1>6. allocpg_rv(n) # NULL =>
        /\ allocpg_rv(n) = bmk_membase + PAGE_SIZE * current
        /\ PAGE_SIZE * (current + n) =< bmk_memsize
  BY <1>1, <1>3, <1>4, <1>5 DEF allocpg_rv
<1> QED BY <1>3, <1>6

(* A run that starts behind all the others, inside the memory, keeps them  *)
(* apart.                                                                  *)
LEMMA PageStep ==
  ASSUME NoWrap, PageInv, [PageNext]_<<current, runs>>
  PROVE  PageInv'
<1> USE PageAssumption
<1>1. CASE UNCHANGED <<current, runs>>
  BY <1>1 DEF PageInv, PagesOnce, Apart
<1>2. ASSUME NEW n \in Nat, bmk_allocpg(n)
      PROVE  PageInv'
  <2> DEFINE end == bmk_membase + PAGE_SIZE * current
             run == [base |-> end, len |-> n * PAGE_SIZE]
  <2>1. /\ current \in 0..MaxCurrent /\ current + n =< MaxCurrent
        /\ current' = current + n /\ current' \in 0..MaxCurrent
    BY <1>2, AllocpgReturns DEF PageInv, bmk_allocpg
  <2>2. /\ PAGE_SIZE * current \in Nat /\ n * PAGE_SIZE \in Nat
        /\ PAGE_SIZE * current' = PAGE_SIZE * current + n * PAGE_SIZE
    BY <2>1, Product
  <2>3. end \in Nat /\ end % PAGE_SIZE = 0 /\ run \in Run
    <3>1. end \in Nat
      BY <2>2
    <3>2. end % PAGE_SIZE = 0
      <4>1. /\ current \in Nat /\ bmk_membase \in Nat
            /\ PAGE_SIZE \in Nat \ {0} /\ bmk_membase % PAGE_SIZE = 0
        BY <2>1
      <4> QED BY <4>1, Aligned, Zenon
    <3> QED BY <2>2, <3>1, <3>2 DEF Run
  <2> HIDE DEF end
  <2>a. \A i \in DOMAIN runs : runs[i].base + runs[i].len =< end
    BY DEF PageInv, end
  <2>b. end =< bmk_membase + PAGE_SIZE * current'
    BY <2>2 DEF end
  <2>c. \A i \in DOMAIN runs : runs[i] \in Run
    BY DEF PageInv
  <2>d. \A i \in DOMAIN runs :
          runs[i].base + runs[i].len =< bmk_membase + PAGE_SIZE * current'
    BY <2>1, <2>2, <2>3, <2>a, <2>b, <2>c DEF Run
  <2>4. CASE runs' = runs
    <3>1. PagesOnce'
      BY <2>4 DEF PageInv, PagesOnce, Apart
    <3> QED BY <2>1, <2>4, <2>d, <3>1 DEF PageInv
  <2>5. CASE runs' # runs
    <3>1. /\ runs' = Append(runs, run)
          /\ end + n * PAGE_SIZE =< bmk_membase + bmk_memsize
      <4>1. /\ allocpg_rv(n) # NULL
            /\ runs' = Append(runs, [base |-> allocpg_rv(n), len |-> n * PAGE_SIZE])
        BY <1>2, <2>5 DEF bmk_allocpg
      <4>2. allocpg_rv(n) = end /\ PAGE_SIZE * current' =< bmk_memsize
        BY <2>1, <4>1, AllocpgReturns DEF end
      <4> QED BY <2>2, <4>1, <4>2 DEF end
    <3>2. /\ Len(runs') = Len(runs) + 1 /\ runs' \in Seq(Run)
          /\ \A i \in 1..Len(runs) : runs'[i] = runs[i]
          /\ runs'[Len(runs) + 1] = run
      BY <2>3, <3>1 DEF PageInv
    <3>3. /\ run.base = end /\ run.len = n * PAGE_SIZE
          /\ end + n * PAGE_SIZE = bmk_membase + PAGE_SIZE * current'
          /\ bmk_membase =< end
      BY <2>2 DEF end
    <3>4. DOMAIN runs = 1..Len(runs) /\ DOMAIN runs' = 1..(Len(runs) + 1)
      BY <3>2 DEF PageInv
    <3>5. ASSUME NEW i \in DOMAIN runs'
          PROVE  /\ runs'[i].base % PAGE_SIZE = 0
                 /\ bmk_membase =< runs'[i].base
                 /\ runs'[i].base + runs'[i].len =< bmk_membase + bmk_memsize
                 /\ \A j \in 1..(i - 1) : Apart(runs'[i], runs'[j])
                 /\ runs'[i].base + runs'[i].len
                      =< bmk_membase + PAGE_SIZE * current'
      <4>1. CASE i = Len(runs) + 1
        <5>1. runs'[i].base = end /\ runs'[i].len = n * PAGE_SIZE
          BY <4>1, <3>2, <3>3
        <5>2. ASSUME NEW j \in 1..(i - 1)
              PROVE  Apart(runs'[i], runs'[j])
          <6>1. Len(runs) \in Nat
            BY DEF PageInv
          <6>2. j \in 1..Len(runs)
            BY <4>1, <6>1
          <6>3. j \in DOMAIN runs /\ runs'[j] = runs[j]
            BY <3>2, <3>4, <6>2
          <6>4. runs'[j].base + runs'[j].len =< runs'[i].base
            BY <2>a, <5>1, <6>3
          <6> QED BY <6>4 DEF Apart
        <5>3. runs'[i].base % PAGE_SIZE = 0 /\ bmk_membase =< runs'[i].base
          BY <2>3, <3>3, <5>1, Zenon
        <5>4. runs'[i].base + runs'[i].len =< bmk_membase + bmk_memsize
          BY <3>1, <5>1, Zenon
        <5>5. /\ runs'[i].base + runs'[i].len = bmk_membase + PAGE_SIZE * current'
              /\ end + n * PAGE_SIZE =< bmk_membase + PAGE_SIZE * current'
          <6>1. end + n * PAGE_SIZE \in Nat
            BY <2>2, <2>3
          <6> QED BY <3>3, <5>1, <6>1, AtMostItself, Zenon
        <5> QED BY <3>3, <5>1, <5>2, <5>3, <5>4, <5>5, Zenon
      <4>2. CASE i \in 1..Len(runs)
        <5>1. runs'[i] = runs[i] /\ \A j \in 1..(i - 1) : runs'[j] = runs[j]
          BY <4>2, <3>2 DEF PageInv
        <5> QED BY <4>2, <5>1, <2>d, <3>4 DEF PageInv, PagesOnce
      <4> QED BY <3>4, <4>1, <4>2 DEF PageInv
    <3> QED BY <2>1, <3>2, <3>5 DEF PageInv, PagesOnce
  <2> QED BY <2>4, <2>5
<1>3. ASSUME PageNext
      PROVE  \E n \in Nat : bmk_allocpg(n)
  BY <1>3 DEF PageNext
<1> QED BY <1>1, <1>2, <1>3

(* bmk_allocpg() never hands a page out twice nor one outside the memory,  *)
(* whatever the sizes of pages and memory, if all requests together do not *)
(* wrap around the address space.                                          *)
THEOREM PagesHandedOutOnce ==
  ASSUME NoWrap
  PROVE  PageSpec => []PagesOnce
<1>1. PageInit => PageInv
  BY PageAssumption DEF PageInit, PageInv, PagesOnce
<1>2. PageInv /\ [PageNext]_<<current, runs>> => PageInv'
  BY PageStep
<1>3. PageInv => PagesOnce
  BY DEF PageInv
<1> QED BY <1>1, <1>2, <1>3, PTL DEF PageSpec

-----------------------------------------------------------------------------
(* The console shows what a teletype has printed last.                     *)

Row == 0..(CONS_HEIGHT - 1)
Col == 0..(CONS_WIDTH - 1)
PaperLine == [Col -> Char]

at(x, y) == x + y * CONS_WIDTH

(* ScreenShowsPaper, of any buffer and any paper.                          *)
Shown(buf, lines) ==
  \A y \in Row, x \in Col :
    buf[at(x, y)] = IF y < Len(lines) THEN lines[y + 1][x] ELSE Space

ConsoleInv ==
  /\ cons_buf \in [Cell -> Char]
  /\ paper \in Seq(PaperLine)
  /\ SlotAvailable
  /\ Shown(cons_buf, paper)

-----------------------------------------------------------------------------

LEMMA Sizes == CONS_WIDTH \in Nat \ {0} /\ CONS_HEIGHT \in Nat \ {0}
  BY ConsoleAssumption

(* Row y of w cells, as part of h rows.                                    *)
LEMMA Products ==
  ASSUME NEW w \in Nat \ {0}, NEW h \in Nat \ {0}, NEW y \in 0..(h - 1)
  PROVE  /\ y * w \in Nat /\ (y + 1) * w = y * w + w
         /\ y * w + w =< w * h
         /\ y * w + w =< (h - 1) * w <=> y + 1 =< h - 1
         /\ (h - 1) * w =< y * w <=> y = h - 1
         /\ \A x \in 0..(w - 1) : (x + y * w) \div w = y
<1>1. y * w \in Nat /\ (y + 1) * w = y * w + w
  OBVIOUS
<1>2. y * w + w =< w * h
  OBVIOUS
<1>3. CASE y = h - 1
  BY <1>1, <1>2, <1>3
<1>4. CASE y + 1 =< h - 1
  BY <1>1, <1>2, <1>4
<1> QED BY <1>1, <1>2, <1>3, <1>4

(* The rows of the buffer follow each other without overlap.               *)
LEMMA CellOfSlot ==
  ASSUME NEW x \in Col, NEW y \in Row
  PROVE  /\ at(x, y) \in Cell
         /\ at(x, y) \div CONS_WIDTH = y
         /\ at(x, y) < (CONS_HEIGHT - 1) * CONS_WIDTH <=> y + 1 \in Row
         /\ at(x, y) + CONS_WIDTH = at(x, y + 1)
<1>1. /\ y * CONS_WIDTH \in Nat /\ (y + 1) * CONS_WIDTH = y * CONS_WIDTH + CONS_WIDTH
      /\ y * CONS_WIDTH + CONS_WIDTH =< CONS_WIDTH * CONS_HEIGHT
  BY Products, Sizes DEF Row
<1> QED BY <1>1, Sizes, Products DEF at, Cell, Row, Col

(* A character lands in its slot and in no other.                          *)
LEMMA SlotsDiffer ==
  ASSUME NEW x \in Col, NEW y \in Row, NEW u \in Col, NEW v \in Row,
         at(x, y) = at(u, v)
  PROVE  x = u /\ y = v
<1>1. y = v
  BY CellOfSlot
<1> QED BY <1>1, CellOfSlot, Sizes DEF at, Row, Col

LEMMA BlankLine == Space \in Char /\ Blank \in PaperLine
  BY ConsoleAssumption DEF Blank, PaperLine, Col

LEMMA Appended ==
  ASSUME NEW S, NEW s \in Seq(S), NEW e \in S
  PROVE  LET t == Append(s, e)
         IN  /\ t \in Seq(S) /\ Len(t) = Len(s) + 1
             /\ t[Len(s) + 1] = e /\ \A i \in 1..Len(s) : t[i] = s[i]
             /\ Tail(t) \in Seq(S) /\ Len(Tail(t)) = Len(s)
             /\ \A i \in 1..Len(s) : Tail(t)[i] = t[i + 1]
  OBVIOUS

Typed(lines, x, c) == [lines EXCEPT ![Len(lines)][x] = c]

(* Typing on the last line of the paper.                                   *)
LEMMA TypedLine ==
  ASSUME NEW lines \in Seq(PaperLine), Len(lines) > 0, NEW x \in Col, NEW c \in Char
  PROVE  /\ Typed(lines, x, c) \in Seq(PaperLine)
         /\ Len(Typed(lines, x, c)) = Len(lines)
         /\ \A i \in 1..Len(lines), u \in Col :
              Typed(lines, x, c)[i][u] = IF i = Len(lines) /\ u = x THEN c
                                         ELSE lines[i][u]
  BY DEF Typed, PaperLine

LEMMA PutShown ==
  ASSUME NEW buf \in [Cell -> Char], NEW lines \in Seq(PaperLine),
         NEW x \in Col, NEW y \in Row, Len(lines) = y + 1,
         NEW c \in Char, Shown(buf, lines)
  PROVE  /\ cons_putat(buf, c, x, y) \in [Cell -> Char]
         /\ Shown(cons_putat(buf, c, x, y), Typed(lines, x, c))
<1> DEFINE typed == Typed(lines, x, c)
           put == cons_putat(buf, c, x, y)
<1>1. put \in [Cell -> Char]
  BY DEF cons_putat
<1>2. \A i \in Cell : put[i] = IF i = at(x, y) THEN c ELSE buf[i]
  BY DEF cons_putat, at
<1>3. /\ Len(typed) = y + 1
      /\ \A i \in 1..(y + 1), u \in Col :
           typed[i][u] = IF i = y + 1 /\ u = x THEN c ELSE lines[i][u]
  <2>1. Len(lines) > 0
    BY Sizes DEF Row
  <2> QED BY <2>1, TypedLine
<1> HIDE DEF typed, put
<1>4. ASSUME NEW v \in Row, NEW u \in Col
      PROVE  put[at(u, v)] = IF v < Len(typed) THEN typed[v + 1][u] ELSE Space
  <2>1. put[at(u, v)] = IF u = x /\ v = y THEN c ELSE buf[at(u, v)]
    BY <1>2, CellOfSlot, SlotsDiffer
  <2>2. buf[at(u, v)] = IF v < y + 1 THEN lines[v + 1][u] ELSE Space
    BY DEF Shown
  <2>3. v \in Nat /\ y \in Nat /\ (v < y + 1 => v + 1 \in 1..(y + 1))
    BY Sizes DEF Row
  <2> QED BY <1>3, <2>1, <2>2, <2>3
<1> QED BY <1>1, <1>4 DEF Shown, typed, put

(* A new line while there is room for it.                                  *)
LEMMA ClearShown ==
  ASSUME NEW buf \in [Cell -> Char], NEW lines \in Seq(PaperLine),
         Len(lines) \in Row, Shown(buf, lines)
  PROVE  /\ clear(buf, Len(lines)) \in [Cell -> Char]
         /\ Shown(clear(buf, Len(lines)), Append(lines, Blank))
<1> DEFINE n == Len(lines)
           more == Append(lines, Blank)
           cleared == clear(buf, n)
<1>1. cleared \in [Cell -> Char]
  BY BlankLine DEF clear
<1>2. /\ Len(more) = n + 1 /\ more[n + 1] = Blank
      /\ \A i \in 1..n : more[i] = lines[i]
  BY BlankLine, Appended
<1>3. ASSUME NEW v \in Row, NEW u \in Col
      PROVE  cleared[at(u, v)] = IF v < Len(more) THEN more[v + 1][u] ELSE Space
  <2>1. cleared[at(u, v)] = IF v = n THEN Space ELSE buf[at(u, v)]
    BY CellOfSlot DEF clear
  <2>2. buf[at(u, v)] = IF v < n THEN lines[v + 1][u] ELSE Space
    BY DEF Shown
  <2>3. Blank[u] = Space
    BY DEF Blank, Col
  <2>4. v \in Nat /\ n \in Nat /\ (v < n => v + 1 \in 1..n)
    BY Sizes DEF Row
  <2> HIDE DEF more, cleared, n
  <2> QED BY <1>2, <2>1, <2>2, <2>3, <2>4
<1> QED BY <1>1, <1>3 DEF Shown

(* A new line on a full screen: everything moves up.                       *)
LEMMA ScrollShown ==
  ASSUME NEW buf \in [Cell -> Char], NEW lines \in Seq(PaperLine),
         Len(lines) = CONS_HEIGHT, Shown(buf, lines)
  PROVE  /\ clear(scroll(buf), CONS_HEIGHT - 1) \in [Cell -> Char]
         /\ Shown(clear(scroll(buf), CONS_HEIGHT - 1), Tail(Append(lines, Blank)))
<1> DEFINE n == CONS_HEIGHT - 1
           rest == Tail(Append(lines, Blank))
           cleared == clear(scroll(buf), n)
<1>0. n \in Row /\ n \in Nat /\ Len(lines) = n + 1
  BY Sizes DEF Row
<1>1. /\ scroll(buf) \in [Cell -> Char]
      /\ cleared \in [Cell -> Char]
  <2>1. ASSUME NEW i \in Cell, i < (CONS_HEIGHT - 1) * CONS_WIDTH
        PROVE  i + CONS_WIDTH \in Cell
    BY <2>1, Sizes DEF Cell
  <2>2. scroll(buf) \in [Cell -> Char]
    BY <2>1 DEF scroll
  <2> QED BY <2>2, BlankLine DEF clear
<1>2. /\ Len(rest) = n + 1 /\ rest[n + 1] = Blank
      /\ \A i \in 1..n : rest[i] = lines[i + 1]
  <2>1. /\ Len(rest) = n + 1 /\ rest[n + 1] = Append(lines, Blank)[n + 2]
        /\ \A i \in 1..n : rest[i] = Append(lines, Blank)[i + 1]
    BY <1>0, BlankLine, Appended
  <2> QED BY <1>0, <2>1, BlankLine, Appended
<1>3. ASSUME NEW v \in Row, NEW u \in Col
      PROVE  cleared[at(u, v)] = IF v < Len(rest) THEN rest[v + 1][u] ELSE Space
  <2>1. cleared[at(u, v)] = IF v = n THEN Space ELSE scroll(buf)[at(u, v)]
    BY CellOfSlot DEF clear
  <2>2. v \in Nat /\ v =< n /\ (v # n => v + 1 \in Row /\ v + 1 \in 1..n)
    BY Sizes DEF Row
  <2>3. v # n => scroll(buf)[at(u, v)] = buf[at(u, v + 1)]
    BY <2>2, CellOfSlot DEF scroll
  <2>4. v # n => buf[at(u, v + 1)] = lines[(v + 1) + 1][u]
    BY <1>0, <2>2, Sizes DEF Shown, Row
  <2>5. Blank[u] = Space
    BY DEF Blank, Col
  <2> HIDE DEF rest, cleared, n
  <2> QED BY <1>0, <1>2, <2>1, <2>2, <2>3, <2>4, <2>5
<1> QED BY <1>1, <1>3 DEF Shown

-----------------------------------------------------------------------------

(* The paper after a new line, and the buffer that goes with it.           *)
LEMMA NewLine ==
  ASSUME NEW buf \in [Cell -> Char], NEW lines \in Seq(PaperLine),
         NEW y \in Row, Len(lines) = y + 1, Shown(buf, lines)
  PROVE  LET last == IF bottom(y + 1) THEN y ELSE y + 1
             up == IF bottom(y + 1) THEN scroll(buf) ELSE buf
             longer == Screenful(Append(lines, Blank))
         IN  /\ last \in Row
             /\ clear(up, last) \in [Cell -> Char]
             /\ longer \in Seq(PaperLine) /\ Len(longer) = last + 1
             /\ Shown(clear(up, last), longer)
<1>1. y \in Nat /\ (y + 1 # CONS_HEIGHT => y + 1 \in Row)
  BY Sizes DEF Row
<1>2. /\ Append(lines, Blank) \in Seq(PaperLine)
      /\ Len(Append(lines, Blank)) = y + 2
      /\ Tail(Append(lines, Blank)) \in Seq(PaperLine)
      /\ Len(Tail(Append(lines, Blank))) = y + 1
  BY <1>1, BlankLine, Appended
<1>3. CASE y + 1 = CONS_HEIGHT
  <2>1. Screenful(Append(lines, Blank)) = Tail(Append(lines, Blank))
    BY <1>1, <1>2, <1>3 DEF Screenful
  <2>2. bottom(y + 1) /\ y = CONS_HEIGHT - 1 /\ Len(lines) = CONS_HEIGHT
    BY <1>1, <1>3 DEF bottom
  <2> QED BY <1>1, <1>2, <2>1, <2>2, ScrollShown
<1>4. CASE y + 1 # CONS_HEIGHT
  <2>1. Screenful(Append(lines, Blank)) = Append(lines, Blank)
    BY <1>1, <1>2, <1>4, Sizes DEF Screenful, Row
  <2>2. ~ bottom(y + 1)
    BY <1>4 DEF bottom
  <2> QED BY <1>1, <1>2, <1>4, <2>1, <2>2, ClearShown
<1> QED BY <1>3, <1>4

LEMMA ConsoleStep ==
  ASSUME ConsoleInv, NEW c \in Char \cup {"\n", "\r"}, bmk_cons_putc(c), Type(c)
  PROVE  ConsoleInv'
<1>1. /\ cons_x \in Col /\ cons_x = col /\ cons_y \in Row /\ Len(paper) = cons_y + 1
      /\ cons_buf \in [Cell -> Char] /\ paper \in Seq(PaperLine) /\ Shown(cons_buf, paper)
      /\ cons_x \in Nat /\ cons_y \in Nat /\ cons_y # CONS_HEIGHT
  BY Sizes DEF ConsoleInv, SlotAvailable, Row, Col
<1>2. SUFFICES /\ cons_buf' \in [Cell -> Char] /\ paper' \in Seq(PaperLine)
               /\ cons_x' \in Col /\ cons_x' = col'
               /\ cons_y' \in Row /\ Len(paper') = cons_y' + 1
               /\ Shown(cons_buf', paper')
  <2>1. SlotAvailable'
    <3>1. /\ cons_x' \in 0..(CONS_WIDTH - 1) /\ cons_x' = col'
          /\ cons_y' \in 0..(CONS_HEIGHT - 1)
      BY <1>2 DEF Row, Col
    <3>2. cons_y' = Len(paper') - 1
      <4>1. Len(paper') = cons_y' + 1
        BY <1>2
      <4>2. cons_y' \in Int
        BY <3>1, Sizes
      <4>3. \A a \in Int : \A b : b = a + 1 => a = b - 1
        OBVIOUS
      <4> QED BY <4>1, <4>2, <4>3, Zenon
    <3> QED BY <3>1, <3>2 DEF SlotAvailable
  <2>2. Shown(cons_buf, paper)'
    BY <1>2 DEF Shown, at, Row, Col
  <2> QED BY <1>2, <2>1, <2>2 DEF ConsoleInv, Cell, PaperLine, Col
<1>3. 0 \in Col /\ CONS_WIDTH # 0
  BY Sizes DEF Col
<1>4. CASE c = "\r"
  <2>1. cons_x' = 0 /\ cons_y' = cons_y /\ cons_buf' = cons_buf
    BY <1>1, <1>3, <1>4 DEF bmk_cons_putc, newline, bottom
  <2>2. col' = 0 /\ paper' = paper
    BY <1>4, ConsoleAssumption DEF Type
  <2> QED BY <1>1, <1>3, <2>1, <2>2
<1>5. CASE c = "\n"
  <2>1. /\ cons_x' = 0
        /\ cons_y' = IF bottom(cons_y + 1) THEN cons_y ELSE cons_y + 1
        /\ cons_buf' = clear(IF bottom(cons_y + 1) THEN scroll(cons_buf) ELSE cons_buf,
                             cons_y')
    BY <1>1, <1>3, <1>5 DEF bmk_cons_putc, newline
  <2>2. col' = 0 /\ paper' = Screenful(Append(paper, Blank))
    BY <1>5, ConsoleAssumption DEF Type
  <2> QED BY <1>1, <1>3, <2>1, <2>2, NewLine
<1>6. CASE c \notin {"\n", "\r"}
  <2> DEFINE typed == Typed(paper, cons_x, c)
             put == cons_putat(cons_buf, c, cons_x, cons_y)
  <2>1. /\ c \in Char /\ typed \in Seq(PaperLine) /\ Len(typed) = cons_y + 1
        /\ put \in [Cell -> Char] /\ Shown(put, typed)
    <3>1. c \in Char /\ Len(paper) > 0
      BY <1>1, <1>6
    <3> QED BY <1>1, <3>1, TypedLine, PutShown
  <2>2. CASE cons_x + 1 = CONS_WIDTH
    <3>1. /\ cons_x' = 0
          /\ cons_y' = IF bottom(cons_y + 1) THEN cons_y ELSE cons_y + 1
          /\ cons_buf' = clear(IF bottom(cons_y + 1) THEN scroll(put) ELSE put, cons_y')
      BY <1>1, <1>6, <2>2 DEF bmk_cons_putc, newline
    <3>2. col' = 0 /\ paper' = Screenful(Append(typed, Blank))
      BY <1>1, <1>6, <2>1, <2>2 DEF Type, Typed
    <3> HIDE DEF typed, put
    <3> QED BY <1>1, <1>3, <2>1, <3>1, <3>2, NewLine
  <2>3. CASE cons_x + 1 # CONS_WIDTH
    <3>1. cons_x' = cons_x + 1 /\ cons_y' = cons_y /\ cons_buf' = put
      BY <1>1, <1>6, <2>3 DEF bmk_cons_putc, newline, bottom
    <3>2. col' = cons_x + 1 /\ paper' = typed
      BY <1>1, <1>6, <2>1, <2>3, Sizes DEF Type, Col, Typed
    <3>3. cons_x + 1 \in Col
      BY <1>1, <2>3, Sizes DEF Col
    <3> QED BY <1>1, <2>1, <3>1, <3>2, <3>3
  <2> QED BY <2>2, <2>3
<1> QED BY <1>4, <1>5, <1>6

(* For every size of the screen: it shows the end of what was printed, and *)
(* the cursor is on a free slot, where the teletype types next.            *)
THEOREM ConsoleIsTeletype == ConsoleSpec => [](ScreenShowsPaper /\ SlotAvailable)
<1>1. ConsoleInit => ConsoleInv
  <2> SUFFICES ASSUME ConsoleInit PROVE ConsoleInv
    OBVIOUS
  <2>1. cons_buf \in [Cell -> Char] /\ paper \in Seq(PaperLine) /\ Len(paper) = 1
    BY BlankLine DEF ConsoleInit, bmk_init
  <2>2. SlotAvailable
    BY <2>1, Sizes DEF SlotAvailable, ConsoleInit, bmk_init
  <2>3. Shown(cons_buf, paper)
    <3> SUFFICES ASSUME NEW y \in Row, NEW x \in Col
                 PROVE  cons_buf[at(x, y)] =
                          IF y < Len(paper) THEN paper[y + 1][x] ELSE Space
      BY DEF Shown
    <3>1. cons_buf[at(x, y)] = Space
      BY CellOfSlot DEF ConsoleInit, bmk_init
    <3>2. y \in Nat /\ (y < 1 => paper[y + 1] = Blank) /\ Blank[x] = Space
      BY Sizes DEF Row, Col, Blank, ConsoleInit
    <3> QED BY <2>1, <3>1, <3>2
  <2> QED BY <2>1, <2>2, <2>3 DEF ConsoleInv
<1>2. ConsoleInv /\ [ConsoleNext]_cvars => ConsoleInv'
  <2> SUFFICES ASSUME ConsoleInv, [ConsoleNext]_cvars PROVE ConsoleInv'
    OBVIOUS
  <2>1. CASE ConsoleNext
    BY <2>1, ConsoleStep DEF ConsoleNext
  <2>2. CASE UNCHANGED cvars
    BY <2>2 DEF cvars, console, teletype, ConsoleInv, SlotAvailable, Shown
  <2> QED BY <2>1, <2>2
<1>3. ConsoleInv => ScreenShowsPaper /\ SlotAvailable
  BY DEF ConsoleInv, Shown, ScreenShowsPaper, Row, Col, at
<1> QED BY <1>1, <1>2, <1>3, PTL DEF ConsoleSpec
=============================================================================
