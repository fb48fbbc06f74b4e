------------------------------ MODULE Console ------------------------------
(***************************************************************************)
(* The console: bmk_init clears the screen, bmk_cons_putc writes, wraps    *)
(* and scrolls it; bmk_cons_puts, rumpuser_putchar and rumpuser_dprintf    *)
(* are characters put one after the other.  Beside the screen the model    *)
(* keeps the paper a teletype would have printed, cut to a screenful.      *)
(***************************************************************************)
EXTENDS Integers, SequencesExt

CONSTANTS CONS_WIDTH, CONS_HEIGHT,
          Char  \* the characters that take a slot, the blank among them

Space == " "

ASSUME ConsoleAssumption ==
  /\ CONS_WIDTH \in Nat \ {0} /\ CONS_HEIGHT \in Nat \ {0}
  /\ Space \in Char /\ "\n" \notin Char /\ "\r" \notin Char

VARIABLES cons_buf, cons_x, cons_y,
          paper,  \* the last lines, oldest first
          col     \* the teletype's column

console == <<cons_buf, cons_x, cons_y>>
teletype == <<paper, col>>
cvars == <<console, teletype>>

Cell == 0..(CONS_WIDTH * CONS_HEIGHT - 1)

cons_putat(buf, c, x, y) == [buf EXCEPT ![x + y * CONS_WIDTH] = c]

(* The buffer moved up by a line; the last line stays.                     *)
scroll(buf) ==
  [i \in Cell |-> IF i < (CONS_HEIGHT - 1) * CONS_WIDTH
                  THEN buf[i + CONS_WIDTH] ELSE buf[i]]

clear(buf, y) ==
  [i \in Cell |-> IF i \div CONS_WIDTH = y THEN Space ELSE buf[i]]

\* Mutant: a full line does not clear the next one.
newline_only(c, x) == c = "\n"

(* doclear: the character, or the end of its line, starts a new line.      *)
newline(c, x) == c = "\n" \/ x = CONS_WIDTH

bottom(y) == y = CONS_HEIGHT

bmk_cons_putc(c) ==
  LET shown == c \notin {"\n", "\r"}
      buf == IF shown THEN cons_putat(cons_buf, c, cons_x, cons_y) ELSE cons_buf
      x == IF shown THEN cons_x + 1 ELSE 0
      y == IF c = "\n" \/ x = CONS_WIDTH THEN cons_y + 1 ELSE cons_y
      last == IF bottom(y) THEN y - 1 ELSE y
      up == IF bottom(y) THEN scroll(buf) ELSE buf
  IN  /\ cons_x' = IF x = CONS_WIDTH THEN 0 ELSE x
      /\ cons_y' = last
      /\ cons_buf' = IF newline(c, x) THEN clear(up, last) ELSE up

bmk_init == cons_buf = [i \in Cell |-> Space] /\ cons_x = 0 /\ cons_y = 0

-----------------------------------------------------------------------------

Blank == [x \in 0..(CONS_WIDTH - 1) |-> Space]

Screenful(lines) ==
  IF Len(lines) > CONS_HEIGHT THEN Tail(lines) ELSE lines

(* What a character does on paper.                                         *)
Type(c) ==
  LET typed == [paper EXCEPT ![Len(paper)][col] = c]
  IN  CASE c = "\r" -> col' = 0 /\ UNCHANGED paper
        [] c = "\n" -> col' = 0 /\ paper' = Screenful(Append(paper, Blank))
        [] c \in Char ->
             IF col = CONS_WIDTH - 1
             THEN col' = 0 /\ paper' = Screenful(Append(typed, Blank))
             ELSE col' = col + 1 /\ paper' = typed

ConsoleInit == bmk_init /\ paper = <<Blank>> /\ col = 0

ConsoleNext == \E c \in Char \cup {"\n", "\r"} : bmk_cons_putc(c) /\ Type(c)

ConsoleSpec == ConsoleInit /\ [][ConsoleNext]_cvars

-----------------------------------------------------------------------------

(* "display a character in the next available slot": the screen shows the  *)
(* end of what was printed, line by line from the top, then blank lines.   *)
ScreenShowsPaper ==
  \A y \in 0..(CONS_HEIGHT - 1), x \in 0..(CONS_WIDTH - 1) :
    cons_buf[x + y * CONS_WIDTH] =
      IF y < Len(paper) THEN paper[y + 1][x] ELSE Space

(* Between two characters there is a free slot on the screen, and it is    *)
(* where the teletype types next.                                          *)
SlotAvailable ==
  /\ cons_x \in 0..(CONS_WIDTH - 1) /\ cons_x = col
  /\ cons_y \in 0..(CONS_HEIGHT - 1) /\ cons_y = Len(paper) - 1
=============================================================================
