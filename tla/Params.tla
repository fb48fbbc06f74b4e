------------------------------- MODULE Params -------------------------------
(***************************************************************************)
(* rumpuser_getparam() and rumpuser_getrandom(): what the rump kernel asks *)
(* the host for, written into a buffer of the caller.  The constant        *)
(* strings, the caller's name and the buffer live in one memory.           *)
(***************************************************************************)
EXTENDS Subr, SequencesExt

CONSTANTS HostLen,         \* the length of "rump-baremetal"
          MemSizes,        \* values of bmk_memsize
          BMK_MEMRESERVE,
          TmpSize,         \* sizeof(tmp)
          MaxBuf           \* largest buflen

VARIABLES mem,    \* memory
          answer  \* what the last call was asked and returned

pvars == <<mem, answer>>

HALT == -1       \* for a call that does not return: an assertion failed

Hostname == [i \in 1..HostLen |-> i]

(* The names of the parameters: they differ before their last character.   *)
RUMPUSER_PARAM_NCPU == <<1, 1>>
RUMP_VERBOSE == <<2, 1>>
RUMPUSER_PARAM_HOSTNAME == <<3, 1>>
RUMP_MEMLIMIT == <<4, 1>>

Parameters ==
  {RUMPUSER_PARAM_NCPU, RUMP_VERBOSE, RUMPUSER_PARAM_HOSTNAME, RUMP_MEMLIMIT}

(* The names that are asked for: these, and such with another last         *)
(* character, with a character less, and with one and two more.            *)
Names == Parameters \cup {<<3, 2>>, <<3>>, <<4, 1, 2>>, <<4, 1, 2, 2>>}

Junk == 99       \* what memory holds that nobody has written
Random == 98     \* a byte of a random number
one == 0         \* where "1" is
hostname == 2    \* where the host name is
buf == hostname + HostLen + 1  \* where the buffers are

ASSUME ParamsAssumption == buf + MaxBuf < MemCells

Constants ==
  [p \in Addr |-> CASE p = one -> 1
                    [] p = one + 1 -> 0
                    [] p \in hostname..(buf - 2) -> Hostname[p - hostname + 1]
                    [] p = buf - 1 -> 0
                    [] OTHER -> Junk]

\* Mutant: the last digit of what is left is dropped.
digits_short(n) ==
  LET d[k \in 0..n] ==
        IF k < 10 THEN <<>> ELSE <<(k % 10) + 10>> \o d[k \div 10]
  IN  d[n]

(* The digits of n, the least significant one first; '0' is 10 so that no  *)
(* digit is the terminator.                                                *)
digits(n) ==
  LET d[k \in 0..n] ==
        IF k = 0 THEN <<>> ELSE <<(k % 10) + 10>> \o d[k \div 10]
  IN  d[n]

Answer(call, buflen, m, rv) ==
  /\ mem' = m
  /\ answer' = [answer EXCEPT !.fn = call.fn, !.name = call.name,
                              !.buflen = buflen, !.rv = rv]

getparam(name) == [fn |-> "getparam", name |-> name]

(* RUMP_MEMLIMIT: the number is written backwards into tmp, then forwards  *)
(* into the buffer, behind its terminator.                                 *)
memlimit(name, buflen) ==
  LET tmp == digits(answer.memsize - BMK_MEMRESERVE)
      i == Len(tmp)
  IN  IF answer.memsize <= BMK_MEMRESERVE \/ i > TmpSize - 1
      THEN Answer(getparam(name), buflen, mem, HALT)
      ELSE IF i >= buflen THEN Answer(getparam(name), buflen, mem, 1)
      ELSE Answer(getparam(name), buflen,
                  [p \in Addr |-> IF p \in buf..(buf + i - 1)
                                  THEN tmp[i - (p - buf)]
                                  ELSE IF p = buf + i THEN 0 ELSE mem[p]], 0)

\* Mutant: the buffer is taken for a byte longer than it is.
room_all(buflen) == buflen

(* The count the string is copied with, a byte less than the buffer.       *)
room(buflen) == buflen - 1

(* A name and a parameter of the code in memory; what follows the latter   *)
(* depends on how the program is linked.                                   *)
Beside(name, parameter, next) ==
  LET text == name \o <<0>> \o parameter \o <<0, next>>
  IN  [p \in Addr |-> IF p < Len(text) THEN text[p + 1] ELSE Junk]

(* bmk_strcmp(name, parameter) == 0                                        *)
is ==
  [name \in Names, parameter \in Parameters, next \in {0, Junk} |->
     bmk_strcmp(Beside(name, parameter, next), 0, Len(name) + 1) = 0]

(* The program, whose strings these are, is in memory.                     *)
Intact == \A p \in 0..(buf - 1) : mem[p] = Constants[p]

Running == answer.rv # HALT /\ Intact

(* A host name longer than the buffer sends bmk_strncpy() through all of   *)
(* memory.                                                                 *)
rumpuser_getparam(name, buflen, next) ==
  /\ Running
  /\ IF buflen <= 1 THEN Answer(getparam(name), buflen, mem, 1)
     ELSE IF is[name, RUMPUSER_PARAM_NCPU, next] \/ is[name, RUMP_VERBOSE, next]
     THEN Answer(getparam(name), buflen,
                 bmk_strncpy(mem, buf, one, room(buflen)), 0)
     ELSE IF is[name, RUMPUSER_PARAM_HOSTNAME, next]
     THEN Answer(getparam(name), buflen,
                 bmk_strncpy(mem, buf, hostname, room(buflen)), 0)
     ELSE IF is[name, RUMP_MEMLIMIT, next] THEN memlimit(name, buflen)
     ELSE Answer(getparam(name), buflen, mem, 1)

(* Only whole words are stored, the last buflen % 4 bytes stay as they     *)
(* are.  The bytes of all random numbers are the same here.                *)
rumpuser_getrandom(buflen) ==
  /\ Running
  /\ Answer([fn |-> "getrandom", name |-> <<>>], buflen,
            [p \in Addr |-> IF p \in buf..(buf + 4 * (buflen \div 4) - 1)
                            THEN Random ELSE mem[p]], 0)

ParamsInit ==
  /\ mem = Constants
  /\ \E m \in MemSizes :
       answer = [fn |-> "none", name |-> <<>>, buflen |-> 0, rv |-> 1,
                 memsize |-> m]

ParamsNext ==
  \E buflen \in 0..MaxBuf :
    \/ \E name \in Names, next \in {0, Junk} :
         rumpuser_getparam(name, buflen, next)
    \/ rumpuser_getrandom(buflen)

ParamsSpec == ParamsInit /\ [][ParamsNext]_pvars

-----------------------------------------------------------------------------

(* The number a string of digits stands for.                               *)
number(s) == FoldLeft(LAMBDA n, c : (10 * n + c) - 10, 0, s)

String(m, p) == [i \in 1..bmk_strlen(m, p) |-> m[At(p, i - 1)]]

(* The names that are taken for the parameter: its own, another that only  *)
(* the last character tells apart and, if the byte behind the parameter is *)
(* 0, one with a character more.                                           *)
TakenFor ==
  [parameter \in Parameters |->
     {name \in Names :
        \/ Len(name) = Len(parameter) /\ Front(name) = Front(parameter)
        \/ Len(name) = Len(parameter) + 1 /\ Front(name) = parameter}]

(* The host name is asked for, with too small a buffer.                    *)
Overrun(a) ==
  a.name \in TakenFor[RUMPUSER_PARAM_HOSTNAME] /\ a.rv = 0 /\ a.buflen <= HostLen

(* An answered call left in the buffer the value of the parameter, ended   *)
(* by a terminator: "for memlimit, we have to implement int -> string".    *)
(* Only the names bmk_strcmp() cannot tell from a parameter are answered,  *)
(* and a parameter is refused only for want of room.                       *)
ParamAnswered ==
  answer.fn = "getparam" =>
    LET value == String(mem, buf)
        memlimit_is == answer.memsize - BMK_MEMRESERVE
    IN  /\ answer.rv = 0 /\ ~Overrun(answer) =>
             /\ Len(value) < answer.buflen
             /\ \/ /\ answer.name \in TakenFor[RUMPUSER_PARAM_NCPU]
                                      \cup TakenFor[RUMP_VERBOSE]
                   /\ value = <<1>>
                \/ /\ answer.name \in TakenFor[RUMPUSER_PARAM_HOSTNAME]
                   /\ value = Hostname
                \/ /\ answer.name \in TakenFor[RUMP_MEMLIMIT]
                   /\ number(value) = memlimit_is
        /\ answer.rv = 1 /\ answer.name \in Parameters =>
             \/ answer.buflen <= 1
             \/ /\ answer.name = RUMP_MEMLIMIT
                /\ memlimit_is >= 10^(answer.buflen - 1)

(* A call writes into the buffer it is given and nowhere else, and one     *)
(* that is refused, or stops the machine, writes nothing; all but the one  *)
(* call with which the host name does not fit, and that overwrites the     *)
(* program.                                                                *)
BufferKept ==
  [][/\ Overrun(answer') <=>
          \E p \in Addr : /\ mem'[p] # mem[p]
                          /\ p \notin buf..(buf + answer'.buflen - 1)
     /\ Overrun(answer') => ~Intact'
     /\ answer'.rv # 0 => mem' = mem
    ]_pvars
=============================================================================
