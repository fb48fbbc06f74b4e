------------------------------ MODULE Strings ------------------------------
(***************************************************************************)
(* Calls of the string functions on two arrays, src and dst, of ArrayLen   *)
(* bytes that hold strings, one after the other in memory.                 *)
(***************************************************************************)
EXTENDS Subr

CONSTANTS ArrayLen, Byte

VARIABLES array,  \* the memory with the two arrays
          call    \* the last call: the function, its count, its result and
                  \* the memory it found

src == 0
dst == ArrayLen
strings == <<array, call>>

StringsInit ==
  /\ \E s, t \in [0..(ArrayLen - 2) -> Byte \cup {0}] :
       array = [p \in Addr |-> CASE p \in DOMAIN s -> s[p]
                                 [] p - dst \in DOMAIN t -> t[p - dst]
                                 [] OTHER -> 0]
  /\ call = [fn |-> "none", n |-> 0, rv |-> 0, old |-> array]

Called(fn, n, rv, m) ==
  /\ call.fn = "none"
  /\ call' = [fn |-> fn, n |-> n, rv |-> rv, old |-> array]
  /\ array' = m

strcmp == Called("strcmp", 0, bmk_strcmp(array, src, dst), array)

strcpy == Called("strcpy", 0, dst, bmk_strcpy(array, dst, src))

strncpy(n) == Called("strncpy", n, dst, bmk_strncpy(array, dst, src, n))

memcpy(n) == Called("memcpy", n, dst, bmk_memcpy(array, dst, src, n))

memset(c, n) == Called("memset", n, c, bmk_memset(array, dst, c, n))

StringsNext ==
  \/ strcmp
  \/ strcpy
  \/ \E n \in 0..(ArrayLen - 1) : strncpy(n)
  \/ \E n \in 0..ArrayLen : memcpy(n) \/ \E c \in Byte : memset(c, n)

StringsSpec == StringsInit /\ [][StringsNext]_strings

-----------------------------------------------------------------------------

srclen == bmk_strlen(call.old, src)

(* The source does not end within the count: the counter of bmk_strncpy()  *)
(* passes zero.                                                            *)
Wraps == call.fn = "strncpy" /\ srclen > call.n

(* The number of bytes the function should write.                          *)
Written ==
  CASE call.fn = "strcpy" -> srclen + 1
    [] call.fn = "strncpy" -> call.n + 1
    [] call.fn \in {"memcpy", "memset"} -> call.n
    [] OTHER -> 0

(* The byte the call should leave at p.                                    *)
Expected(p) ==
  LET i == p - dst
  IN  CASE Wraps -> IF i = call.n THEN call.old[src + i] ELSE 0
        [] ~Wraps /\ i \notin 0..(Written - 1) -> call.old[p]
        [] OTHER -> CASE call.fn = "memset" -> call.rv
                      [] call.fn = "strncpy" /\ i > srclen -> 0
                      [] OTHER -> call.old[src + i]

(* The first place where the two strings differ, or their end.             *)
difference ==
  First(LAMBDA i : \/ call.old[src + i] # call.old[dst + i]
                   \/ call.old[src + i] = 0)

(* A copy has all its bytes, the terminator and the padding included, and  *)
(* changes no byte beyond.  bmk_strncpy() writes one byte more than its    *)
(* count, which is why its callers pass the length of the buffer less one; *)
(* when that does not hold the string, all of memory is zeroed and one     *)
(* byte of the copy is left.                                               *)
(* bmk_strcmp() is 0 for equal strings and has the sign of the first       *)
(* difference.  The exception are strings that part at the last character  *)
(* of the first one: the next byte of the second decides, so that strings  *)
(* of one length are taken for equal, and otherwise the first is less.     *)
StringsRight ==
  /\ \A p \in Addr : array[p] = Expected(p)
  /\ call.fn = "strcmp" =>
       LET x == call.old[src + difference]
           y == call.old[dst + difference]
       IN  IF x # y /\ difference + 1 = srclen
           THEN call.rv = -call.old[dst + difference + 1]
           ELSE /\ x = y => call.rv = 0
                /\ x < y => call.rv < 0
                /\ x > y => call.rv > 0
=============================================================================
