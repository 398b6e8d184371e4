---------------------------- MODULE PtraceText ----------------------------
(***************************************************************************)
(* The text of a traced process as the debugger of hw4 sees it through     *)
(* ptrace: an array of bytes that PTRACE_PEEKTEXT and PTRACE_POKETEXT read *)
(* and write one machine word at a time, whatever the alignment of the     *)
(* address.  A word is a function from byte offsets to bytes; offset 0 is  *)
(* the low byte, the one stored at the word's own address (little endian). *)
(***************************************************************************)
EXTENDS Integers

CONSTANTS
    WordSize,   \* bytes in a ptrace word: 8 in the code (a long)
    Mapped,     \* the addresses of the text mapping of the program
    Code        \* Code[b]: the byte of the executable at address b

Byte == 0..255
INT3 == 204     \* 0xcc, the breakpoint instruction

Offsets == 0 .. WordSize - 1
Word == [Offsets -> Byte]

ASSUME TextAssumption ==
    /\ WordSize \in Nat \ {0}
    /\ Mapped \subseteq Nat \ {0}      \* page 0 is never mapped
    /\ Code \in [Mapped -> Byte]

\* The addresses of the word at a, and whether ptrace can access all of it.
Span(a) == a .. a + WordSize - 1
Accessible(a) == Span(a) \subseteq Mapped

\* What ptrace returns when it fails: -1, all of whose bytes are 0xff.
MinusOne == [i \in Offsets |-> 255]

\* PTRACE_PEEKTEXT and PTRACE_POKETEXT on a stopped process with text m.
Peek(m, a) == IF Accessible(a) THEN [i \in Offsets |-> m[a + i]] ELSE MinusOne
Poke(m, a, w) == [b \in Mapped |-> IF b \in Span(a) THEN w[b - a] ELSE m[b]]

\* (w & 0xffffffffffffff00) | x
WithLowByte(w, x) == [w EXCEPT ![0] = x]
=============================================================================
