------------------------------- MODULE MCSdb -------------------------------
(***************************************************************************)
(* Two programs to debug.                                                  *)
(*                                                                         *)
(* hello64 is hw4/sample/hello64, byte for byte: nine instructions from    *)
(* 0x4000b0 on, of which the eighth makes the process exit.  Addresses     *)
(* are the low 12 bits of the real ones (176 is 0x4000b0); the mapping     *)
(* goes on past the text, as the page of the real program does.            *)
(*                                                                         *)
(* Countdown is a made-up loop with the shape compilers give a function:   *)
(*    8  push rbp          1 byte                                          *)
(*    9  mov ecx, ...      5 bytes                                         *)
(*   14  dec ecx           2 bytes     (target of the jump)                *)
(*   16  jnz 14            2 bytes                                         *)
(*   18  syscall (exit)    2 bytes                                         *)
(***************************************************************************)
EXTENDS SdbTransparency

HelloBytes == <<184, 4, 0, 0, 0,   187, 1, 0, 0, 0,   185, 212, 0, 96, 0,
                186, 14, 0, 0, 0,  205, 128,          184, 1, 0, 0, 0,
                187, 0, 0, 0, 0,   205, 128,          195,
                0, 72, 101, 108, 108, 111, 44>>
HelloMapped == 176 .. 217
HelloCode == [b \in HelloMapped |-> HelloBytes[b - 175]]
HelloInsns == {176, 181, 186, 191, 196, 198, 203, 208, 210}
HelloLen == [a \in HelloInsns |->
                IF a \in {196, 208} THEN 2 ELSE IF a = 210 THEN 1 ELSE 5]
HelloSucc == [a \in HelloInsns |->
                IF a = 208 THEN {0} ELSE IF a = 210 THEN {} ELSE {a + HelloLen[a]}]

LoopBytes == <<85,  185, 3, 0, 0, 0,  255, 201,  117, 252,  15, 5,
               0, 0, 0, 0, 0, 0, 0>>
LoopMapped == 8 .. 26
LoopCode == [b \in LoopMapped |-> LoopBytes[b - 7]]
LoopInsns == {8, 9, 14, 16, 18}
LoopLen == [a \in LoopInsns |-> IF a = 8 THEN 1 ELSE IF a = 9 THEN 5 ELSE 2]
LoopSucc == [a \in LoopInsns |->
                CASE a = 8 -> {9} [] a = 9 -> {14} [] a = 14 -> {16}
                  [] a = 16 -> {14, 18} [] a = 18 -> {0}]

\* Numbers to delete, one of them below every valid number.
AnyNumber == {-1, 0, 1}
=============================================================================
