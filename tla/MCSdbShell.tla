----------------------------- MODULE MCSdbShell -----------------------------
(* The command loop with a program of three instructions that then exits. *)
EXTENDS SdbShell

TinyMapped == 8 .. 17
TinyCode == [b \in TinyMapped |-> b]
TinyInsns == {8, 9, 11}
TinyLen == [a \in TinyInsns |-> IF a = 8 THEN 1 ELSE 2]
TinySucc == [a \in TinyInsns |-> CASE a = 8 -> {9} [] a = 9 -> {11} [] a = 11 -> {0}]
=============================================================================
