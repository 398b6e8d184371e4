------------------------------ MODULE SdbShell ------------------------------
(***************************************************************************)
(* The command loop of hw4.cpp around class SDB: the command line, where   *)
(* commands come from, what a command without its arguments does, and what *)
(* happens at the end of the input.                                        *)
(*                                                                         *)
(* getline leaves its buffer alone at the end of the input, and strtok has *)
(* cut the last line behind its first word: at the end of a terminal's     *)
(* input the loop runs the last command again, without arguments.  When no *)
(* line was read before, nobody has written to the buffer at all.          *)
(***************************************************************************)
EXTENDS Sdb

CONSTANTS
    MaxLines     \* bound: how many lines the script has, or the user types

ASSUME ShellAssumption == MaxLines \in Nat

VARIABLES
    input,   \* "none" before the command line is looked at, "script", "stdin"
    left,    \* lines not read yet
    line,    \* what is left in the buffer: the first word of the last line,
             \* or "unread"
    eof      \* history: the end of the standard input was met

shell == <<input, left, line, eof>>
shellVars == <<vars, shell>>

Commands == {"break", "cont", "delete", "disasm", "dump", "exit", "get", "getregs",
             "help", "list", "load", "run", "vmmap", "set", "si", "start"}

\* What is no command: some other word, or none.
Others == {"unknown", "blank"}

Words == Commands \cup Others

\* A command in the buffer is that of a line that was read.
ShellTypeOK ==
    /\ input \in {"none", "script", "stdin"}
    /\ left \in 0..MaxLines
    /\ line \in Words \cup {"unread"}
    /\ line \in Commands => left < MaxLines
    /\ eof \in BOOLEAN

ShellInit ==
    /\ Init
    /\ input = "none"
    /\ left \in 0..MaxLines
    /\ line = "unread"
    /\ eof = FALSE

\* The command line: a script or not, a program or not, or something else.
Arguments ==
    /\ input = "none" /\ AtPrompt
    /\ \/ input' \in {"script", "stdin"} /\ UNCHANGED vars
       \/ input' \in {"script", "stdin"} /\ \E file \in Files : load(file)
       \/ UNCHANGED input /\ Error          \* bad flag, no such script
    /\ UNCHANGED <<left, line, eof>>

\* The branches of the loop: a command whose arguments are missing, an unknown
\* word and an empty line do nothing.
NeedsArguments == {"break", "delete", "disasm", "dump", "get", "load", "set"}

Dispatch(word, given) ==
    \/ word \in Others /\ AtPrompt /\ NoEffect
    \/ word \in NeedsArguments /\ ~given /\ AtPrompt /\ NoEffect
    \/ word = "break" /\ given /\ \E addr \in BreakArgs : set_break(addr)
    \/ word = "delete" /\ given /\ \E id \in DeleteArgs : del(id)
    \/ word = "disasm" /\ given /\ disasm
    \/ word = "dump" /\ given /\ dump
    \/ word = "get" /\ given /\ get
    \/ word = "load" /\ given /\ \E file \in Files : load(file)
    \/ word = "set" /\ given /\ (set_other \/ \E val \in RipArgs : set_rip(val))
    \/ word = "cont" /\ cont
    \/ word = "exit" /\ quit
    \/ word = "getregs" /\ getregs
    \/ word = "help" /\ help
    \/ word = "list" /\ list
    \/ word = "run" /\ run
    \/ word = "vmmap" /\ vmmap
    \/ word = "si" /\ si
    \/ word = "start" /\ start

\* Faulty variant: the end of the input is never noticed.
ReadLine_Unchecked ==
    /\ input # "none"
    /\ \E word \in Words, given \in BOOLEAN : Dispatch(word, given) /\ line' = word
    /\ left' = left - 1
    /\ UNCHANGED <<input, eof>>

ReadLine ==
    /\ input # "none" /\ left > 0
    /\ \E word \in Words, given \in BOOLEAN : Dispatch(word, given) /\ line' = word
    /\ left' = left - 1
    /\ UNCHANGED <<input, eof>>

\* Faulty variants: the end of the script is not noticed; the debugger exits
\* and lets the traced process go.
ScriptEnd_Ignored ==
    /\ input = "script" /\ left = 0
    /\ Dispatch(line, FALSE)
    /\ UNCHANGED shell

ScriptEnd_Detaches ==
    /\ input = "script" /\ left = 0 /\ AtPrompt
    /\ pc' = "exited"
    /\ UNCHANGED <<debugger, process, shell>>

ScriptEnd ==
    /\ input = "script" /\ left = 0
    /\ quit
    /\ UNCHANGED shell

\* Faulty variant: the arguments of the last line are still there.
StdinEnd_KeepsArguments ==
    /\ input = "stdin" /\ left = 0 /\ line # "unread"
    /\ Dispatch(line, TRUE)
    /\ eof' = TRUE
    /\ UNCHANGED <<input, left, line>>

\* getline fails, which nobody looks at: the last word once more.
StdinEnd ==
    /\ input = "stdin" /\ left = 0 /\ line # "unread"
    /\ Dispatch(line, FALSE)
    /\ eof' = TRUE
    /\ UNCHANGED <<input, left, line>>

\* getline fails on the first line: the buffer it allocated is not initialised.
\* What happens to be there is no command, and strlen may run out of it.
StdinEmpty ==
    /\ input = "stdin" /\ left = 0 /\ line = "unread"
    /\ \/ AtPrompt /\ NoEffect /\ line' \in Others
       \/ AtPrompt /\ Error /\ UNCHANGED line
    /\ eof' = TRUE
    /\ UNCHANGED <<input, left>>

\* The rest of the system goes on while the debugger waits.
Background ==
    /\ check_process \/ Exec \/ SignalStop \/ Kill \/ Over
    /\ UNCHANGED shell

ShellNext ==
    Arguments \/ ReadLine \/ ScriptEnd \/ StdinEnd \/ StdinEmpty \/ Background

\* A script is read without anybody's help, and so is the end of the input; a
\* user need not type.
ScriptStep ==
    (input = "script" /\ ReadLine) \/ ScriptEnd \/ StdinEnd \/ StdinEmpty

ShellSpec ==
    /\ ShellInit /\ [][ShellNext]_shellVars
    /\ WF_shellVars(ScriptStep)
    /\ WF_shellVars(Exec /\ UNCHANGED shell)
    /\ WF_shellVars(check_process /\ UNCHANGED shell)

-----------------------------------------------------------------------------
(* Properties. *)

\* However commands get to class SDB, it is used as module Sdb says: one command
\* at a time, at the prompt, and an exit of the loop takes the process along.
UsesSdb == Spec

\* A script ends the debugger, whatever commands it holds and wherever the
\* traced process stops, unless that process runs for ever by itself (as it may
\* once start() has set its breakpoints again and damaged the text).
ScriptEnds ==
    (input = "script" ~> pc \in {"exited", "failed"}) \/ <>[](child = "running")

\* The commands that execute instructions of the traced process.
Resuming == {"cont", "run", "si", "start"}

\* The commands that the loop makes up at the end of the standard input neither
\* set nor delete a breakpoint nor load a program, however often the last one is
\* repeated.  When that is not one of Resuming, a process the user has left
\* stopped stays where it is, its text too; the others do move it, again and
\* again.
EofHarmless ==
    [][eof' => /\ UNCHANGED <<addr_list, program_name>>
               /\ line' \notin Resuming => UNCHANGED <<rip, mem, starts>>]_shellVars
=============================================================================
