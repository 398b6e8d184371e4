--------------------------- MODULE SdbShellProofs ---------------------------
(***************************************************************************)
(* The command loop implements the specification of the debugger: what is  *)
(* proved of class SDB under any sequence of commands holds of it under    *)
(* the sequences that the loop makes, those at the end of the input too.   *)
(***************************************************************************)
EXTENDS SdbShell, SdbProofs

\* A branch of the loop is a command of the debugger, or leaves it alone.
LEMMA DispatchIsCommand ==
    ASSUME NEW word, NEW given, Dispatch(word, given)
    PROVE  Command \/ UNCHANGED vars
BY DEF Dispatch, Command, NoEffect

\* Until a line was read there is no traced process, and the debugger does not
\* wait for one.
NoProcessYet ==
    /\ input = "none" => line = "unread"
    /\ line = "unread" => child = "none" /\ pc # "waiting"

\* The command line loads a program, ends the debugger as a command on a process
\* that is not there does, or leaves the debugger alone.
LEMMA ArgumentsAreCommand ==
    ASSUME NoProcessYet, Arguments
    PROVE  Command \/ UNCHANGED vars
BY DEF NoProcessYet, Arguments, Command, set_other

\* A step of the loop is a step of the debugger or leaves it alone.
LEMMA ShellStepIsStep ==
    ASSUME NoProcessYet, [ShellNext]_shellVars
    PROVE  [Next]_vars
<1>1. CASE Arguments
    BY <1>1, ArgumentsAreCommand DEF Next
<1>2. CASE ReadLine
    <2>1. PICK word \in Words, given \in BOOLEAN : Dispatch(word, given)
        BY <1>2 DEF ReadLine
    <2> QED
        BY <2>1, DispatchIsCommand DEF Next
<1>3. CASE ScriptEnd
    BY <1>3 DEF ScriptEnd, Next, Command
<1>4. CASE StdinEnd
    BY <1>4, DispatchIsCommand DEF StdinEnd, Next
<1>5. CASE Background
    BY <1>5 DEF Background, Next
<1>6. CASE UNCHANGED shellVars
    BY <1>6 DEF shellVars
<1>7. CASE StdinEmpty
    BY <1>7 DEF StdinEmpty, NoEffect, NoProcessYet, Next, Command, set_other
<1> QED
    BY <1>1, <1>2, <1>3, <1>4, <1>5, <1>6, <1>7 DEF ShellNext

\* Only a line that was read starts a process.
LEMMA NoProcessYetStep ==
    ASSUME NoProcessYet, [ShellNext]_shellVars
    PROVE  NoProcessYet'
<1>1. CASE Arguments
    BY <1>1 DEF Arguments, load, NoEffect, vars, process, Error, KilledWithTracer,
                Alive, AtPrompt, NoProcessYet
<1>2. CASE ReadLine
    BY <1>2 DEF ReadLine, Words, Commands, Others, NoProcessYet
<1>3. CASE ScriptEnd
    BY <1>3 DEF ScriptEnd, quit, KilledWithTracer, Alive, shell, NoProcessYet
<1>4. CASE StdinEnd
    BY <1>4 DEF StdinEnd, NoProcessYet
<1>5. CASE StdinEmpty
    BY <1>5 DEF StdinEmpty, Others, NoEffect, vars, process, Error, KilledWithTracer,
                Alive, AtPrompt, NoProcessYet
<1>6. CASE Background
    <2> SUFFICES ASSUME line = "unread" PROVE child' = "none" /\ pc' # "waiting"
        BY <1>6 DEF Background, shell, NoProcessYet
    <2>1. child = "none" /\ pc # "waiting"
        BY DEF NoProcessYet
    <2>2. ~check_process
        BY <2>1 DEF check_process, check_exited, check_signaled, check_sigstop,
                    check_hit, check_before, check_step, check_lost, check_unshown,
                    Trapped
    <2>3. ~(Exec \/ SignalStop \/ Kill)
        BY <2>1 DEF Exec, ExecInt3, ExecInsn, ExecGarbage, SignalStop, Kill,
                    Executing, Alive
    <2>4. Over
        BY <1>6, <2>2, <2>3 DEF Background
    <2> QED
        BY <2>1, <2>4 DEF Over, NoEffect, vars, process
<1>7. CASE UNCHANGED shellVars
    BY <1>7 DEF shellVars, vars, process, shell, NoProcessYet
<1> QED
    BY <1>1, <1>2, <1>3, <1>4, <1>5, <1>6, <1>7 DEF ShellNext

\* The command loop of hw4.cpp, with a script or a terminal that may come to an
\* end, uses class SDB as module Sdb says.
THEOREM ShellUsesSdb == ShellSpec => UsesSdb
<1>1. ShellInit => Init /\ NoProcessYet
    BY DEF ShellInit, Init, NoProcessYet
<1>2. NoProcessYet /\ [ShellNext]_shellVars => NoProcessYet' /\ [Next]_vars
    BY NoProcessYetStep, ShellStepIsStep
<1> QED
    BY <1>1, <1>2, PTL DEF ShellSpec, UsesSdb, Spec

\* So the commands that the loop repeats at the end of the standard input, run
\* and start among them, leave nothing of one run over to the next.
THEOREM ShellIdleClean == ShellSpec => []IdleClean
BY ShellUsesSdb, IdleCleanHolds, PTL DEF UsesSdb

\* And whichever way the loop ends or goes on, it leaves no process behind.
THEOREM ShellOneProcess == ShellSpec => []OneProcess
BY ShellUsesSdb, OneProcessHolds, PTL DEF UsesSdb

-----------------------------------------------------------------------------
(* The loop's own state. *)

\* The loop never reads past its last line, and a command in its buffer, which it
\* repeats at the end of the standard input, is there because a line was read.
THEOREM ShellTypeCorrect == ShellSpec => []ShellTypeOK
<1> USE DEF Words, Commands, Others
<1>1. ShellInit => ShellTypeOK
    BY ShellAssumption DEF ShellInit, ShellTypeOK
<1>2. ASSUME ShellTypeOK, [ShellNext]_shellVars PROVE ShellTypeOK'
    <2>1. CASE Arguments
        BY <1>2, <2>1 DEF ShellTypeOK, Arguments
    <2>2. CASE ReadLine
        <3>1. left' \in 0..MaxLines /\ left' < MaxLines
            BY <1>2, <2>2, ShellAssumption DEF ShellTypeOK, ReadLine
        <3>2. line' \in Words /\ UNCHANGED <<input, eof>>
            BY <2>2 DEF ReadLine
        <3> QED
            BY <1>2, <3>1, <3>2 DEF ShellTypeOK
    <2>3. CASE StdinEnd \/ StdinEmpty
        BY <1>2, <2>3 DEF ShellTypeOK, StdinEnd, StdinEmpty
    <2>4. CASE UNCHANGED shell
        BY <1>2, <2>4 DEF ShellTypeOK, shell
    <2> QED
        BY <1>2, <2>1, <2>2, <2>3, <2>4
        DEF ShellNext, ScriptEnd, Background, shellVars
<1> QED
    BY <1>1, <1>2, PTL DEF ShellSpec

-----------------------------------------------------------------------------
(* The commands made up at the end of the standard input. *)

\* What a step may not change once the end was met, with word in the buffer.
Kept(word) ==
    /\ UNCHANGED <<addr_list, program_name>>
    /\ word \notin Resuming => UNCHANGED <<rip, mem, starts>>

\* Nor does a command but those of Resuming make the debugger wait.
KeptAtPrompt(word) == Kept(word) /\ (word \notin Resuming => pc' # "waiting")

\* The end is met when no line is left, and stays met; the process moves then only
\* under a command of Resuming.
EndIsFinal ==
    /\ eof \in BOOLEAN
    /\ eof = TRUE => /\ left = 0 /\ input = "stdin"
                     /\ line \notin Resuming => pc # "waiting"

\* A step that leaves the debugger alone keeps all of it.
LEMMA NoEffectKeeps ==
    ASSUME NoEffect, AtPrompt, NEW word
    PROVE  KeptAtPrompt(word)
BY DEF KeptAtPrompt, Kept, NoEffect, AtPrompt, vars, debugger, process

\* So does a file that is left open.
LEMMA LeakKeeps ==
    ASSUME Leak, AtPrompt, NEW word
    PROVE  KeptAtPrompt(word)
BY DEF KeptAtPrompt, Kept, Leak, AtPrompt, process

\* The ERROR exit keeps it.
LEMMA ErrorKeeps ==
    ASSUME Error, NEW word
    PROVE  KeptAtPrompt(word)
BY DEF KeptAtPrompt, Kept, Error, debugger

\* start and run change no breakpoint and no program name.
LEMMA LaunchKeeps ==
    ASSUME NEW image, NEW status, NEW next, NEW word \in Resuming,
           Launch(image, status, next)
    PROVE  KeptAtPrompt(word)
BY ErrorKeeps DEF Launch, KeptAtPrompt, Kept

\* Nor do si and cont, nor run of a running program.
LEMMA ResumeKeeps ==
    ASSUME NEW status, NEW word \in Resuming, Resume(status)
    PROVE  KeptAtPrompt(word)
BY ErrorKeeps DEF Resume, KilledBetween, KeptAtPrompt, Kept, debugger

\* A command without arguments keeps it, whatever its word.
LEMMA BareKeeps ==
    ASSUME NEW word, Dispatch(word, FALSE)
    PROVE  KeptAtPrompt(word)
<1>1. CASE word = "cont" /\ cont
    BY <1>1, NoEffectKeeps, ResumeKeeps DEF cont, Resuming
<1>2. CASE quit
    BY <1>2 DEF quit, KeptAtPrompt, Kept, debugger
<1>3. CASE getregs
    BY <1>3, NoEffectKeeps, ErrorKeeps DEF getregs, read_regs
<1>4. CASE vmmap
    BY <1>4, NoEffectKeeps, LeakKeeps, ErrorKeeps DEF vmmap, Leak
<1>5. CASE word = "run" /\ run
    BY <1>5, NoEffectKeeps, ResumeKeeps, LaunchKeeps DEF run, Resuming
<1>6. CASE word = "si" /\ si
    BY <1>6, NoEffectKeeps, ResumeKeeps DEF si, Resuming
<1>7. CASE word = "start" /\ start
    BY <1>7, NoEffectKeeps, LaunchKeeps DEF start, Resuming
<1>8. CASE AtPrompt /\ NoEffect
    BY <1>8, NoEffectKeeps
<1> QED
    BY <1>1, <1>2, <1>3, <1>4, <1>5, <1>6, <1>7, <1>8 DEF Dispatch, help, list

\* The traced process and the debugger's waiting change no breakpoint either; while
\* the debugger does not wait the process stays where it is.
LEMMA BackgroundKeeps ==
    ASSUME Inv, EndIsFinal, eof, Background
    PROVE  Kept(line) /\ (line \notin Resuming => pc' # "waiting")
<1>1. UNCHANGED <<addr_list, program_name>>
    BY DEF Background, check_process, check_exited, check_signaled, check_sigstop,
           check_hit, check_before, check_step, check_lost, check_unshown, NoHandle,
           Exec, ExecInt3, ExecInsn, ExecGarbage, SignalStop, Kill, Over, NoEffect,
           Error, vars, debugger
<1>2. ASSUME line \notin Resuming PROVE UNCHANGED <<rip, mem, starts>> /\ pc' # "waiting"
    <2>1. pc # "waiting"
        BY <1>2 DEF EndIsFinal
    <2>2. ~check_process
        BY <2>1 DEF check_process, check_exited, check_signaled, check_sigstop,
                    check_hit, check_before, check_step, check_lost, check_unshown,
                    Trapped
    <2>3. ~(Exec \/ SignalStop)
        BY <2>1 DEF Inv, Lockstep, Exec, ExecInt3, ExecInsn, ExecGarbage, SignalStop
    <2>4. Kill \/ Over
        BY <2>2, <2>3 DEF Background
    <2> QED
        BY <2>1, <2>4 DEF Kill, Over, NoEffect, vars, process
<1> QED
    BY <1>1, <1>2 DEF Kept

\* Once the end of the standard input was met no step of loop, debugger or process
\* changes what Kept says, and the end stays met.
LEMMA EndStep ==
    ASSUME EndIsFinal, Inv, [ShellNext]_shellVars
    PROVE  EndIsFinal' /\ (eof' => Kept(line'))
<1>1. CASE Arguments \/ ReadLine \/ ScriptEnd
    <2>1. eof' = eof
        BY <1>1 DEF Arguments, ReadLine, ScriptEnd, shell
    <2>2. ~(left = 0 /\ input = "stdin")
        BY <1>1 DEF Arguments, ReadLine, ScriptEnd
    <2> QED
        BY <2>1, <2>2 DEF EndIsFinal
<1>2. CASE StdinEnd
    BY <1>2, BareKeeps DEF StdinEnd, EndIsFinal, KeptAtPrompt
<1>3. CASE StdinEmpty
    BY <1>3, NoEffectKeeps, ErrorKeeps DEF StdinEmpty, EndIsFinal, KeptAtPrompt
<1>4. CASE Background
    <2>1. UNCHANGED <<input, left, line, eof>>
        BY <1>4 DEF Background, shell
    <2> QED
        BY <1>4, <2>1, BackgroundKeeps DEF EndIsFinal
<1>5. CASE UNCHANGED shellVars
    BY <1>5 DEF EndIsFinal, Kept, shellVars, shell, vars, debugger, process
<1> QED
    BY <1>1, <1>2, <1>3, <1>4, <1>5 DEF ShellNext

\* At the end of the standard input the loop repeats its last command without the
\* arguments: no breakpoint and no program name changes, however long it goes on,
\* and unless it is one of Resuming the process stays at its instruction.
THEOREM EofHarmlessHolds == ShellSpec => EofHarmless
<1>1. ShellInit => EndIsFinal
    BY DEF ShellInit, EndIsFinal
<1>2. EndIsFinal /\ Inv /\ [ShellNext]_shellVars
         => EndIsFinal' /\ [eof' => Kept(line')]_shellVars
    BY EndStep
<1>3. ShellSpec => []Inv
    BY ShellUsesSdb, InvHolds, PTL DEF UsesSdb
<1> QED
    BY <1>1, <1>2, <1>3, PTL DEF ShellSpec, EofHarmless, Kept
=============================================================================
