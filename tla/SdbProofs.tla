----------------------------- MODULE SdbProofs -----------------------------
(***************************************************************************)
(* What TLAPS proves of the debugger, for every program, every set of      *)
(* commands and every fault: type correctness and the invariants of its    *)
(* bookkeeping (Inv), and, for breakpoints that keep a word's distance,    *)
(* that each of them stays armed.                                          *)
(***************************************************************************)
EXTENDS Sdb, TLAPS

-----------------------------------------------------------------------------
(* The text of a process under ptrace. *)

\* A word read by PTRACE_PEEKTEXT, or the -1 of a failed read, is a word.
LEMMA PeekType ==
    ASSUME NEW m \in [Mapped -> Byte], NEW a \in Int
    PROVE  Peek(m, a) \in Word
BY TextAssumption DEF Peek, Accessible, Span, Offsets, Word, MinusOne, Byte

\* (w & ~0xff) | x is a word.
LEMMA WithLowByteType ==
    ASSUME NEW w \in Word, NEW x \in Byte
    PROVE  /\ WithLowByte(w, x) \in Word
           /\ WithLowByte(w, x)[0] = x
BY TextAssumption DEF WithLowByte, Word, Offsets

\* PTRACE_POKETEXT leaves a text, and changes the word at a and nothing else.
LEMMA PokeType ==
    ASSUME NEW m \in [Mapped -> Byte], NEW a \in Int, NEW w \in Word
    PROVE  Poke(m, a, w) \in [Mapped -> Byte]
BY TextAssumption DEF Poke, Span, Word, Offsets

\* The byte at a is the low byte of the word; bytes outside the word stay.
LEMMA PokeBytes ==
    ASSUME NEW m \in [Mapped -> Byte], NEW a \in Int, NEW w \in Word,
           NEW b \in Mapped
    PROVE  /\ b = a => Poke(m, a, w)[b] = w[0]
           /\ b \notin Span(a) => Poke(m, a, w)[b] = m[b]
BY TextAssumption DEF Poke, Span, Word, Offsets

\* 0xcc is a byte.
LEMMA Int3IsByte == INT3 \in Byte
BY DEF INT3, Byte

\* The 0 that resets pre_val is a word.
LEMMA ZeroWordType == ZeroWord \in Word
BY DEF ZeroWord, Word, Offsets, Byte

-----------------------------------------------------------------------------
(* The shared pieces of the commands keep the text and the saved word typed. *)

\* si and cont leave a text when they put the original word back.
LEMMA UnpatchedType ==
    ASSUME TypeOK, NEW m \in [Mapped -> Byte]
    PROVE  Unpatched(m) \in [Mapped -> Byte]
<1>1. pre_addr \in Int /\ pre_val \in Word
    BY DEF TypeOK
<1>2. Poke(m, pre_addr, pre_val) \in [Mapped -> Byte]
    BY <1>1, PokeType
<1> QED
    BY <1>2 DEF Unpatched

\* restore_bp leaves a text.
LEMMA RestoreType ==
    ASSUME TypeOK
    PROVE  restore_bp(mem) \in [Mapped -> Byte]
<1>1. Peek(mem, pre_addr) \in Word
    BY PeekType DEF TypeOK
<1>2. WithLowByte(Peek(mem, pre_addr), INT3) \in Word
    BY <1>1, WithLowByteType, Int3IsByte
<1>3. Poke(mem, pre_addr, WithLowByte(Peek(mem, pre_addr), INT3)) \in [Mapped -> Byte]
    BY <1>2, PokeType DEF TypeOK
<1> QED
    BY <1>3 DEF restore_bp, TypeOK

\* The loop of start() over addr_list leaves a text.
LEMMA RearmedType ==
    ASSUME TypeOK
    PROVE  Rearmed \in [Mapped -> Byte]
<1> DEFINE w == WithLowByte(Peek(Code, pre_addr), INT3)
           writers(b) == {a \in DOMAIN addr_list : IsLastWriter(a, b)}
<1>1. Peek(Code, pre_addr) \in Word
    BY PeekType, TextAssumption DEF TypeOK
<1>2. w \in Word
    BY <1>1, WithLowByteType, Int3IsByte
<1>3. ASSUME NEW b \in Mapped, writers(b) # {}
      PROVE  w[b - CHOOSE a \in writers(b) : TRUE] \in Byte
    <2> DEFINE c == CHOOSE a \in writers(b) : TRUE
    <2>1. c \in writers(b)
        BY <1>3
    <2>2. c \in BreakArgs /\ b \in Span(c)
        BY <2>1 DEF TypeOK, IsLastWriter
    <2>3. b \in Nat /\ c \in Nat /\ WordSize \in Nat
        BY <2>2, TextAssumption, SdbAssumption
    <2> HIDE DEF c
    <2>4. b - c \in Offsets
        BY <2>2, <2>3 DEF Span, Offsets
    <2> QED
        BY <2>4, <1>2 DEF Word, c
<1>4. ASSUME NEW b \in Mapped
      PROVE  Code[b] \in Byte
    BY TextAssumption
<1> HIDE DEF w
<1> QED
    BY <1>3, <1>4 DEF Rearmed, w

-----------------------------------------------------------------------------
(* Type correctness. *)

\* The constructor of SDB leaves typed members.
LEMMA InitType == Init => TypeOK
BY ZeroWordType, TextAssumption, SdbAssumption
   DEF Init, TypeOK, FileKinds, ChildStatus

\* The ERROR exit keeps the types.
LEMMA ErrorType ==
    ASSUME TypeOK, Error
    PROVE  TypeOK'
BY DEF TypeOK, Error, debugger, KilledWithTracer, Alive, ChildStatus

\* A refused command keeps the types.
LEMMA NoEffectType ==
    ASSUME TypeOK, NoEffect
    PROVE  TypeOK'
BY DEF TypeOK, NoEffect, vars, debugger, process

\* vmmap leaves a file open, and the debugger and its process as they are.
Leak ==
    /\ leaked < MaxFiles
    /\ leaked' = leaked + 1
    /\ UNCHANGED <<state, program_name, pid, addr_list, pre_addr, pre_val, pc, process>>

\* It keeps the types.
LEMMA LeakType ==
    ASSUME TypeOK, Leak
    PROVE  TypeOK'
BY SdbAssumption DEF TypeOK, Leak, process

\* The commands that change nothing of debugger and process, unless they end them.
Passive ==
    \/ set_other \/ get \/ getregs \/ vmmap
    \/ disasm \/ dump \/ list \/ help \/ Over

\* Such a command has no effect, leaves a file open or takes the ERROR exit.
LEMMA PassiveOutcome ==
    ASSUME Passive
    PROVE  NoEffect \/ Leak \/ Error
BY DEF Passive, set_other, KilledBetween, get, getregs, read_regs, vmmap, Leak,
       disasm, NoHandle, dump, list, help, Over

\* start and run, with the text they leave in the new process.
LEMMA LaunchType ==
    ASSUME TypeOK,
           NEW image \in [Mapped -> Byte],
           NEW status \in ChildStatus,
           NEW next \in {"prompt", "waiting"},
           Launch(image, status, next)
    PROVE  TypeOK'
<1>1. CASE Error
    BY <1>1, ErrorType
<1>2. CASE ~Error
    BY <1>2, SdbAssumption DEF TypeOK, Launch
<1> QED
    BY <1>1, <1>2

\* si, cont and run on a process that is there.
LEMMA ResumeType ==
    ASSUME TypeOK,
           NEW status \in ChildStatus,
           Resume(status)
    PROVE  TypeOK'
<1>1. CASE Error
    BY <1>1, ErrorType
<1>2. CASE ~Error
    <2>1. mem' \in [Mapped -> Byte]
        BY <1>2, UnpatchedType DEF Resume, KilledBetween, TypeOK
    <2> QED
        BY <1>2, <2>1 DEF TypeOK, Resume, KilledBetween, debugger
<1> QED
    BY <1>1, <1>2

\* Each command, each step of check_process and each step of the process
\* keeps the types: rip - 1 stays a natural number because it is a breakpoint.
LEMMA TypeStep ==
    ASSUME TypeOK, [Next]_vars
    PROVE  TypeOK'
<1> USE DEF debugger, process
<1>1. ASSUME NEW file \in Files, load(file) PROVE TypeOK'
    BY <1>1, NoEffectType, SdbAssumption DEF load, TypeOK
<1>2. CASE start
    BY <1>2, NoEffectType, LaunchType, RearmedType DEF start, ChildStatus
<1>3. CASE si
    BY <1>3, NoEffectType, ResumeType DEF si, ChildStatus
<1>4. CASE cont
    BY <1>4, NoEffectType, ResumeType DEF cont, ChildStatus
<1>5. CASE run
    BY <1>5, NoEffectType, ResumeType, LaunchType, RearmedType, UnpatchedType
       DEF run, ChildStatus
<1>6. ASSUME NEW addr \in BreakArgs, set_break(addr) PROVE TypeOK'
    <2>1. CASE Error \/ NoEffect
        BY <2>1, ErrorType, NoEffectType
    <2>2. CASE ~(Error \/ NoEffect)
        <3>1. Peek(mem, addr) \in Word
            BY PeekType, SdbAssumption DEF TypeOK
        <3>2. WithLowByte(Peek(mem, addr), INT3) \in Word
            BY <3>1, WithLowByteType, Int3IsByte
        <3>3. mem' \in [Mapped -> Byte]
            BY <2>2, <3>2, <1>6, PokeType, SdbAssumption DEF set_break, KilledBetween, TypeOK
        <3>4. /\ DOMAIN addr_list' = DOMAIN addr_list \cup {addr}
              /\ \A a \in DOMAIN addr_list' : addr_list'[a] \in Word
            BY <2>2, <3>1, <1>6 DEF set_break, KilledBetween, TypeOK
        <3> QED
            BY <2>2, <3>3, <3>4, <1>6 DEF set_break, KilledBetween, TypeOK
    <2> QED
        BY <2>1, <2>2
<1>7. ASSUME NEW id \in DeleteArgs, del(id) PROVE TypeOK'
    <2>1. CASE Error \/ NoEffect
        BY <2>1, ErrorType, NoEffectType
    <2>2. CASE ~(Error \/ NoEffect)
        <3>1. PICK addr \in DOMAIN addr_list :
                 /\ mem' = Poke(mem, addr, addr_list[addr])
                 /\ addr_list' = [a \in DOMAIN addr_list \ {addr} |-> addr_list[a]]
            BY <2>2, <1>7 DEF del
        <3>2. addr \in Int
            <4>1. addr \in BreakArgs
                BY DEF TypeOK
            <4> QED
                BY <4>1, SdbAssumption
        <3>3. addr_list[addr] \in Word /\ mem \in [Mapped -> Byte]
            BY DEF TypeOK
        <3>4. mem' \in [Mapped -> Byte]
            BY <3>1, <3>2, <3>3, PokeType
        <3> QED
            BY <2>2, <3>1, <3>4, <1>7 DEF del, TypeOK
    <2> QED
        BY <2>1, <2>2
<1>8. ASSUME NEW val \in RipArgs, set_rip(val) PROVE TypeOK'
    BY <1>8, ErrorType, ZeroWordType, SdbAssumption DEF set_rip, KilledBetween, TypeOK
<1>9. CASE Passive
    BY <1>9, ErrorType, NoEffectType, LeakType, PassiveOutcome
<1>10. CASE quit
    BY <1>10 DEF quit, TypeOK, KilledWithTracer, Alive, ChildStatus
<1>11. CASE check_exited
    BY <1>11, ZeroWordType, SdbAssumption DEF check_exited, TypeOK, ChildStatus
<1>12. CASE check_signaled
    BY <1>12 DEF check_signaled, TypeOK, ChildStatus
<1>13. CASE check_sigstop
    BY <1>13 DEF check_sigstop, TypeOK
<1>14. CASE check_hit
    <2>1. rip - 1 \in Nat
        BY <1>14, SdbAssumption DEF check_hit, TypeOK
    <2>2. addr_list[rip - 1][0] \in Byte
        BY <1>14, TextAssumption DEF check_hit, TypeOK, Word, Offsets
    <2>3. Peek(restore_bp(mem), rip - 1) \in Word
        BY <2>1, RestoreType, PeekType
    <2>4. pre_val' \in Word
        BY <1>14, <2>2, <2>3, WithLowByteType DEF check_hit
    <2> QED
        BY <1>14, <2>1, <2>4, RestoreType DEF check_hit, TypeOK
<1>15. CASE check_before
    BY <1>15, RestoreType DEF check_before, TypeOK, ChildStatus
<1>16. CASE check_step
    BY <1>16, RestoreType DEF check_step, TypeOK
<1>17. CASE check_lost \/ check_unshown
    BY <1>17, ErrorType DEF check_lost, check_unshown, NoHandle
<1>18. CASE ExecInt3
    BY <1>18 DEF ExecInt3, StoppedBy, TypeOK, ChildStatus
<1>19. ASSUME NEW next \in Insns \cup {EXIT}, GoTo(next)
       PROVE  /\ rip' \in Nat
              /\ child' \in ChildStatus
              /\ why' \in {"int3", "step", "sig", "none"}
    BY <1>19, SdbAssumption DEF GoTo, Stepped, TypeOK, ChildStatus, EXIT
<1>20. CASE ExecInsn
    BY <1>20, <1>19, SdbAssumption DEF ExecInsn, Genuine, TypeOK
<1>21. CASE ExecGarbage
    BY <1>21, <1>19 DEF ExecGarbage, StoppedBy, TypeOK, ChildStatus
<1>22. CASE SignalStop
    BY <1>22 DEF SignalStop, StoppedBy, TypeOK, ChildStatus
<1>23. CASE Kill
    BY <1>23 DEF Kill, TypeOK, ChildStatus
<1>24. CASE UNCHANGED vars
    BY <1>24, NoEffectType DEF NoEffect
<1> QED
    BY <1>1, <1>2, <1>3, <1>4, <1>5, <1>6, <1>7, <1>8, <1>9, <1>10, <1>11, <1>12,
       <1>13, <1>14, <1>15, <1>16, <1>17, <1>18, <1>20, <1>21, <1>22, <1>23, <1>24
    DEF Next, Command, Passive, check_process, Exec

\* No sequence of commands, traps and faults takes a member of class SDB, the
\* text of the process or its status out of its type; in particular pid is 0
\* or the number of a process that was started.
THEOREM TypeCorrect == Spec => []TypeOK
<1>1. TypeOK /\ [Next]_vars => TypeOK'
    BY TypeStep
<1> QED
    BY InitType, <1>1, PTL DEF Spec

-----------------------------------------------------------------------------
(* The bookkeeping of the debugger, whatever the user types. *)

\* Two facts that IdleClean and StepsOverCurrent rest on: instructions are
\* executed only while the debugger is blocked in waitpid, so nothing moves
\* under a command; and a live process is one the debugger takes to be running.
\* The last conjunct bounds what may be poked back: pre_addr was a breakpoint.
Lockstep ==
    /\ Executing => pc = "waiting"
    /\ Alive => state = "RUNNING"
    /\ pre_addr \in BreakArgs \cup {0}

Inv == TypeOK /\ IdleClean /\ StepsOverCurrent /\ Lockstep

\* Inv without the types is kept by every step.
LEMMA InvStep ==
    ASSUME Inv, [Next]_vars
    PROVE  Inv'
<1> DEFINE Books == IdleClean /\ StepsOverCurrent /\ Lockstep
<1> USE DEF debugger, process
<1>0. TypeOK /\ TypeOK'
    BY TypeStep DEF Inv
<1>1. SUFFICES Books'
    BY <1>0 DEF Inv
<1> USE DEF Inv, IdleClean, StepsOverCurrent, Lockstep, Alive, Executing
<1>2. ASSUME NoEffect PROVE Books'
    BY <1>2 DEF NoEffect, vars
<1>29. ASSUME Leak PROVE Books'
    BY <1>29 DEF Leak
<1>3. ASSUME Error PROVE Books'
    BY <1>3 DEF Error, KilledWithTracer
<1>4. ASSUME NEW file \in Files, load(file) PROVE Books'
    BY <1>4, <1>2 DEF load
<1>5. ASSUME NEW image, NEW status, NEW next, Launch(image, status, next),
             AtPrompt, state = "LOADED",
             \/ status = "stopped" /\ next = "prompt"
             \/ status = "resumed" /\ next = "waiting"
      PROVE  Books'
    BY <1>5, <1>3 DEF Launch
<1>6. CASE start
    BY <1>6, <1>2, <1>5 DEF start
<1>7. ASSUME NEW status \in {"resumed", "stepping"}, Resume(status), state = "RUNNING"
      PROVE  Books'
    BY <1>7, <1>3 DEF Resume, KilledBetween
<1>8. CASE si
    BY <1>8, <1>2, <1>7 DEF si
<1>9. CASE cont
    BY <1>9, <1>2, <1>7 DEF cont
<1>10. CASE run
    BY <1>10, <1>2, <1>5, <1>7 DEF run
<1>11. ASSUME NEW addr \in BreakArgs, set_break(addr) PROVE Books'
    BY <1>11, <1>2, <1>3 DEF set_break, KilledBetween
<1>12. ASSUME NEW id \in DeleteArgs, del(id) PROVE Books'
    BY <1>12, <1>2, <1>3 DEF del
<1>13. ASSUME NEW val \in RipArgs, set_rip(val) PROVE Books'
    BY <1>13, <1>3 DEF set_rip, KilledBetween
<1>14. CASE Passive
    BY <1>14, <1>2, <1>29, <1>3, PassiveOutcome
<1>15. CASE quit
    BY <1>15 DEF quit, KilledWithTracer
<1>16. CASE check_exited
    BY <1>16 DEF check_exited
<1>17. CASE check_signaled
    BY <1>17 DEF check_signaled
<1>18. CASE check_sigstop
    BY <1>18 DEF check_sigstop
<1>19. CASE check_hit
    BY <1>19 DEF check_hit, Trapped, TypeOK
<1>20. CASE check_before
    BY <1>20 DEF check_before, Trapped
<1>21. CASE check_step
    BY <1>21 DEF check_step, Trapped
<1>22. CASE check_lost \/ check_unshown
    BY <1>22, <1>3 DEF check_lost, check_unshown, NoHandle
<1>23. CASE ExecInt3
    BY <1>23 DEF ExecInt3, StoppedBy
<1>24. CASE ExecInsn
    BY <1>24 DEF ExecInsn, GoTo, Stepped
<1>25. CASE ExecGarbage
    BY <1>25 DEF ExecGarbage, GoTo, Stepped, StoppedBy
<1>26. CASE SignalStop
    BY <1>26 DEF SignalStop, StoppedBy
<1>27. CASE Kill
    BY <1>27 DEF Kill
<1>28. CASE UNCHANGED vars
    BY <1>28, <1>2 DEF NoEffect
<1> QED
    BY <1>4, <1>6, <1>8, <1>9, <1>10, <1>11, <1>12, <1>13, <1>14, <1>15, <1>16,
       <1>17, <1>18, <1>19, <1>20, <1>21, <1>22, <1>23, <1>24, <1>25, <1>26,
       <1>27, <1>28
    DEF Next, Command, Passive, check_process, Exec

\* The invariant holds in the debugger just constructed.
LEMMA InvInit == Init => Inv
BY InitType DEF Init, Inv, IdleClean, StepsOverCurrent, Lockstep, Alive, Executing

\* The bookkeeping invariant holds of every behaviour of the debugger.
THEOREM InvHolds == Spec => []Inv
<1>1. Inv /\ [Next]_vars => Inv'
    BY InvStep
<1> QED
    BY InvInit, <1>1, PTL DEF Spec

\* Whenever no program runs, pid is 0 and no breakpoint is left to step over:
\* what start() and quit() rely on, after any number of runs, kills and errors.
THEOREM IdleCleanHolds == Spec => []IdleClean
<1>1. Inv => IdleClean
    BY DEF Inv
<1> QED
    BY InvHolds, <1>1, PTL

\* At the prompt, the breakpoint si and cont are about to step over is the
\* instruction at rip, unless a signal stopped the process, set rip included.
THEOREM StepsOverCurrentHolds == Spec => []StepsOverCurrent
<1>1. Inv => StepsOverCurrent
    BY DEF Inv
<1> QED
    BY InvHolds, <1>1, PTL

-----------------------------------------------------------------------------
(* Breakpoints that keep a word's distance stay armed. *)

\* No breakpoint the user sets lies in the word that ptrace writes for another.
Spaced == \A a, b \in BreakArgs : a # b => b \notin Span(a)

\* A breakpoint got on the list because its word could be written, and the
\* mapping is the same in every run.
ListAccessible == \A a \in DOMAIN addr_list : Accessible(a)

\* A breakpoint whose word can be accessed is itself mapped.
LEMMA AccessibleMapped ==
    ASSUME NEW a \in Int, Accessible(a)
    PROVE  a \in Mapped /\ a \in Span(a)
BY TextAssumption DEF Accessible, Span

\* Breakpoint addresses are numbers.
LEMMA BreakArgsInt == BreakArgs \subseteq Int
BY SdbAssumption

\* Writing the word of one breakpoint leaves the byte of another alone.
LEMMA PokeSpaced ==
    ASSUME Spaced,
           NEW m \in [Mapped -> Byte], NEW w \in Word,
           NEW c \in BreakArgs, NEW a \in BreakArgs, a # c, a \in Mapped
    PROVE  Poke(m, c, w)[a] = m[a]
BY PokeBytes, BreakArgsInt DEF Spaced

\* restore_bp arms the breakpoint stepped over and leaves the others armed.
LEMMA RestoreArms ==
    ASSUME Spaced, Inv, ListAccessible, Armed, Alive,
           NEW a \in DOMAIN addr_list
    PROVE  restore_bp(mem)[a] = INT3
<1> DEFINE w == WithLowByte(Peek(mem, pre_addr), INT3)
<1>1. a \in BreakArgs /\ mem \in [Mapped -> Byte]
    BY DEF Inv, TypeOK
<1>2. a \in Int /\ a \in Mapped
    BY <1>1, BreakArgsInt, AccessibleMapped DEF ListAccessible
<1>3. Peek(mem, pre_addr) \in Word
    BY PeekType DEF Inv, TypeOK
<1>4. w \in Word /\ w[0] = INT3
    BY <1>3, WithLowByteType, Int3IsByte
<1> HIDE DEF w
<1>5. CASE pre_addr = 0
    <2>1. a # pre_addr
        BY <1>1, <1>5, SdbAssumption
    <2> QED
        BY <2>1, <1>5 DEF restore_bp, Armed
<1>6. CASE pre_addr # 0 /\ a = pre_addr
    <2>1. Poke(mem, pre_addr, w)[a] = w[0]
        BY <1>1, <1>2, <1>4, <1>6, PokeBytes
    <2> QED
        BY <2>1, <1>4, <1>6 DEF restore_bp, w
<1>7. CASE pre_addr # 0 /\ a # pre_addr
    <2>1. pre_addr \in BreakArgs
        BY <1>7 DEF Inv, Lockstep
    <2>2. Poke(mem, pre_addr, w)[a] = mem[a]
        BY <1>1, <1>2, <1>4, <1>7, <2>1, PokeSpaced
    <2> QED
        BY <2>2, <1>7 DEF restore_bp, Armed, w
<1> QED
    BY <1>5, <1>6, <1>7

\* start() arms every breakpoint of the list in the new process.
LEMMA RearmedArms ==
    ASSUME Spaced, Inv, ListAccessible,
           NEW a \in DOMAIN addr_list
    PROVE  Rearmed[a] = INT3
<1> DEFINE w == WithLowByte(Peek(Code, pre_addr), INT3)
           writers(b) == {x \in DOMAIN addr_list : IsLastWriter(x, b)}
<1>1. a \in BreakArgs /\ DOMAIN addr_list \subseteq BreakArgs
    BY DEF Inv, TypeOK
<1>2. a \in Int /\ a \in Mapped /\ a \in Span(a)
    BY <1>1, BreakArgsInt, AccessibleMapped DEF ListAccessible
<1>3. \A x \in DOMAIN addr_list : a \in Span(x) => x = a
    BY <1>1 DEF Spaced
<1>4. writers(a) = {a}
    BY <1>2, <1>3 DEF IsLastWriter
<1>5. (CHOOSE x \in writers(a) : TRUE) = a
    BY <1>4
<1>6. Peek(Code, pre_addr) \in Word
    BY PeekType, TextAssumption DEF Inv, TypeOK
<1>7. w[0] = INT3
    BY <1>6, WithLowByteType, Int3IsByte
<1>8. Rearmed[a] = w[a - CHOOSE x \in writers(a) : TRUE]
    BY <1>2, <1>4 DEF Rearmed
<1>9. a - a = 0
    BY <1>2
<1> HIDE DEF w, writers
<1> QED
    BY <1>5, <1>7, <1>8, <1>9

\* The inductive invariant behind ArmedHolds.
ArmedInv == Inv /\ ListAccessible /\ Armed

\* Every step keeps the spaced breakpoints armed, if rip is never set.
LEMMA ArmedStep ==
    ASSUME Spaced, RipArgs = {}, ArmedInv, [Next]_vars
    PROVE  ArmedInv'
<1> DEFINE Kept == ListAccessible /\ Armed
<1> USE DEF debugger, process
<1>0. /\ Inv /\ Inv' /\ TypeOK /\ Kept
      /\ DOMAIN addr_list \subseteq BreakArgs
    BY InvStep DEF ArmedInv, Inv, TypeOK
<1>1. SUFFICES Kept'
    BY <1>0 DEF ArmedInv
<1>2. \A a \in DOMAIN addr_list : a \in Mapped
    BY <1>0, BreakArgsInt, AccessibleMapped DEF ListAccessible
<1>3. ASSUME UNCHANGED <<addr_list, pre_addr, mem>>, Alive' => Alive PROVE Kept'
    BY <1>3, <1>0 DEF ListAccessible, Armed, Alive
<1>4. ASSUME UNCHANGED addr_list, ~Alive' PROVE Kept'
    BY <1>4, <1>0 DEF ListAccessible, Armed
<1>5. ASSUME NoEffect PROVE Kept'
    BY <1>5, <1>3 DEF NoEffect, vars, Alive
<1>25. ASSUME Leak PROVE Kept'
    BY <1>25, <1>3 DEF Leak, Alive
<1>6. ASSUME Error PROVE Kept'
    BY <1>6, <1>4 DEF Error, KilledWithTracer, Alive
<1>7. ASSUME NEW file \in Files, load(file) PROVE Kept'
    BY <1>7, <1>5, <1>3 DEF load, Alive
<1>8. ASSUME NEW image, NEW status, NEW next, Launch(image, status, next),
             \A a \in DOMAIN addr_list : image[a] = INT3
      PROVE  Kept'
    BY <1>8, <1>6, <1>0 DEF Launch, ListAccessible, Armed
<1>9. CASE start
    BY <1>9, <1>5, <1>8, <1>0, RearmedArms DEF start
<1>10. ASSUME NEW status, Resume(status) PROVE Kept'
    <2>1. CASE Error
        BY <2>1, <1>6
    <2>2. CASE ~Error
        <3>1. /\ mem' = Unpatched(mem)
              /\ UNCHANGED <<addr_list, pre_addr>>
              /\ Alive
            BY <2>2, <1>10 DEF Resume, KilledBetween, Alive
        <3>2. ASSUME NEW a \in DOMAIN addr_list, a # pre_addr
              PROVE  Unpatched(mem)[a] = INT3
            <4>1. mem[a] = INT3
                BY <3>1, <3>2, <1>0 DEF Armed
            <4>2. CASE pre_addr = 0
                BY <4>1, <4>2 DEF Unpatched
            <4>3. CASE pre_addr # 0
                <5>1. pre_addr \in BreakArgs /\ a \in BreakArgs /\ a \in Mapped
                    BY <4>3, <1>0, <1>2 DEF Inv, Lockstep
                <5>2. pre_val \in Word /\ mem \in [Mapped -> Byte]
                    BY <1>0 DEF TypeOK
                <5>3. Poke(mem, pre_addr, pre_val)[a] = mem[a]
                    BY <5>1, <5>2, <3>2, PokeSpaced
                <5> QED
                    BY <5>3, <4>1, <4>3 DEF Unpatched
            <4> QED
                BY <4>2, <4>3
        <3> QED
            BY <3>1, <3>2, <1>0 DEF ListAccessible, Armed
    <2> QED
        BY <2>1, <2>2
<1>11. CASE si
    BY <1>11, <1>5, <1>10 DEF si
<1>12. CASE cont
    BY <1>12, <1>5, <1>10 DEF cont
<1>13. CASE run
    <2>1. state = "LOADED" => Unpatched(Rearmed) = Rearmed
        BY <1>0 DEF Inv, IdleClean, Unpatched
    <2> QED
        BY <2>1, <1>13, <1>5, <1>8, <1>10, <1>0, RearmedArms DEF run
<1>14. ASSUME NEW addr \in BreakArgs, set_break(addr) PROVE Kept'
    <2>1. CASE Error \/ NoEffect
        BY <2>1, <1>5, <1>6
    <2>2. CASE ~(Error \/ NoEffect)
        <3> DEFINE w == WithLowByte(Peek(mem, addr), INT3)
        <3>1. /\ Alive /\ Accessible(addr)
              /\ mem' = Poke(mem, addr, w)
              /\ DOMAIN addr_list' = DOMAIN addr_list \cup {addr}
              /\ pre_addr' = pre_addr
            BY <2>2, <1>14 DEF set_break, KilledBetween, Alive
        <3>2. addr \in Int /\ addr \in Mapped /\ mem \in [Mapped -> Byte]
            BY <3>1, <1>0, BreakArgsInt, AccessibleMapped DEF TypeOK
        <3>3. Peek(mem, addr) \in Word
            BY <3>2, PeekType
        <3>4. w \in Word /\ w[0] = INT3
            BY <3>3, WithLowByteType, Int3IsByte
        <3> HIDE DEF w
        <3>5. mem'[addr] = INT3
            BY <3>1, <3>2, <3>4, PokeBytes
        <3>6. ASSUME NEW a \in DOMAIN addr_list, a # addr, a # pre_addr
              PROVE  mem'[a] = INT3
            <4>1. mem[a] = INT3 /\ a \in BreakArgs /\ a \in Mapped
                BY <3>1, <3>6, <1>0, <1>2 DEF Armed
            <4>2. Poke(mem, addr, w)[a] = mem[a]
                BY <4>1, <3>2, <3>4, <3>6, PokeSpaced
            <4> QED
                BY <4>1, <4>2, <3>1
        <3> QED
            BY <3>1, <3>5, <3>6, <1>0 DEF ListAccessible, Armed
    <2> QED
        BY <2>1, <2>2
<1>15. ASSUME NEW id \in DeleteArgs, del(id) PROVE Kept'
    <2>1. CASE Error \/ NoEffect
        BY <2>1, <1>5, <1>6
    <2>2. CASE ~(Error \/ NoEffect)
        <3>1. PICK addr \in DOMAIN addr_list :
                 /\ mem' = Poke(mem, addr, addr_list[addr])
                 /\ addr_list' = [a \in DOMAIN addr_list \ {addr} |-> addr_list[a]]
            BY <2>2, <1>15 DEF del
        <3>2. Alive /\ pre_addr' = pre_addr
            BY <2>2, <1>15 DEF del, Alive
        <3>3. addr \in BreakArgs /\ addr_list[addr] \in Word /\ mem \in [Mapped -> Byte]
            BY <1>0 DEF TypeOK
        <3>4. ASSUME NEW a \in DOMAIN addr_list, a # addr, a # pre_addr
              PROVE  mem'[a] = INT3
            <4>1. mem[a] = INT3 /\ a \in BreakArgs /\ a \in Mapped
                BY <3>2, <3>4, <1>0, <1>2 DEF Armed
            <4>2. Poke(mem, addr, addr_list[addr])[a] = mem[a]
                BY <4>1, <3>3, <3>4, PokeSpaced
            <4> QED
                BY <4>1, <4>2, <3>1
        <3> QED
            BY <3>1, <3>2, <3>4, <1>0 DEF ListAccessible, Armed
    <2> QED
        BY <2>1, <2>2
<1>16. CASE Passive
    BY <1>16, <1>5, <1>25, <1>6, PassiveOutcome
<1>17. CASE quit
    BY <1>17, <1>4 DEF quit, KilledWithTracer, Alive
<1>18. CASE check_exited \/ check_signaled
    BY <1>18, <1>4 DEF check_exited, check_signaled, Alive
<1>19. CASE check_sigstop
    BY <1>19, <1>3 DEF check_sigstop, Alive
<1>20. CASE check_hit \/ check_before \/ check_step
    <2>1. Alive /\ mem' = restore_bp(mem) /\ addr_list' = addr_list
        BY <1>20 DEF check_hit, check_before, check_step, Trapped, Alive
    <2> QED
        BY <2>1, <1>0, RestoreArms DEF ListAccessible, Armed
<1>21. CASE check_lost \/ check_unshown
    BY <1>21, <1>6 DEF check_lost, check_unshown, NoHandle
<1>22. CASE Exec \/ SignalStop
    BY <1>22, <1>3
       DEF Exec, ExecInt3, ExecInsn, ExecGarbage, SignalStop, Executing, Alive
<1>23. CASE Kill
    BY <1>23, <1>4 DEF Kill, Alive
<1>24. CASE UNCHANGED vars
    BY <1>24, <1>5 DEF NoEffect
<1> QED
    BY <1>7, <1>9, <1>11, <1>12, <1>13, <1>14, <1>15, <1>16, <1>17, <1>18, <1>19,
       <1>20, <1>21, <1>22, <1>23, <1>24
    DEF Next, Command, Passive, check_process

\* For breakpoints at least a word apart and a user who leaves rip alone: in
\* every run of any program, under signals, kills, restarts and deletions, each
\* breakpoint on the list is armed, but for the one being stepped over.
THEOREM ArmedHolds ==
    ASSUME Spaced, RipArgs = {}
    PROVE  Spec => []Armed
<1>1. Init => ArmedInv
    BY InvInit DEF Init, ArmedInv, ListAccessible, Armed, Alive
<1>2. ArmedInv /\ [Next]_vars => ArmedInv'
    BY ArmedStep
<1>3. ArmedInv => Armed
    BY DEF ArmedInv
<1> QED
    BY <1>1, <1>2, <1>3, PTL DEF Spec

-----------------------------------------------------------------------------
(* One process, which the debugger never loses track of. *)

\* The inductive invariant: no instruction is executed for a debugger that has ended.
OneInv == Inv /\ OneProcess

\* Every step keeps it: only start and run make a process, in state LOADED, and
\* only the step that collects it leaves RUNNING.
LEMMA OneStep ==
    ASSUME OneInv, [Next]_vars
    PROVE  OneInv'
<1> USE DEF debugger, process
<1>0. Inv /\ Inv' /\ TypeOK
    BY InvStep DEF OneInv, Inv
<1>1. SUFFICES OneProcess'
    BY <1>0 DEF OneInv
<1> USE DEF OneInv, OneProcess, Alive
<1>2. ASSUME NoEffect \/ Leak PROVE OneProcess'
    BY <1>2 DEF NoEffect, Leak, vars
<1>3. ASSUME Error PROVE OneProcess'
    BY <1>3 DEF Error, KilledWithTracer
<1>4. ASSUME NEW file \in Files, load(file) PROVE OneProcess'
    BY <1>4, <1>2 DEF load, AtPrompt
<1>5. ASSUME NEW image, NEW status, NEW next \in {"prompt", "waiting"},
             Launch(image, status, next)
      PROVE  OneProcess'
    BY <1>5, <1>3 DEF Launch
<1>6. ASSUME NEW status, AtPrompt, Resume(status) PROVE OneProcess'
    BY <1>6, <1>3 DEF Resume, KilledBetween, AtPrompt
<1>7. CASE start \/ si \/ cont \/ run
    BY <1>7, <1>2, <1>5, <1>6 DEF start, si, cont, run
<1>8. ASSUME NEW addr \in BreakArgs, set_break(addr) PROVE OneProcess'
    BY <1>8, <1>2, <1>3 DEF set_break, KilledBetween
<1>9. ASSUME NEW id \in DeleteArgs, del(id) PROVE OneProcess'
    BY <1>9, <1>2, <1>3 DEF del
<1>10. ASSUME NEW val \in RipArgs, set_rip(val) PROVE OneProcess'
    BY <1>10, <1>3 DEF set_rip, KilledBetween
<1>11. CASE Passive
    BY <1>11, <1>2, <1>3, PassiveOutcome
<1>12. CASE quit
    BY <1>12 DEF quit, KilledWithTracer
<1>13. CASE check_exited \/ check_signaled \/ check_sigstop
    BY <1>13 DEF check_exited, check_signaled, check_sigstop
<1>14. CASE check_hit \/ check_before \/ check_step
    BY <1>14 DEF check_hit, check_before, check_step, Trapped
<1>15. CASE check_lost \/ check_unshown
    BY <1>15, <1>3 DEF check_lost, check_unshown, NoHandle
<1>16. CASE Exec \/ SignalStop
    <2>1. Executing /\ pc = "waiting" /\ UNCHANGED <<debugger, pc, starts>>
        BY <1>0, <1>16 DEF Exec, ExecInt3, ExecInsn, ExecGarbage, SignalStop, Inv, Lockstep
    <2> QED
        BY <2>1 DEF Executing
<1>17. CASE Kill
    BY <1>17 DEF Kill
<1>18. CASE UNCHANGED vars
    BY <1>18, <1>2 DEF NoEffect
<1> QED
    BY <1>4, <1>7, <1>8, <1>9, <1>10, <1>11, <1>12, <1>13, <1>14, <1>15, <1>16,
       <1>17, <1>18
    DEF Next, Command, Passive, check_process

\* Whatever the user types and whatever signals and kills come, a process that
\* waitpid has not collected is the one the debugger takes to be running, and none
\* outlives the debugger: every fault included.
THEOREM OneProcessHolds == Spec => []OneProcess
<1>1. Init => OneInv
    BY InvInit DEF Init, OneInv, OneProcess, Alive
<1>2. OneInv /\ [Next]_vars => OneInv'
    BY OneStep
<1>3. OneInv => OneProcess
    BY DEF OneInv
<1> QED
    BY <1>1, <1>2, <1>3, PTL DEF Spec

-----------------------------------------------------------------------------
(* Commands on a stopped process do not end the debugger. *)

\* If the whole word at every address of the text section can be accessed (the
\* section does not end in the last seven bytes of its mapping), nobody else kills
\* the process and the disassembler works, a debugger that can still open a file
\* takes the ERROR exit at no command typed while the process is stopped.
THEOREM StoppedSurvivesHolds ==
    ASSUME \A a \in BreakArgs : in_text(a) => Accessible(a),
           Faults \cap {"kill", "cs_open"} = {}
    PROVE  Spec => StoppedSurvives
<1> DEFINE Safe == pc = "prompt" /\ child = "stopped" /\ leaked < MaxFiles => pc' # "failed"
<1>1. ASSUME Inv, [Next]_vars PROVE Safe
    <2> SUFFICES ASSUME pc = "prompt", child = "stopped", leaked < MaxFiles
                 PROVE  pc' # "failed"
        OBVIOUS
    <2> USE DEF debugger, process
    <2>1. state = "RUNNING" /\ ~Executing /\ leaked # MaxFiles
        BY <1>1, SdbAssumption DEF Inv, TypeOK, Lockstep, Alive, Executing
    <2>2. ASSUME NoEffect \/ Leak PROVE pc' # "failed"
        BY <2>2 DEF NoEffect, Leak, vars
    <2>13. ~KilledBetween /\ ~NoHandle
        BY DEF KilledBetween, NoHandle
    <2>3. ASSUME NEW file \in Files, load(file) PROVE pc' # "failed"
        BY <2>3, <2>1, <2>2 DEF load
    <2>4. CASE start \/ si \/ cont \/ run
        BY <2>4, <2>1, <2>2, <2>13 DEF start, si, cont, run, Resume
    <2>5. ASSUME NEW addr \in BreakArgs, set_break(addr) PROVE pc' # "failed"
        BY <2>5, <2>2, <2>13 DEF set_break
    <2>6. ASSUME NEW id \in DeleteArgs, del(id) PROVE pc' # "failed"
        BY <2>6, <2>2 DEF del
    <2>7. ASSUME NEW val \in RipArgs, set_rip(val) PROVE pc' # "failed"
        BY <2>7, <2>13 DEF set_rip
    <2>8. CASE Passive
        BY <2>8, <2>1, <2>2, <2>13
        DEF Passive, set_other, get, getregs, read_regs, vmmap, disasm, dump, list,
            help, Over
    <2>9. CASE quit \/ Kill
        BY <2>9 DEF quit, Kill
    <2>10. CASE check_process
        BY <2>10 DEF check_process, check_exited, check_signaled, check_sigstop,
                     check_hit, check_before, check_step, check_lost, check_unshown,
                     Trapped
    <2>11. CASE Exec \/ SignalStop
        BY <2>11, <2>1 DEF Exec, ExecInt3, ExecInsn, ExecGarbage, SignalStop
    <2>12. CASE UNCHANGED vars
        BY <2>12, <2>2 DEF NoEffect
    <2> QED
        BY <1>1, <2>3, <2>4, <2>5, <2>6, <2>7, <2>8, <2>9, <2>10, <2>11, <2>12
        DEF Next, Command, Passive
<1>2. Inv /\ [Next]_vars => [Safe]_vars
    BY <1>1
<1> QED
    BY InvHolds, <1>2, PTL DEF Spec, StoppedSurvives
=============================================================================
