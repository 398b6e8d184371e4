-------------------------------- MODULE Sdb --------------------------------
(***************************************************************************)
(* The debugger of hw4: class SDB (sdb.cpp), driven by the command loop of *)
(* hw4.cpp, and the process it traces.  One action per command, each of    *)
(* them the whole method; check_process, which cont and si end in, is an   *)
(* action of its own because the traced process runs while the debugger    *)
(* is blocked in waitpid.  The traced process executes the instructions    *)
(* that its text really holds, with the breakpoint bytes the debugger      *)
(* poked into it.                                                          *)
(*                                                                         *)
(* External to src/, modelled from how sdb.cpp uses them: ptrace, waitpid, *)
(* fork/exec, the processor and the signals other processes send.          *)
(***************************************************************************)
EXTENDS PtraceText, FiniteSets

CONSTANTS
    TextStart, TextSize,  \* sh_addr and sh_size of the section header found
    Insns,                \* addresses at which the program's instructions start
    InsnLen,              \* their lengths in bytes
    Succ,                 \* where an instruction may go next; 0: the process exits
    Entry,                \* the address exec stops at
    Files,                \* the kinds of file the user loads
    BreakArgs,            \* addresses typed after break
    DeleteArgs,           \* numbers typed after delete
    RipArgs,              \* addresses typed after set rip
    Faults,               \* what the environment may do, see FaultKinds
    MaxStarts,            \* bound: how many times the program is started
    MaxFiles              \* how many more files the debugger may have open

FileKinds == {"missing", "notelf", "unrunnable", "program"}

\* "stop": a signal reaches the traced process (it stops, WSTOPSIG # SIGTRAP);
\* "kill": somebody kills it with SIGKILL; "fork": fork() fails; "cs_open": so
\* does the disassembler's cs_open().
FaultKinds == {"stop", "kill", "fork", "cs_open"}

EXIT == 0

ASSUME SdbAssumption ==
    /\ TextStart \in Nat /\ TextSize \in Nat
    /\ Insns \subseteq Nat \ {0}
    /\ InsnLen \in [Insns -> Nat \ {0}]
    /\ Succ \in [Insns -> SUBSET (Insns \cup {EXIT})]
    /\ Entry \in Insns
    /\ Files \subseteq FileKinds
    /\ BreakArgs \subseteq Nat \ {0}
    /\ DeleteArgs \subseteq Int
    /\ RipArgs \subseteq Nat \ {0}
    /\ Faults \subseteq FaultKinds
    /\ MaxStarts \in Nat
    /\ MaxFiles \in Nat

VARIABLES
    (* members of class SDB *)
    state,         \* NOT_LOADED, LOADED or RUNNING
    program_name,  \* the file given to the last load
    pid,           \* the traced process, 0 for none
    addr_list,     \* std::map: breakpoint address -> word read when it was set
    pre_addr,      \* breakpoint the process stopped at, 0 for none
    pre_val,       \* the word to put back there before resuming
    (* the debugger process *)
    leaked,        \* files it has opened and never closes
    pc,            \* "prompt", "waiting" in waitpid, "exited" or "failed"
    (* the traced process *)
    child,         \* its status, see ChildStatus
    why,           \* what stopped it: "int3", "step", "sig", or "none"
    rip,           \* its program counter
    mem,           \* its text
    starts         \* number of processes started so far

debugger == <<state, program_name, pid, addr_list, pre_addr, pre_val, leaked>>
process == <<child, why, rip, mem, starts>>
vars == <<debugger, pc, process>>

\* "resumed": PTRACE_CONT, no instruction executed yet; "exited" and
\* "signaled" are the zombies waitpid has not collected yet, "gone" is after.
ChildStatus == {"none", "stopped", "resumed", "running", "stepping",
                "exited", "signaled", "gone"}
Alive == child \in {"stopped", "resumed", "running", "stepping"}
Executing == child \in {"resumed", "running", "stepping"}

\* Faulty variant: the bound is not strict.
in_text_Inclusive(addr) == TextStart <= addr /\ addr <= TextStart + TextSize

in_text(addr) == TextStart <= addr /\ addr < TextStart + TextSize

TypeOK ==
    /\ state \in {"NOT_LOADED", "LOADED", "RUNNING"}
    /\ program_name \in FileKinds \cup {"none"}
    /\ pid \in 0..MaxStarts
    /\ DOMAIN addr_list \subseteq BreakArgs
    /\ \A a \in DOMAIN addr_list : addr_list[a] \in Word
    /\ pre_addr \in Nat
    /\ pre_val \in Word
    /\ leaked \in 0..MaxFiles
    /\ pc \in {"prompt", "waiting", "exited", "failed"}
    /\ child \in ChildStatus
    /\ why \in {"int3", "step", "sig", "none"}
    /\ rip \in Nat
    /\ mem \in [Mapped -> Byte]
    /\ starts \in 0..MaxStarts

ZeroWord == [i \in Offsets |-> 0]

Init ==
    /\ state = "NOT_LOADED"
    /\ program_name = "none"
    /\ pid = 0
    /\ addr_list = [a \in {} |-> ZeroWord]
    /\ pre_addr = 0
    /\ pre_val = ZeroWord
    /\ leaked = 0
    /\ pc = "prompt"
    /\ child = "none"
    /\ why = "none"
    /\ rip = Entry
    /\ mem = Code
    /\ starts = 0

-----------------------------------------------------------------------------
(* Pieces shared by the commands. *)

AtPrompt == pc = "prompt"

\* A command that only prints, or that its checks refuse.
NoEffect == UNCHANGED vars

\* PTRACE_O_EXITKILL: when the tracer exits the kernel kills the process.
KilledWithTracer == IF Alive THEN "signaled" ELSE child

\* The ERROR macro: message, then exit(EXIT_FAILURE).
Error ==
    /\ pc' = "failed"
    /\ child' = KilledWithTracer
    /\ UNCHANGED <<debugger, why, rip, mem, starts>>

\* The text with the original instruction back at pre_addr, as si and cont
\* leave it before they resume the process.
Unpatched(m) == IF pre_addr # 0 THEN Poke(m, pre_addr, pre_val) ELSE m

\* Faulty variant: the word is read where the process is, not at pre_addr.
restore_bp_WrongWord(m) ==
    IF pre_addr # 0
    THEN Poke(m, pre_addr, WithLowByte(Peek(m, rip), INT3))
    ELSE m

\* The text after restore_bp: the breakpoint byte is back at pre_addr.
restore_bp(m) ==
    IF pre_addr # 0
    THEN Poke(m, pre_addr, WithLowByte(Peek(m, pre_addr), INT3))
    ELSE m

\* The text of a fresh process after start() went through addr_list in
\* ascending order.  Each breakpoint is poked with the word found at pre_addr
\* (not at the breakpoint): pre_addr is 0 then (IdleClean), so the word is
\* the -1 of a failed read, and of two overlapping words the higher one wins.
IsLastWriter(a, b) ==
    /\ b \in Span(a)
    /\ \A x \in DOMAIN addr_list : b \in Span(x) => x <= a

Rearmed ==
    LET writers(b) == {a \in DOMAIN addr_list : IsLastWriter(a, b)}
    IN  [b \in Mapped |->
            IF writers(b) # {}
            THEN WithLowByte(Peek(Code, pre_addr), INT3)
                     [b - CHOOSE a \in writers(b) : TRUE]
            ELSE Code[b]]

\* The breakpoint that list prints with number id.
IsNumber(a, id) == Cardinality({x \in DOMAIN addr_list : x < a}) = id

-----------------------------------------------------------------------------
(* Commands. *)

\* load: a file that cannot be opened or is not ELF leaves state alone, but
\* program_name was already overwritten; the one that is not ELF stays open.
load(file) ==
    LET opened == file # "missing" /\ leaked < MaxFiles IN
    /\ AtPrompt
    /\ IF state # "NOT_LOADED"
       THEN NoEffect
       ELSE /\ program_name' = file
            /\ state' = IF opened /\ file # "notelf" THEN "LOADED" ELSE state
            /\ leaked' = IF opened /\ file = "notelf" THEN leaked + 1 ELSE leaked
            /\ UNCHANGED <<pid, addr_list, pre_addr, pre_val, pc, process>>

\* fork, exec, the wait for the exec stop, PTRACE_SETOPTIONS and the loop that
\* sets the breakpoints of addr_list again.  An exec that fails makes the new
\* process exit, and then PTRACE_SETOPTIONS fails, as it does, or a request
\* behind it, when somebody kills the process on the way.
Launchable ==
    /\ program_name = "program"
    /\ \A a \in DOMAIN addr_list : Accessible(a)

\* Faulty variant: the result of fork is not checked.
Launch_UncheckedFork(image, status, next) ==
    /\ starts < MaxStarts
    /\ Launchable \/ "fork" \in Faults
    /\ starts' = starts + 1
    /\ pid' = IF "fork" \in Faults THEN -1 ELSE starts + 1
    /\ state' = "RUNNING"
    /\ child' = status
    /\ why' = "none"
    /\ rip' = Entry
    /\ mem' = image
    /\ pc' = next
    /\ UNCHANGED <<program_name, addr_list, pre_addr, pre_val, leaked>>

Launch(image, status, next) ==
    /\ starts < MaxStarts
    /\ \/ /\ Launchable
          /\ starts' = starts + 1
          /\ pid' = starts + 1
          /\ state' = "RUNNING"
          /\ child' = status
          /\ why' = "none"
          /\ rip' = Entry
          /\ mem' = image
          /\ pc' = next
          /\ UNCHANGED <<program_name, addr_list, pre_addr, pre_val, leaked>>
       \/ /\ ~Launchable \/ Faults \cap {"fork", "kill"} # {}
          /\ Error

start ==
    /\ AtPrompt
    /\ \/ state # "LOADED" /\ NoEffect
       \/ state = "LOADED" /\ Launch(Rearmed, "stopped", "prompt")

\* Somebody kills the stopped process between two ptrace requests of one
\* command: the second one fails.
KilledBetween == "kill" \in Faults /\ child = "stopped" /\ Error

\* Resume the process and block in check_process; to step over a breakpoint is
\* a request of its own.  On a process that is no longer there the first ptrace
\* request fails.
Resume(status) ==
    \/ /\ child = "stopped"
       /\ mem' = Unpatched(mem)
       /\ child' = status
       /\ why' = "none"
       /\ pc' = "waiting"
       /\ UNCHANGED <<debugger, rip, starts>>
    \/ pre_addr # 0 /\ KilledBetween
    \/ child # "stopped" /\ Error

si ==
    /\ AtPrompt
    /\ \/ state # "RUNNING" /\ NoEffect
       \/ state = "RUNNING" /\ Resume("stepping")

cont ==
    /\ AtPrompt
    /\ \/ state # "RUNNING" /\ NoEffect
       \/ state = "RUNNING" /\ Resume("resumed")

\* run is cont for a running program, start followed by cont for a loaded one.
run ==
    /\ AtPrompt
    /\ \/ state = "NOT_LOADED" /\ NoEffect
       \/ state = "RUNNING" /\ Resume("resumed")
       \/ state = "LOADED" /\ Launch(Unpatched(Rearmed), "resumed", "waiting")

set_break(addr) ==
    /\ AtPrompt
    /\ \/ /\ state # "RUNNING" \/ ~in_text(addr) \/ addr \in DOMAIN addr_list
          /\ NoEffect
       \/ /\ state = "RUNNING" /\ in_text(addr) /\ addr \notin DOMAIN addr_list
          /\ child = "stopped" /\ Accessible(addr)
          /\ LET code == Peek(mem, addr)
             IN  /\ addr_list' = [a \in DOMAIN addr_list \cup {addr} |->
                                    IF a = addr THEN code ELSE addr_list[a]]
                 /\ mem' = Poke(mem, addr, WithLowByte(code, INT3))
          /\ UNCHANGED <<state, program_name, pid, pre_addr, pre_val, leaked,
                         pc, child, why, rip, starts>>
       \/ /\ state = "RUNNING" /\ in_text(addr) /\ addr \notin DOMAIN addr_list
          /\ \/ KilledBetween
             \/ (child # "stopped" \/ ~Accessible(addr)) /\ Error

del(id) ==
    LET known == 0 <= id /\ id < Cardinality(DOMAIN addr_list) IN
    /\ AtPrompt
    /\ \/ (state # "RUNNING" \/ ~known) /\ NoEffect
       \/ /\ state = "RUNNING" /\ known /\ child = "stopped"
          /\ \E addr \in DOMAIN addr_list :
                /\ IsNumber(addr, id)
                /\ mem' = Poke(mem, addr, addr_list[addr])
                /\ addr_list' = [a \in DOMAIN addr_list \ {addr} |-> addr_list[a]]
          /\ UNCHANGED <<state, program_name, pid, pre_addr, pre_val, leaked,
                         pc, child, why, rip, starts>>
       \/ state = "RUNNING" /\ known /\ child # "stopped" /\ Error

\* Faulty variant: the breakpoint stopped at is not forgotten.
set_rip_KeepsBreakpoint(val) ==
    /\ AtPrompt
    /\ \/ /\ child = "stopped"
          /\ rip' = val
          /\ UNCHANGED <<debugger, pc, child, why, mem, starts>>
       \/ child # "stopped" /\ Error

\* set rip: does not look at state; without a stopped process PTRACE_GETREGS
\* fails.  Moving the program counter forgets the breakpoint stopped at.
set_rip(val) ==
    /\ AtPrompt
    /\ \/ /\ child = "stopped"
          /\ rip' = val
          /\ pre_addr' = 0
          /\ pre_val' = ZeroWord
          /\ UNCHANGED <<state, program_name, pid, addr_list, leaked, pc,
                         child, why, mem, starts>>
       \/ KilledBetween
       \/ child # "stopped" /\ Error

\* set of any other register, or of a name it does not know.
set_other ==
    /\ AtPrompt
    /\ \/ child = "stopped" /\ NoEffect
       \/ KilledBetween
       \/ child # "stopped" /\ Error

\* What get and getregs do: PTRACE_GETREGS, of which only a failure matters.
read_regs ==
    \/ (state # "RUNNING" \/ child = "stopped") /\ NoEffect
    \/ state = "RUNNING" /\ child # "stopped" /\ Error

get == AtPrompt /\ read_regs

getregs == AtPrompt /\ read_regs

\* vmmap opens /proc/<pid>/maps and never closes it.  The file is gone once the
\* process was waited for; that of a zombie may be refused or empty.
vmmap ==
    /\ AtPrompt
    /\ \/ state # "RUNNING" /\ NoEffect
       \/ /\ state = "RUNNING" /\ child # "gone" /\ leaked < MaxFiles
          /\ leaked' = leaked + 1
          /\ UNCHANGED <<state, program_name, pid, addr_list, pre_addr, pre_val,
                         pc, process>>
       \/ /\ state = "RUNNING"
          /\ child # "stopped" \/ leaked = MaxFiles
          /\ Error

\* Disassembling an address of the text, for disasm or for the message of a
\* breakpoint hit, needs a handle of the disassembler.
NoHandle == "cs_open" \in Faults /\ Error

\* These print, and none of them checks what ptrace returns: disasm reads the
\* copy of the file made by load, dump the text of the process.
disasm ==
    /\ AtPrompt
    /\ \/ NoEffect
       \/ state = "RUNNING" /\ NoHandle

dump == AtPrompt /\ NoEffect

list == AtPrompt /\ NoEffect

help == AtPrompt /\ NoEffect

\* exit, q, or the end of the script.
quit ==
    /\ AtPrompt
    /\ pc' = "exited"
    /\ child' = KilledWithTracer
    /\ UNCHANGED <<debugger, why, rip, mem, starts>>

-----------------------------------------------------------------------------
(* check_process: what the debugger does when waitpid returns. *)

\* Faulty variant: one of the resets is forgotten.
check_exited_KeepsBreakpoint ==
    /\ pc = "waiting" /\ child = "exited"
    /\ child' = "gone"
    /\ pid' = 0
    /\ state' = "LOADED"
    /\ pc' = "prompt"
    /\ UNCHANGED <<program_name, addr_list, pre_addr, pre_val, leaked, why, rip,
                   mem, starts>>

check_exited ==
    /\ pc = "waiting" /\ child = "exited"
    /\ child' = "gone"
    /\ pid' = 0
    /\ state' = "LOADED"
    /\ pre_val' = ZeroWord
    /\ pre_addr' = 0
    /\ pc' = "prompt"
    /\ UNCHANGED <<program_name, addr_list, leaked, why, rip, mem, starts>>

\* Killed by a signal: only the message is printed.
check_signaled ==
    /\ pc = "waiting" /\ child = "signaled"
    /\ child' = "gone"
    /\ pc' = "prompt"
    /\ UNCHANGED <<debugger, why, rip, mem, starts>>

\* Faulty variant: every other status is taken for the end of the process.
check_sigstop_IsEnd ==
    /\ pc = "waiting" /\ child = "stopped" /\ why = "sig"
    /\ pid' = 0
    /\ state' = "LOADED"
    /\ pre_val' = ZeroWord
    /\ pre_addr' = 0
    /\ pc' = "prompt"
    /\ UNCHANGED <<program_name, addr_list, leaked, process>>

\* Stopped by a signal other than SIGTRAP.
check_sigstop ==
    /\ pc = "waiting" /\ child = "stopped" /\ why = "sig"
    /\ pc' = "prompt"
    /\ UNCHANGED <<debugger, process>>

Trapped == pc = "waiting" /\ child = "stopped" /\ why \in {"int3", "step"}

\* Faulty variants: the program counter is not taken back; the process is
\* resumed at once, onto the breakpoint byte.
check_hit_KeepsRip ==
    /\ Trapped
    /\ rip - 1 \in DOMAIN addr_list
    /\ mem' = restore_bp(mem)
    /\ pre_addr' = rip - 1
    /\ pre_val' = WithLowByte(Peek(restore_bp(mem), rip - 1), addr_list[rip - 1][0])
    /\ pc' = "prompt"
    /\ UNCHANGED <<state, program_name, pid, addr_list, leaked, child, why, rip, starts>>

check_hit_Resumes ==
    /\ Trapped
    /\ rip - 1 \in DOMAIN addr_list
    /\ mem' = restore_bp(mem)
    /\ rip' = rip - 1
    /\ child' = "resumed"
    /\ UNCHANGED <<debugger, pc, why, starts>>

\* SIGTRAP with rip - 1 in addr_list: a breakpoint was hit.
check_hit ==
    /\ Trapped
    /\ rip - 1 \in DOMAIN addr_list
    /\ mem' = restore_bp(mem)
    /\ pre_addr' = rip - 1
    /\ pre_val' = WithLowByte(Peek(restore_bp(mem), rip - 1), addr_list[rip - 1][0])
    /\ rip' = rip - 1
    /\ pc' = "prompt"
    /\ UNCHANGED <<state, program_name, pid, addr_list, leaked, child, why, starts>>

\* SIGTRAP in front of a breakpoint: si() once more, onto the breakpoint byte.
check_before ==
    /\ Trapped
    /\ rip - 1 \notin DOMAIN addr_list
    /\ rip \in DOMAIN addr_list
    /\ mem' = restore_bp(mem)
    /\ pre_addr' = 0
    /\ child' = "stepping"
    /\ why' = "none"
    /\ UNCHANGED <<state, program_name, pid, addr_list, pre_val, leaked, pc, rip, starts>>

\* Faulty variant: restore_bp is not called.
check_step_WithoutRestore ==
    /\ Trapped
    /\ rip - 1 \notin DOMAIN addr_list
    /\ rip \notin DOMAIN addr_list
    /\ pre_addr' = 0
    /\ pc' = "prompt"
    /\ UNCHANGED <<state, program_name, pid, addr_list, pre_val, leaked, child, why,
                   rip, mem, starts>>

\* SIGTRAP anywhere else.
check_step ==
    /\ Trapped
    /\ rip - 1 \notin DOMAIN addr_list
    /\ rip \notin DOMAIN addr_list
    /\ mem' = restore_bp(mem)
    /\ pre_addr' = 0
    /\ pc' = "prompt"
    /\ UNCHANGED <<state, program_name, pid, addr_list, pre_val, leaked, child, why,
                   rip, starts>>

\* Killed after waitpid returned and before check_process was through with its
\* ptrace requests.
check_lost == Trapped /\ "kill" \in Faults /\ Error

\* The hit cannot be shown.
check_unshown == Trapped /\ rip - 1 \in DOMAIN addr_list /\ NoHandle

check_process ==
    \/ check_exited \/ check_signaled \/ check_sigstop
    \/ check_hit \/ check_before \/ check_step
    \/ check_lost \/ check_unshown

-----------------------------------------------------------------------------
(* The traced process (external). *)

\* The bytes at a are those of the program's own instruction.
Genuine(a) ==
    /\ a \in Insns
    /\ \A b \in a .. a + InsnLen[a] - 1 : b \in Mapped => mem[b] = Code[b]

AtInt3 == rip \in Mapped /\ mem[rip] = INT3

\* One instruction was executed: after PTRACE_SINGLESTEP the process stops.
Stepped ==
    /\ child' = IF child = "stepping" THEN "stopped" ELSE "running"
    /\ why' = IF child = "stepping" THEN "step" ELSE "none"

StoppedBy(reason) == child' = "stopped" /\ why' = reason

ExecInt3 ==
    /\ Executing /\ AtInt3
    /\ rip' = rip + 1
    /\ StoppedBy("int3")
    /\ UNCHANGED <<debugger, pc, mem, starts>>

GoTo(next) ==
    \/ next # EXIT /\ rip' = next /\ Stepped
    \/ next = EXIT /\ child' = "exited" /\ UNCHANGED <<why, rip>>

ExecInsn ==
    /\ Executing /\ ~AtInt3 /\ Genuine(rip)
    /\ \E next \in Succ[rip] : GoTo(next)
    /\ UNCHANGED <<debugger, pc, mem, starts>>

\* Bytes that are not an instruction of the program: they may go anywhere,
\* or fault.
ExecGarbage ==
    /\ Executing /\ ~AtInt3 /\ ~Genuine(rip)
    /\ \/ \E next \in Insns \cup {EXIT} : GoTo(next)
       \/ StoppedBy("sig") /\ UNCHANGED rip
    /\ UNCHANGED <<debugger, pc, mem, starts>>

Exec == ExecInt3 \/ ExecInsn \/ ExecGarbage

SignalStop ==
    /\ "stop" \in Faults /\ Executing
    /\ StoppedBy("sig")
    /\ UNCHANGED <<debugger, pc, rip, mem, starts>>

Kill ==
    /\ "kill" \in Faults /\ Alive
    /\ child' = "signaled"
    /\ UNCHANGED <<debugger, pc, why, rip, mem, starts>>

-----------------------------------------------------------------------------
\* The debugger is gone: nothing happens any more.
Over == pc \in {"exited", "failed"} /\ NoEffect

Command ==
    \/ \E file \in Files : load(file)
    \/ start \/ si \/ cont \/ run
    \/ \E addr \in BreakArgs : set_break(addr)
    \/ \E id \in DeleteArgs : del(id)
    \/ \E val \in RipArgs : set_rip(val)
    \/ set_other \/ get \/ getregs \/ vmmap
    \/ disasm \/ dump \/ list \/ help \/ quit

Next == Command \/ check_process \/ Exec \/ SignalStop \/ Kill \/ Over

Spec == Init /\ [][Next]_vars

\* The scheduler runs the traced process and wakes the debugger up; nothing
\* makes the user type a command or another process send a signal.
Fairness == WF_vars(Exec) /\ WF_vars(check_process)

FairSpec == Spec /\ Fairness

-----------------------------------------------------------------------------
(* Properties. *)

\* Outside a run the debugger has no leftovers of the previous one: no pid to
\* signal, no breakpoint to step over.  start() reads pre_addr in its loop over
\* addr_list, and quit() signals whatever pid holds.
IdleClean == state # "RUNNING" => pid = 0 /\ pre_addr = 0

\* Every breakpoint on the list is armed in the text of the process, except
\* the one it stopped at and has yet to step over: whatever sequence of break,
\* delete, si, cont, run and signals led here.  (set rip is not among them: after
\* a signal it forgets a breakpoint that is still to be put back.)
Armed == Alive => \A a \in DOMAIN addr_list \ {pre_addr} : mem[a] = INT3

\* The text of the process is that of the file, but for the breakpoint bytes:
\* setting, stepping over, deleting and setting again never damage it.
TextIntact ==
    Alive => \A b \in Mapped :
                mem[b] = Code[b] \/ (b \in DOMAIN addr_list /\ mem[b] = INT3)

\* The breakpoint that si and cont are going to step over is the instruction
\* the process is about to execute, unless a signal stopped it on the way.
StepsOverCurrent ==
    pc = "prompt" /\ child = "stopped" /\ why # "sig" /\ pre_addr # 0
        => rip = pre_addr

\* The debugger never loses track of a process: one that waitpid has not
\* collected is the one whose pid it holds, in state RUNNING, so that start is
\* refused and quit signals the right one, whatever signals stop the process and
\* at whatever moment it is killed; and none outlives the debugger.
OneProcess ==
    /\ pc \in {"prompt", "waiting"} /\ child \notin {"none", "gone"}
          => state = "RUNNING" /\ pid = starts
    /\ pc \in {"exited", "failed"} => ~Alive

\* Unless somebody kills the process, or the disassembler fails, a command typed
\* while it is stopped ends the debugger with an ERROR only when vmmap and load
\* have used up the files it may open: each word a breakpoint needs can be read
\* and written.
StoppedSurvives ==
    [][pc = "prompt" /\ child = "stopped" /\ leaked < MaxFiles
          => pc' # "failed"]_vars

\* cont, si and run give the prompt back, however often check_process steps
\* again onto a breakpoint.
PromptReturns == (pc = "waiting") ~> (pc # "waiting")
=============================================================================
