----------------------- MODULE SdbTransparencyProofs -----------------------
(***************************************************************************)
(* The debugger implements TransparentTracing, for every program and any   *)
(* set of breakpoints that meets the conditions below.  Each of them keeps *)
(* out one of the known limits of the code.                                *)
(***************************************************************************)
EXTENDS SdbTransparency, SdbProofs

\* Breakpoints and set rip name instructions of the program, which do not overlap;
\* those with a breakpoint are longer than the breakpoint byte; and the program
\* holds no int3 of its own.
OnInstructions ==
    /\ \A a \in Insns : a \in Mapped => Code[a] # INT3
    /\ \A a, c \in Insns : c \notin a + 1 .. a + InsnLen[a] - 1
    /\ \A a \in BreakArgs : in_text(a) => a \in Insns /\ InsnLen[a] > 1
    /\ RipArgs \subseteq Insns

\* A set of instructions that is never left again and does not hold p, with all
\* that may follow p: there is one exactly if p lies on no loop.
Follows(p, after) ==
    /\ p \notin after
    /\ Succ[p] \subseteq after \cup {EXIT}
    /\ \A i \in after : Succ[i] \subseteq after \cup {EXIT}

\* No loop leads back to a breakpoint (cont leaves it out of the text).
OffLoops ==
    \A p \in BreakArgs : in_text(p) => \E after \in SUBSET Insns : Follows(p, after)

\* set rip is not used together with signals that stop the process.
RipOrSignals == RipArgs = {} \/ "stop" \notin Faults

\* The program is started once (start() damages the text of later runs).
Conditions ==
    /\ Spaced /\ OnInstructions /\ OffLoops /\ RipOrSignals
    /\ MaxStarts \in {0, 1}

\* The user does not delete the breakpoint the process has stopped at.
CurrentListed == pre_addr # 0 => pre_addr \in DOMAIN addr_list

-----------------------------------------------------------------------------
(* The text with breakpoints. *)

\* The text of the program with the breakpoints of S.
Patched(S) == [b \in Mapped |-> IF b \in S THEN INT3 ELSE Code[b]]

\* It is a text.
LEMMA PatchedType ==
    ASSUME NEW S PROVE Patched(S) \in [Mapped -> Byte]
BY TextAssumption, Int3IsByte DEF Patched

\* Putting the word of the file back takes one breakpoint out.
LEMMA PokeTakesOut ==
    ASSUME Spaced, NEW S \in SUBSET BreakArgs, NEW a \in BreakArgs, Accessible(a)
    PROVE  Poke(Patched(S), a, Peek(Code, a)) = Patched(S \ {a})
<1>1. a \in Int
    BY BreakArgsInt
<1>2. ASSUME NEW b \in Mapped
      PROVE  Poke(Patched(S), a, Peek(Code, a))[b] = Patched(S \ {a})[b]
    <2>1. CASE b \in Span(a)
        <3>1. b - a \in Offsets /\ a + (b - a) = b
            BY <1>1, <2>1, TextAssumption DEF Span, Offsets
        <3>2. Peek(Code, a)[b - a] = Code[b]
            BY <3>1 DEF Peek
        <3>3. b \notin S \ {a}
            BY <2>1 DEF Spaced
        <3> QED
            BY <2>1, <3>2, <3>3 DEF Poke, Patched
    <2>2. CASE b \notin Span(a)
        <3>1. b # a
            BY <1>1, <2>2, AccessibleMapped
        <3> QED
            BY <2>2, <3>1 DEF Poke, Patched
    <2> QED
        BY <2>1, <2>2
<1> QED
    BY <1>2 DEF Poke, Patched

\* A word with one breakpoint at most, with the byte of the file in its place.
LEMMA PeekOriginal ==
    ASSUME Spaced, NEW S \in SUBSET BreakArgs, NEW a \in BreakArgs, Accessible(a)
    PROVE  /\ WithLowByte(Peek(Patched(S), a), Code[a]) = Peek(Code, a)
           /\ a \notin S => Peek(Patched(S), a) = Peek(Code, a)
<1>1. a \in Int /\ a \in Mapped
    BY BreakArgsInt, AccessibleMapped
<1>2. ASSUME NEW i \in Offsets, i # 0 PROVE Patched(S)[a + i] = Code[a + i]
    <2>1. a + i \in Span(a) /\ a + i # a
        BY <1>1, <1>2, TextAssumption DEF Span, Offsets
    <2>2. a + i \in Mapped
        BY <2>1 DEF Accessible
    <2>3. a + i \notin S
        BY <2>1 DEF Spaced
    <2> QED
        BY <2>2, <2>3 DEF Patched
<1>3. a \notin S => Patched(S)[a + 0] = Code[a + 0]
    BY <1>1 DEF Patched
<1>4. a + 0 = a /\ 0 \in Offsets
    BY <1>1, TextAssumption DEF Offsets
<1>5. Peek(Patched(S), a) = [i \in Offsets |-> Patched(S)[a + i]]
    BY DEF Peek
<1>6. Peek(Code, a) = [i \in Offsets |-> Code[a + i]]
    BY DEF Peek
<1>7. WithLowByte(Peek(Patched(S), a), Code[a]) = Peek(Code, a)
    BY <1>2, <1>4, <1>5, <1>6 DEF WithLowByte
<1>8. a \notin S => Peek(Patched(S), a) = Peek(Code, a)
    BY <1>2, <1>3, <1>5, <1>6
<1> QED
    BY <1>7, <1>8

\* Setting the low byte of the word read sets one breakpoint.
LEMMA PokeSets ==
    ASSUME NEW S \in SUBSET BreakArgs, NEW a \in BreakArgs, Accessible(a)
    PROVE  Poke(Patched(S), a, WithLowByte(Peek(Patched(S), a), INT3)) = Patched(S \cup {a})
<1> DEFINE w == WithLowByte(Peek(Patched(S), a), INT3)
<1>1. a \in Int
    BY BreakArgsInt
<1>2. w = [i \in Offsets |-> IF i = 0 THEN INT3 ELSE Patched(S)[a + i]]
    BY DEF Peek, WithLowByte
<1> HIDE DEF w
<1>3. ASSUME NEW b \in Mapped
      PROVE  Poke(Patched(S), a, w)[b] = Patched(S \cup {a})[b]
    <2>1. CASE b \in Span(a)
        <3>1. b - a \in Offsets /\ a + (b - a) = b /\ (b - a = 0 <=> b = a)
            BY <1>1, <2>1, TextAssumption DEF Span, Offsets
        <3>2. w[b - a] = IF b = a THEN INT3 ELSE Patched(S)[b]
            BY <1>2, <3>1
        <3> QED
            BY <2>1, <3>2 DEF Poke, Patched
    <2>2. CASE b \notin Span(a)
        <3>1. b # a
            BY <1>1, <2>2, AccessibleMapped
        <3> QED
            BY <2>2, <3>1 DEF Poke, Patched
    <2> QED
        BY <2>1, <2>2
<1> QED
    BY <1>3 DEF Poke, Patched, w

-----------------------------------------------------------------------------
(* The inductive invariant: what the text is at every moment. *)

\* The breakpoint stopped at is out of the text from the resume on until check_process
\* has looked at a trap; a signal gives the prompt back in between.
Lifted == IF pc = "prompt" /\ why # "sig" THEN {} ELSE {pre_addr}

Text == Alive => mem = Patched(DOMAIN addr_list \ Lifted)

\* Every word kept is the one of the file.
Words ==
    /\ \A a \in DOMAIN addr_list :
          in_text(a) /\ Accessible(a) /\ addr_list[a] = Peek(Code, a)
    /\ Alive /\ pre_addr # 0 => pre_val = Peek(Code, pre_addr)

\* Before the first run there is no process and no breakpoint.
FirstRun == starts = 0 => child = "none" /\ DOMAIN addr_list = {}

\* Only another process's signal stops it on the way.
SignalsOutside == why = "sig" => "stop" \in Faults

After(p) == CHOOSE after \in SUBSET Insns : Follows(p, after)

\* The process is at one of its instructions; a trap comes from a breakpoint; and
\* once it runs on its own, the breakpoint it was resumed from is behind it.
Place ==
    /\ Alive => AbstractAt \in Insns
    /\ child = "stopped" /\ why = "int3" /\ pc = "waiting" => rip - 1 \in DOMAIN addr_list
    /\ Alive /\ pre_addr # 0 =>
          \/ AbstractAt \in After(pre_addr)
          \/ AbstractAt = pre_addr /\ child # "running"

TraceInv == Inv /\ Text /\ Words /\ FirstRun /\ SignalsOutside /\ Place

\* The breakpoints on the list are instructions that no loop leads back to.
LEMMA ListedPoints ==
    ASSUME Conditions, TypeOK, Words, NEW a \in DOMAIN addr_list
    PROVE  /\ a \in BreakArgs /\ a \in Int /\ a # 0 /\ Accessible(a) /\ a \in Mapped
           /\ a \in Insns /\ InsnLen[a] > 1
           /\ After(a) \subseteq Insns /\ Follows(a, After(a))
<1>1. a \in BreakArgs /\ in_text(a) /\ Accessible(a)
    BY DEF TypeOK, Words
<1>2. a \in Int /\ a # 0 /\ a \in Mapped
    BY <1>1, SdbAssumption, BreakArgsInt, AccessibleMapped
<1>3. a \in Insns /\ InsnLen[a] > 1
    BY <1>1 DEF Conditions, OnInstructions
<1>4. \E after \in SUBSET Insns : Follows(a, after)
    BY <1>1 DEF Conditions, OffLoops
<1>5. After(a) \in SUBSET Insns /\ Follows(a, After(a))
    BY <1>4 DEF After
<1> QED
    BY <1>1, <1>2, <1>3, <1>5

\* No instruction starts right behind a breakpoint.
LEMMA NotBehind ==
    ASSUME Conditions, TypeOK, Words, NEW i \in Insns
    PROVE  i - 1 \notin DOMAIN addr_list
<1> SUFFICES ASSUME i - 1 \in DOMAIN addr_list PROVE FALSE
    OBVIOUS
<1> DEFINE a == i - 1
<1>1. a \in Insns /\ InsnLen[a] > 1 /\ a \in Int
    BY ListedPoints
<1>2. i \in Int /\ InsnLen[a] \in Int
    BY <1>1, SdbAssumption
<1>3. i \in a + 1 .. a + InsnLen[a] - 1
    BY <1>1, <1>2
<1> QED
    BY <1>1, <1>3 DEF Conditions, OnInstructions

\* At an instruction that does not trap the text is the program's own, and a trap
\* is that of a breakpoint.
LEMMA RunsOwnCode ==
    ASSUME Conditions, TypeOK, Words, Text, Alive, rip \in Insns
    PROVE  /\ ~AtInt3 => Genuine(rip) /\ (rip \in DOMAIN addr_list => rip \in Lifted)
           /\ AtInt3 => rip \in DOMAIN addr_list \ Lifted
<1>1. mem = Patched(DOMAIN addr_list \ Lifted)
    BY DEF Text
<1>2. AtInt3 => rip \in DOMAIN addr_list \ Lifted
    BY <1>1 DEF AtInt3, Patched, Conditions, OnInstructions
<1>3. ASSUME ~AtInt3, rip \in DOMAIN addr_list PROVE rip \in Lifted
    <2>1. rip \in Mapped
        BY <1>3, ListedPoints
    <2> QED
        BY <1>1, <1>3, <2>1 DEF AtInt3, Patched
<1>4. ASSUME ~AtInt3 PROVE Genuine(rip)
    <2>1. ASSUME NEW b \in rip .. rip + InsnLen[rip] - 1, b \in Mapped
          PROVE  mem[b] = Code[b]
        <3>1. CASE b = rip
            BY <1>1, <1>4, <2>1, <3>1 DEF AtInt3, Patched
        <3>2. CASE b # rip
            <4>1. rip \in Int /\ InsnLen[rip] \in Int
                BY SdbAssumption
            <4>2. b \in rip + 1 .. rip + InsnLen[rip] - 1
                BY <2>1, <3>2, <4>1
            <4>3. b \notin DOMAIN addr_list
                BY <4>2, ListedPoints DEF Conditions, OnInstructions
            <4> QED
                BY <1>1, <2>1, <4>3 DEF Patched
        <3> QED
            BY <3>1, <3>2
    <2> QED
        BY <2>1 DEF Genuine
<1> QED
    BY <1>2, <1>3, <1>4

\* restore_bp at a trap leaves the text with all breakpoints.
LEMMA RestoreIsPatched ==
    ASSUME Conditions, TraceInv, CurrentListed, Trapped
    PROVE  restore_bp(mem) = Patched(DOMAIN addr_list)
<1> DEFINE S == DOMAIN addr_list \ {pre_addr}
<1>1. TypeOK /\ Words /\ Spaced
    BY DEF TraceInv, Inv, Conditions
<1>2. mem = Patched(S)
    BY DEF TraceInv, Text, Trapped, Alive, Lifted
<1>3. CASE pre_addr = 0
    <2>1. S = DOMAIN addr_list
        BY <1>1, <1>3, ListedPoints
    <2> QED
        BY <1>2, <1>3, <2>1 DEF restore_bp
<1>4. CASE pre_addr # 0
    <2>1. pre_addr \in DOMAIN addr_list
        BY <1>4 DEF CurrentListed
    <2>2. S \in SUBSET BreakArgs /\ pre_addr \in BreakArgs /\ Accessible(pre_addr)
        BY <1>1, <2>1, ListedPoints
    <2>3. S \cup {pre_addr} = DOMAIN addr_list
        BY <2>1
    <2> HIDE DEF S
    <2> QED
        BY <1>2, <1>4, <2>2, <2>3, PokeSets DEF restore_bp
<1> QED
    BY <1>3, <1>4

\* Before the process is resumed the breakpoint stopped at is taken out.
LEMMA UnpatchedIsPatched ==
    ASSUME Conditions, TraceInv, CurrentListed, pc = "prompt", child = "stopped"
    PROVE  Unpatched(mem) = Patched(DOMAIN addr_list \ {pre_addr})
<1> DEFINE S == DOMAIN addr_list \ Lifted
<1>1. TypeOK /\ Words /\ Spaced
    BY DEF TraceInv, Inv, Conditions
<1>2. mem = Patched(S)
    BY DEF TraceInv, Text, Alive
<1>3. S \ {pre_addr} = DOMAIN addr_list \ {pre_addr}
    BY DEF Lifted
<1>4. CASE pre_addr = 0
    <2>1. 0 \notin DOMAIN addr_list
        BY <1>1, ListedPoints
    <2>2. S = DOMAIN addr_list \ {pre_addr}
        BY <1>4, <2>1 DEF Lifted
    <2> QED
        BY <1>2, <1>4, <2>2 DEF Unpatched
<1>5. CASE pre_addr # 0
    <2>1. pre_addr \in DOMAIN addr_list
        BY <1>5 DEF CurrentListed
    <2>2. S \in SUBSET BreakArgs /\ pre_addr \in BreakArgs /\ Accessible(pre_addr)
        BY <1>1, <2>1, ListedPoints
    <2>3. pre_val = Peek(Code, pre_addr)
        BY <1>1, <1>5 DEF Words, Alive
    <2> HIDE DEF S
    <2> QED
        BY <1>1, <1>2, <1>3, <1>5, <2>2, <2>3, PokeTakesOut DEF Unpatched
<1> QED
    BY <1>4, <1>5

\* The text of the first process is that of the file.
LEMMA FirstImage ==
    ASSUME Conditions, TraceInv, starts < MaxStarts, state = "LOADED"
    PROVE  /\ Rearmed = Patched({}) /\ Unpatched(Rearmed) = Patched({})
           /\ DOMAIN addr_list = {} /\ pre_addr = 0
<1>1. starts = 0 /\ pre_addr = 0
    BY DEF Conditions, TraceInv, Inv, TypeOK, IdleClean
<1>2. DOMAIN addr_list = {}
    BY <1>1 DEF TraceInv, FirstRun
<1>3. Rearmed = [b \in Mapped |-> Code[b]]
    BY <1>2 DEF Rearmed
<1> QED
    BY <1>1, <1>2, <1>3 DEF Patched, Unpatched

\* The conjuncts of TraceInv that InvStep does not cover.
Trace == Text /\ Words /\ FirstRun /\ SignalsOutside /\ Place

\* A step of check_process after a trap.
LEMMA TrapTrace ==
    ASSUME Conditions, TraceInv, CurrentListed, check_hit \/ check_before \/ check_step
    PROVE  Trace'
<1> USE DEF debugger, process
<1>0. Trapped /\ TypeOK /\ Words /\ Place /\ Alive /\ child = "stopped" /\ pc = "waiting"
    BY DEF check_hit, check_before, check_step, TraceInv, Inv, Trapped, Alive
<1>1. /\ mem' = Patched(DOMAIN addr_list)
      /\ UNCHANGED <<addr_list, starts>>
    BY <1>0, RestoreIsPatched DEF check_hit, check_before, check_step
<1>2. FirstRun'
    BY <1>0, <1>1 DEF TraceInv, FirstRun
<1>3. why = "step" => rip \in Insns /\ rip - 1 \notin DOMAIN addr_list
    BY <1>0, NotBehind DEF Place, AbstractAt
<1>4. why = "int3" => rip - 1 \in DOMAIN addr_list
    BY <1>0 DEF Place
<1>5. why \in {"int3", "step"}
    BY <1>0 DEF Trapped
<1>6. CASE check_hit
    <2> DEFINE a == rip - 1
    <2>1. why = "int3" /\ a \in DOMAIN addr_list
        BY <1>3, <1>5, <1>6 DEF check_hit
    <2>2. /\ a \in BreakArgs /\ a \in Int /\ a # 0 /\ Accessible(a) /\ a \in Insns
          /\ a \in Mapped
        BY <1>0, <2>1, ListedPoints
    <2>3. /\ pre_addr' = a /\ rip' = a /\ pc' = "prompt" /\ child' = "stopped"
          /\ why' = "int3"
          /\ pre_val' = WithLowByte(Peek(Patched(DOMAIN addr_list), a), addr_list[a][0])
        BY <1>0, <1>6, <2>1, RestoreIsPatched DEF check_hit
    <2>4. addr_list[a][0] = Code[a]
        <3>1. addr_list[a] = [i \in Offsets |-> Code[a + i]]
            BY <1>0, <2>1, <2>2 DEF Words, Peek
        <3>2. 0 \in Offsets /\ a + 0 = a
            BY <2>2, TextAssumption DEF Offsets
        <3> QED
            BY <3>1, <3>2
    <2>5. DOMAIN addr_list \in SUBSET BreakArgs /\ Spaced
        BY <1>0 DEF TypeOK, Conditions
    <2> HIDE DEF a
    <2>6. pre_val' = Peek(Code, a)
        BY <2>2, <2>3, <2>4, <2>5, PeekOriginal
    <2>7. Text'
        <3>1. Lifted' = {}
            BY <2>3 DEF Lifted
        <3>2. DOMAIN addr_list' \ Lifted' = DOMAIN addr_list
            BY <1>1, <3>1
        <3> QED
            BY <1>1, <3>2 DEF Text
    <2>8. Words'
        BY <1>0, <1>1, <2>3, <2>6 DEF Words
    <2>9. SignalsOutside'
        BY <2>3 DEF SignalsOutside
    <2>10. Place'
        BY <2>2, <2>3 DEF Place, AbstractAt
    <2> QED
        BY <1>2, <2>7, <2>8, <2>9, <2>10 DEF Trace
<1>7. CASE check_before \/ check_step
    <2>1. why = "step"
        BY <1>4, <1>5, <1>7 DEF check_before, check_step
    <2>2. pre_addr' = 0 /\ rip' = rip /\ rip \in Insns
        BY <1>3, <1>7, <2>1 DEF check_before, check_step
    <2>3. \/ child' = "stepping" /\ why' = "none"
          \/ child' = "stopped" /\ why' = "step" /\ pc' = "prompt"
        BY <1>0, <1>7, <2>1 DEF check_before, check_step
    <2>4. Text'
        <3>1. 0 \notin DOMAIN addr_list /\ Lifted' \subseteq {0}
            BY <1>0, <2>2, ListedPoints DEF Lifted
        <3>2. DOMAIN addr_list' \ Lifted' = DOMAIN addr_list
            BY <1>1, <3>1
        <3> QED
            BY <1>1, <3>2 DEF Text
    <2>5. Words'
        BY <1>0, <1>1, <2>2 DEF Words
    <2>6. SignalsOutside'
        BY <2>3 DEF SignalsOutside
    <2>7. Place'
        BY <2>2, <2>3 DEF Place, AbstractAt
    <2> QED
        BY <1>2, <2>4, <2>5, <2>6, <2>7 DEF Trace
<1> QED
    BY <1>6, <1>7

\* A step of the traced process.
LEMMA ExecTrace ==
    ASSUME Conditions, TraceInv, CurrentListed, Exec \/ SignalStop
    PROVE  Trace'
<1> USE DEF debugger, process
<1>0. /\ TypeOK /\ Words /\ Text /\ Place /\ FirstRun /\ SignalsOutside
      /\ Executing /\ Alive /\ pc = "waiting"
    BY DEF Exec, ExecInt3, ExecInsn, ExecGarbage, SignalStop, TraceInv, Inv, Lockstep,
           Executing, Alive
<1>1. /\ UNCHANGED <<addr_list, starts, mem, pre_addr, pre_val, pc>>
      /\ Lifted' = {pre_addr} /\ Lifted = {pre_addr}
    BY <1>0 DEF Exec, ExecInt3, ExecInsn, ExecGarbage, SignalStop, Lifted
<1>2. Text' /\ Words' /\ FirstRun'
    BY <1>0, <1>1 DEF Text, Words, FirstRun, Executing
<1>3. AbstractAt = rip /\ rip \in Insns
    BY <1>0 DEF Place, AbstractAt, Executing
<1>4. /\ ~AtInt3 => Genuine(rip)
      /\ AtInt3 => rip \in DOMAIN addr_list /\ rip # pre_addr
    BY <1>0, <1>1, <1>3, RunsOwnCode
<1>5. CASE ExecInt3
    <2>1. /\ child' = "stopped" /\ why' = "int3" /\ rip' = rip + 1 /\ AtInt3
        BY <1>5 DEF ExecInt3, StoppedBy
    <2>2. rip' - 1 = rip
        BY <1>0, <2>1 DEF TypeOK
    <2>3. AbstractAt' = rip
        BY <1>0, <1>1, <2>1, <2>2 DEF AbstractAt
    <2>4. Place'
        BY <1>0, <1>1, <1>3, <1>4, <2>1, <2>2, <2>3 DEF Place
    <2> QED
        BY <1>2, <2>1, <2>4 DEF Trace, SignalsOutside
<1>6. CASE ExecInsn
    <2>1. PICK next \in Succ[rip] : GoTo(next)
        BY <1>6 DEF ExecInsn
    <2>2. why' # "sig" \/ why' = why
        BY <2>1 DEF GoTo, Stepped
    <2>3. CASE next = EXIT
        BY <1>0, <1>2, <2>1, <2>2, <2>3 DEF GoTo, Trace, SignalsOutside, Place, Alive
    <2>4. CASE next # EXIT
        <3>1. rip' = next /\ why' # "int3" /\ why' # "sig"
            BY <2>1, <2>4 DEF GoTo, Stepped
        <3>2. AbstractAt' = next
            BY <3>1 DEF AbstractAt
        <3>3. next \in Insns
            BY <1>3, <2>4, SdbAssumption
        <3>4. pre_addr # 0 => next \in After(pre_addr)
            <4> SUFFICES ASSUME pre_addr # 0 PROVE next \in After(pre_addr)
                OBVIOUS
            <4>1. Follows(pre_addr, After(pre_addr))
                BY <1>0, ListedPoints DEF CurrentListed
            <4>2. rip \in After(pre_addr) \/ rip = pre_addr
                BY <1>0, <1>3 DEF Place
            <4> QED
                BY <2>4, <4>1, <4>2 DEF Follows
        <3>5. Place'
            BY <1>1, <3>1, <3>2, <3>3, <3>4 DEF Place
        <3> QED
            BY <1>2, <3>1, <3>5 DEF Trace, SignalsOutside
    <2> QED
        BY <2>3, <2>4
<1>7. CASE ExecGarbage
    BY <1>4, <1>7 DEF ExecGarbage
<1>8. CASE SignalStop
    <2>1. child' = "stopped" /\ why' = "sig" /\ rip' = rip /\ "stop" \in Faults
        BY <1>8 DEF SignalStop, StoppedBy
    <2>2. AbstractAt' = rip
        BY <2>1 DEF AbstractAt
    <2>3. Place'
        BY <1>0, <1>1, <1>3, <2>1, <2>2 DEF Place
    <2> QED
        BY <1>2, <2>1, <2>3 DEF Trace, SignalsOutside
<1> QED
    BY <1>5, <1>6, <1>7, <1>8 DEF Exec

\* Every step keeps the invariant, if the breakpoint stopped at is not deleted.
LEMMA TraceStep ==
    ASSUME Conditions, TraceInv, CurrentListed, CurrentListed', [Next]_vars
    PROVE  TraceInv'
<1> USE DEF debugger, process
<1>0. /\ Inv /\ Inv' /\ TypeOK /\ Trace
      /\ Text /\ Words /\ FirstRun /\ SignalsOutside /\ Place
    BY InvStep DEF TraceInv, Inv, Trace
<1>1. SUFFICES Trace'
    BY <1>0 DEF TraceInv, Trace
<1>2. ASSUME NoEffect PROVE Trace'
    BY <1>2, <1>0 DEF NoEffect, vars, Trace, Text, Lifted, Words, FirstRun,
                      SignalsOutside, Place, AbstractAt, Alive
<1>21. ASSUME Leak PROVE Trace'
    BY <1>21, <1>0 DEF Leak, Trace, Text, Lifted, Words, FirstRun,
                       SignalsOutside, Place, AbstractAt, Alive
<1>3. ASSUME ~Alive', child' = child \/ child # "none",
             UNCHANGED <<addr_list, starts, why>>
      PROVE  Trace'
    BY <1>3, <1>0 DEF Trace, Text, Words, FirstRun, SignalsOutside, Place, Alive
<1>4. ASSUME Error PROVE Trace'
    BY <1>4, <1>3 DEF Error, KilledWithTracer, Alive
<1>5. ASSUME NEW file \in Files, load(file) PROVE Trace'
    <2>1. CASE NoEffect
        BY <2>1, <1>2
    <2>2. CASE ~NoEffect
        <3>1. state = "NOT_LOADED" /\ UNCHANGED <<process, addr_list>>
            BY <1>5, <2>2 DEF load
        <3>2. ~Alive
            BY <1>0, <3>1 DEF Inv, Lockstep
        <3> QED
            BY <1>3, <3>1, <3>2 DEF Alive
    <2> QED
        BY <2>1, <2>2
<1>6. ASSUME NEW image, NEW status \in {"stopped", "resumed"}, NEW next,
             Launch(image, status, next), state = "LOADED",
             image = Rearmed \/ image = Unpatched(Rearmed),
             status = "stopped" => next = "prompt"
      PROVE  Trace'
    <2>1. CASE Error
        BY <2>1, <1>4
    <2>2. CASE ~Error
        <3>1. /\ starts < MaxStarts /\ starts' = starts + 1 /\ child' = status
              /\ why' = "none" /\ rip' = Entry /\ mem' = image
              /\ UNCHANGED <<addr_list, pre_addr>>
            BY <1>6, <2>2 DEF Launch
        <3>2. image = Patched({}) /\ DOMAIN addr_list = {} /\ pre_addr = 0
            BY <1>6, <3>1, FirstImage
        <3>3. Text'
            <4>1. DOMAIN addr_list' \ Lifted' = {}
                BY <3>1, <3>2
            <4> QED
                BY <3>1, <3>2, <4>1 DEF Text
        <3>4. Words' /\ FirstRun' /\ SignalsOutside'
            BY <1>0, <3>1, <3>2 DEF Words, FirstRun, SignalsOutside, TypeOK
        <3>5. Place'
            BY <3>1, <3>2, SdbAssumption DEF Place, AbstractAt
        <3> QED
            BY <3>3, <3>4, <3>5 DEF Trace
    <2> QED
        BY <2>1, <2>2
<1>7. ASSUME NEW status \in {"resumed", "stepping"}, Resume(status), AtPrompt
      PROVE  Trace'
    <2>1. CASE Error
        BY <2>1, <1>4
    <2>2. CASE ~Error
        <3>1. /\ child = "stopped" /\ mem' = Unpatched(mem) /\ child' = status
              /\ why' = "none" /\ pc' = "waiting" /\ pc = "prompt"
              /\ UNCHANGED <<addr_list, pre_addr, pre_val, rip, starts>>
            BY <1>7, <2>2 DEF Resume, KilledBetween, AtPrompt
        <3>2. mem' = Patched(DOMAIN addr_list' \ Lifted')
            BY <3>1, UnpatchedIsPatched DEF Lifted
        <3>3. Text' /\ Words' /\ FirstRun' /\ SignalsOutside'
            BY <1>0, <3>1, <3>2 DEF Text, Words, FirstRun, SignalsOutside, Alive
        <3>4. AbstractAt' = AbstractAt
            BY <3>1 DEF AbstractAt
        <3>5. Place'
            BY <1>0, <3>1, <3>4 DEF Place, Alive
        <3> QED
            BY <3>3, <3>5 DEF Trace
    <2> QED
        BY <2>1, <2>2
<1>8. CASE start \/ si \/ cont \/ run
    BY <1>8, <1>2, <1>6, <1>7 DEF start, si, cont, run
<1>9. ASSUME NEW addr \in BreakArgs, set_break(addr) PROVE Trace'
    <2>1. CASE Error \/ NoEffect
        BY <2>1, <1>2, <1>4
    <2>2. CASE ~(Error \/ NoEffect)
        <3> DEFINE S == DOMAIN addr_list \ Lifted
        <3>1. /\ child = "stopped" /\ pc = "prompt" /\ Accessible(addr) /\ in_text(addr)
              /\ addr \notin DOMAIN addr_list
              /\ addr_list' = [a \in DOMAIN addr_list \cup {addr} |->
                                  IF a = addr THEN Peek(mem, addr) ELSE addr_list[a]]
              /\ mem' = Poke(mem, addr, WithLowByte(Peek(mem, addr), INT3))
              /\ UNCHANGED <<pre_addr, pre_val, pc, child, why, rip, starts>>
            BY <1>9, <2>2 DEF set_break, KilledBetween, AtPrompt
        <3>2. mem = Patched(S) /\ S \in SUBSET BreakArgs /\ addr \notin S /\ Alive /\ Spaced
            BY <1>0, <3>1 DEF Text, TypeOK, Alive, Conditions
        <3>3. Peek(mem, addr) = Peek(Code, addr)
            BY <3>1, <3>2, PeekOriginal
        <3>4. mem' = Patched(S \cup {addr})
            BY <3>1, <3>2, PokeSets
        <3>5. addr # pre_addr
            BY <3>1, <1>0, SdbAssumption DEF CurrentListed
        <3>6. DOMAIN addr_list' \ Lifted' = S \cup {addr}
            BY <3>1, <3>5 DEF Lifted
        <3>7. Text'
            BY <3>4, <3>6 DEF Text
        <3>8. Words'
            BY <1>0, <3>1, <3>3 DEF Words, Alive
        <3>9. FirstRun' /\ SignalsOutside'
            BY <1>0, <3>1 DEF FirstRun, SignalsOutside
        <3>10. Place'
            BY <1>0, <3>1 DEF Place, AbstractAt, Alive
        <3> QED
            BY <3>7, <3>8, <3>9, <3>10 DEF Trace
    <2> QED
        BY <2>1, <2>2
<1>10. ASSUME NEW id \in DeleteArgs, del(id) PROVE Trace'
    <2>1. CASE Error \/ NoEffect
        BY <2>1, <1>2, <1>4
    <2>2. CASE ~(Error \/ NoEffect)
        <3> DEFINE S == DOMAIN addr_list \ Lifted
        <3>1. PICK addr \in DOMAIN addr_list :
                 /\ mem' = Poke(mem, addr, addr_list[addr])
                 /\ addr_list' = [a \in DOMAIN addr_list \ {addr} |-> addr_list[a]]
            BY <2>2, <1>10 DEF del
        <3>2. /\ child = "stopped" /\ pc = "prompt"
              /\ UNCHANGED <<pre_addr, pre_val, pc, child, why, rip, starts>>
            BY <2>2, <1>10 DEF del, AtPrompt
        <3>3. addr \in BreakArgs /\ Accessible(addr) /\ addr_list[addr] = Peek(Code, addr)
            BY <1>0, ListedPoints DEF Words
        <3>4. mem = Patched(S) /\ S \in SUBSET BreakArgs /\ Alive /\ Spaced
            BY <1>0, <3>2 DEF Text, TypeOK, Alive, Conditions
        <3>5. mem' = Patched(S \ {addr})
            BY <3>1, <3>3, <3>4, PokeTakesOut
        <3>6. DOMAIN addr_list' \ Lifted' = S \ {addr}
            BY <3>1, <3>2 DEF Lifted
        <3>7. Text'
            BY <3>5, <3>6 DEF Text
        <3>8. Words'
            BY <1>0, <3>1, <3>2 DEF Words, Alive
        <3>9. FirstRun' /\ SignalsOutside'
            BY <1>0, <3>2 DEF FirstRun, SignalsOutside
        <3>10. Place'
            BY <1>0, <3>2 DEF Place, AbstractAt, Alive
        <3> QED
            BY <3>7, <3>8, <3>9, <3>10 DEF Trace
    <2> QED
        BY <2>1, <2>2
<1>11. ASSUME NEW val \in RipArgs, set_rip(val) PROVE Trace'
    <2>1. CASE Error
        BY <2>1, <1>4
    <2>2. CASE ~Error
        <3>1. /\ child = "stopped" /\ pc = "prompt" /\ rip' = val /\ pre_addr' = 0
              /\ UNCHANGED <<addr_list, pc, child, why, mem, starts>>
            BY <1>11, <2>2 DEF set_rip, KilledBetween, AtPrompt
        <3>2. why # "sig"
            BY <1>0 DEF SignalsOutside, Conditions, RipOrSignals
        <3>3. Lifted' = {} /\ Lifted = {}
            BY <3>1, <3>2 DEF Lifted
        <3>4. Text'
            BY <1>0, <3>1, <3>3 DEF Text, Alive
        <3>5. Words' /\ FirstRun' /\ SignalsOutside'
            BY <1>0, <3>1 DEF Words, FirstRun, SignalsOutside
        <3>6. Place'
            BY <3>1 DEF Place, AbstractAt, Conditions, OnInstructions
        <3> QED
            BY <3>4, <3>5, <3>6 DEF Trace
    <2> QED
        BY <2>1, <2>2
<1>12. CASE Passive
    BY <1>12, <1>2, <1>21, <1>4, PassiveOutcome
<1>13. CASE quit
    BY <1>13, <1>3 DEF quit, KilledWithTracer, Alive
<1>14. CASE check_exited \/ check_signaled
    BY <1>14, <1>3 DEF check_exited, check_signaled, Alive
<1>15. CASE check_sigstop
    <2>1. /\ child = "stopped" /\ why = "sig" /\ pc = "waiting" /\ pc' = "prompt"
          /\ UNCHANGED <<debugger, process>>
        BY <1>15 DEF check_sigstop
    <2>2. Lifted' = Lifted /\ AbstractAt' = AbstractAt
        BY <2>1 DEF Lifted, AbstractAt
    <2> QED
        BY <1>0, <2>1, <2>2 DEF Trace, Text, Words, FirstRun, SignalsOutside, Place, Alive
<1>16. CASE check_hit \/ check_before \/ check_step
    BY <1>16, TrapTrace
<1>17. CASE check_lost \/ check_unshown
    BY <1>17, <1>4 DEF check_lost, check_unshown, NoHandle
<1>18. CASE Exec \/ SignalStop
    BY <1>18, ExecTrace
<1>19. CASE Kill
    BY <1>19, <1>3 DEF Kill, Alive
<1>20. CASE UNCHANGED vars
    BY <1>20, <1>2 DEF NoEffect
<1> QED
    BY <1>5, <1>8, <1>9, <1>10, <1>11, <1>12, <1>13, <1>14, <1>15, <1>16, <1>17,
       <1>18, <1>19, <1>20
    DEF Next, Command, Passive, check_process

\* The invariant holds of every behaviour in which the breakpoint stopped at is
\* not deleted.
LEMMA TraceHolds ==
    ASSUME Conditions
    PROVE  Spec /\ []CurrentListed => []TraceInv
<1>1. Init => TraceInv
    BY InvInit DEF Init, TraceInv, Text, Words, FirstRun, SignalsOutside, Place, Alive
<1>2. TraceInv /\ CurrentListed /\ CurrentListed' /\ [Next]_vars => TraceInv'
    BY TraceStep
<1> QED
    BY <1>1, <1>2, PTL DEF Spec

\* Under the conditions above, and as long as the user does not delete the breakpoint
\* the process has stopped at, no sequence of commands, traps, signals and kills
\* damages the text of the process: it is the file's, but for the bytes of
\* breakpoints on the list.
THEOREM TextIntactHolds ==
    ASSUME Conditions
    PROVE  Spec /\ []CurrentListed => []TextIntact
<1>1. TraceInv => TextIntact
    BY DEF TraceInv, Text, TextIntact, Patched
<1> QED
    BY TraceHolds, <1>1, PTL

\* A debugger that deletes no breakpoint always has the one stopped at on its list.
LEMMA NoDeletion ==
    ASSUME DeleteArgs = {}
    PROVE  Spec => []CurrentListed
<1>1. Init => CurrentListed
    BY DEF Init, CurrentListed
<1>2. ASSUME CurrentListed, [Next]_vars PROVE CurrentListed'
    <2> USE <1>2 DEF CurrentListed, debugger, process
    <2>1. ASSUME Error \/ NoEffect \/ Leak PROVE CurrentListed'
        BY <2>1 DEF Error, NoEffect, Leak, vars
    <2>2. ASSUME NEW file \in Files, load(file) PROVE CurrentListed'
        BY <2>2, <2>1 DEF load
    <2>3. CASE start \/ si \/ cont \/ run
        BY <2>3, <2>1 DEF start, si, cont, run, Launch, Resume, KilledBetween
    <2>4. ASSUME NEW addr \in BreakArgs, set_break(addr) PROVE CurrentListed'
        BY <2>4, <2>1 DEF set_break, KilledBetween
    <2>5. ASSUME NEW val \in RipArgs, set_rip(val) PROVE CurrentListed'
        BY <2>5, <2>1 DEF set_rip, KilledBetween
    <2>6. CASE Passive
        BY <2>6, <2>1, PassiveOutcome
    <2>7. CASE quit \/ Kill \/ SignalStop \/ Exec
        BY <2>7 DEF quit, Kill, SignalStop, Exec, ExecInt3, ExecInsn, ExecGarbage
    <2>8. CASE check_process
        BY <2>8, <2>1 DEF check_process, check_exited, check_signaled, check_sigstop,
                          check_hit, check_before, check_step, check_lost,
                          check_unshown, NoHandle
    <2>9. CASE UNCHANGED vars
        BY <2>9, <2>1 DEF NoEffect
    <2> QED
        BY <2>2, <2>3, <2>4, <2>5, <2>6, <2>7, <2>8, <2>9 DEF Next, Command, Passive
<1> QED
    BY <1>1, <1>2, PTL DEF Spec

-----------------------------------------------------------------------------
(* The refinement. *)

\* Every step of debugger and process is a step of TransparentTracing, or
\* leaves the program where it is.
LEMMA TransparentStep ==
    ASSUME Conditions, TraceInv, CurrentListed, [Next]_vars
    PROVE  [TT!Next]_<<AbstractMode, AbstractAt, DOMAIN addr_list>>
<1> USE DEF debugger, process
<1> DEFINE Goal == [TT!Next]_<<AbstractMode, AbstractAt, DOMAIN addr_list>>
<1>0. /\ Inv /\ TypeOK /\ Text /\ Words /\ Place
    BY DEF TraceInv, Inv
<1>1. ASSUME UNCHANGED <<child, why, rip, pc, addr_list>> PROVE Goal
    BY <1>1 DEF AbstractMode, AbstractAt
<1>2. ASSUME NoEffect PROVE Goal
    BY <1>2, <1>1 DEF NoEffect, vars
<1>24. ASSUME Leak PROVE Goal
    BY <1>24, <1>1 DEF Leak
<1>3. ASSUME ~Alive', UNCHANGED addr_list PROVE Goal
    <2>1. AbstractMode' = "dead"
        BY <1>3 DEF AbstractMode, Alive
    <2> QED
        BY <1>3, <2>1 DEF TT!Next, TT!Die
<1>4. ASSUME Error PROVE Goal
    BY <1>4, <1>3 DEF Error, KilledWithTracer, Alive
<1>5. ASSUME NEW file \in Files, load(file) PROVE Goal
    BY <1>5, <1>1, <1>2 DEF load
<1>6. ASSUME NEW image, NEW status \in {"stopped", "resumed"}, NEW next,
             Launch(image, status, next), state = "LOADED"
      PROVE  Goal
    <2>1. CASE Error
        BY <2>1, <1>4
    <2>2. CASE ~Error
        <3>1. child' = status /\ why' = "none" /\ rip' = Entry /\ UNCHANGED addr_list
            BY <1>6, <2>2 DEF Launch
        <3>2. AbstractMode = "dead"
            BY <1>0, <1>6 DEF Inv, Lockstep, Alive, AbstractMode
        <3>3. AbstractMode' \in {"stopped", "resumed"} /\ AbstractAt' = Entry
            BY <3>1 DEF AbstractMode, AbstractAt
        <3> QED
            BY <3>1, <3>2, <3>3 DEF TT!Next, TT!Launch
    <2> QED
        BY <2>1, <2>2
<1>7. ASSUME child = "stopped", child' \in {"resumed", "stepping"},
             pc = "prompt" \/ why # "int3", UNCHANGED <<rip, addr_list>>
      PROVE  Goal
    <2>1. AbstractMode = "stopped" /\ AbstractMode' = "resumed" /\ AbstractAt' = AbstractAt
        BY <1>7 DEF AbstractMode, AbstractAt
    <2> QED
        BY <1>7, <2>1 DEF TT!Next, TT!Resume
<1>8. ASSUME NEW status \in {"resumed", "stepping"}, AtPrompt, Resume(status) PROVE Goal
    BY <1>8, <1>4, <1>7 DEF Resume, KilledBetween, AtPrompt
<1>9. CASE start \/ si \/ cont \/ run
    BY <1>9, <1>2, <1>6, <1>8 DEF start, si, cont, run
<1>10. ASSUME NEW addr \in BreakArgs, set_break(addr) PROVE Goal
    <2>1. CASE Error \/ NoEffect
        BY <2>1, <1>2, <1>4
    <2>2. CASE ~(Error \/ NoEffect)
        <3>1. /\ child = "stopped" /\ DOMAIN addr_list' = DOMAIN addr_list \cup {addr}
              /\ UNCHANGED <<child, pc, why, rip>>
            BY <1>10, <2>2 DEF set_break, KilledBetween
        <3>2. AbstractMode = "stopped" /\ UNCHANGED <<AbstractMode, AbstractAt>>
            BY <3>1 DEF AbstractMode, AbstractAt
        <3> QED
            BY <3>1, <3>2 DEF TT!Next, TT!Change
    <2> QED
        BY <2>1, <2>2
<1>11. ASSUME NEW id \in DeleteArgs, del(id) PROVE Goal
    <2>1. CASE Error \/ NoEffect
        BY <2>1, <1>2, <1>4
    <2>2. CASE ~(Error \/ NoEffect)
        <3>1. PICK addr \in DOMAIN addr_list :
                 addr_list' = [a \in DOMAIN addr_list \ {addr} |-> addr_list[a]]
            BY <1>11, <2>2 DEF del
        <3>2. child = "stopped" /\ UNCHANGED <<child, pc, why, rip>>
            BY <1>11, <2>2 DEF del
        <3>3. AbstractMode = "stopped" /\ UNCHANGED <<AbstractMode, AbstractAt>>
            BY <3>2 DEF AbstractMode, AbstractAt
        <3>4. DOMAIN addr_list' = DOMAIN addr_list \ {addr}
            BY <3>1
        <3> QED
            BY <3>3, <3>4 DEF TT!Next, TT!Change
    <2> QED
        BY <2>1, <2>2
<1>12. ASSUME NEW val \in RipArgs, set_rip(val) PROVE Goal
    <2>1. CASE Error
        BY <2>1, <1>4
    <2>2. CASE ~Error
        <3>1. child = "stopped" /\ pc = "prompt" /\ rip' = val
              /\ UNCHANGED <<child, pc, addr_list>>
            BY <1>12, <2>2 DEF set_rip, KilledBetween, AtPrompt
        <3>2. /\ AbstractMode = "stopped" /\ AbstractMode' = AbstractMode
              /\ AbstractAt' = val
            BY <3>1 DEF AbstractMode, AbstractAt
        <3> QED
            BY <3>1, <3>2 DEF TT!Next, TT!Move
    <2> QED
        BY <2>1, <2>2
<1>13. CASE Passive
    BY <1>13, <1>2, <1>24, <1>4, PassiveOutcome
<1>14. CASE quit \/ Kill \/ check_exited \/ check_signaled
    BY <1>14, <1>3 DEF quit, Kill, check_exited, check_signaled, KilledWithTracer, Alive
<1>15. CASE check_sigstop
    BY <1>15 DEF check_sigstop, AbstractMode, AbstractAt
<1>16. ASSUME Trapped, why = "step" PROVE rip - 1 \notin DOMAIN addr_list
    BY <1>0, <1>16, NotBehind DEF Place, AbstractAt, Trapped, Alive
<1>17. ASSUME Trapped, rip - 1 \notin DOMAIN addr_list PROVE why = "step"
    BY <1>0, <1>17 DEF Place, Trapped
<1>18. CASE check_hit
    <2>1. /\ why = "int3" /\ child = "stopped" /\ pc = "waiting" /\ pc' = "prompt"
          /\ rip' = rip - 1 /\ UNCHANGED <<child, addr_list>>
        BY <1>16, <1>18 DEF check_hit, Trapped
    <2> QED
        BY <2>1 DEF AbstractMode, AbstractAt
<1>19. CASE check_before
    <2>1. why = "step"
        BY <1>17, <1>19 DEF check_before
    <2> QED
        BY <1>7, <1>19, <2>1 DEF check_before, Trapped
<1>20. CASE check_step
    <2>1. why = "step" /\ UNCHANGED <<child, why, rip, addr_list>>
        BY <1>17, <1>20 DEF check_step
    <2> QED
        BY <2>1 DEF AbstractMode, AbstractAt
<1>21. CASE check_lost \/ check_unshown
    BY <1>21, <1>4 DEF check_lost, check_unshown, NoHandle
<1>22. CASE Exec \/ SignalStop
    <2>1. /\ Executing /\ Alive /\ pc = "waiting" /\ Lifted = {pre_addr}
          /\ UNCHANGED <<pc, addr_list>>
        BY <1>0, <1>22 DEF Exec, ExecInt3, ExecInsn, ExecGarbage, SignalStop, Inv,
                           Lockstep, Executing, Alive, Lifted
    <2>2. AbstractAt = rip /\ rip \in Insns
        BY <1>0, <2>1 DEF Place, AbstractAt, Executing
    <2>3. AbstractMode \in {"resumed", "running"}
        BY <2>1 DEF AbstractMode, Executing
    <2>4. ~AtInt3 => Genuine(rip) /\ (rip \in DOMAIN addr_list => rip = pre_addr)
        BY <1>0, <2>1, <2>2, RunsOwnCode
    <2>5. CASE ExecInt3
        <3>1. child' = "stopped" /\ why' = "int3" /\ rip' = rip + 1
            BY <2>5 DEF ExecInt3, StoppedBy
        <3>2. rip' - 1 = rip
            BY <1>0, <3>1 DEF TypeOK
        <3>3. AbstractMode' = "stopped" /\ AbstractAt' = AbstractAt
            BY <2>1, <2>2, <3>1, <3>2 DEF AbstractMode, AbstractAt
        <3> QED
            BY <2>1, <2>3, <3>3 DEF TT!Next, TT!Stop
    <2>6. CASE SignalStop
        <3>1. child' = "stopped" /\ why' = "sig" /\ rip' = rip
            BY <2>6 DEF SignalStop, StoppedBy
        <3>2. AbstractMode' = "stopped" /\ AbstractAt' = AbstractAt
            BY <2>2, <3>1 DEF AbstractMode, AbstractAt
        <3> QED
            BY <2>1, <2>3, <3>2 DEF TT!Next, TT!Stop
    <2>7. CASE ExecInsn
        <3>1. PICK next \in Succ[rip] : GoTo(next)
            BY <2>7 DEF ExecInsn
        <3>2. AbstractMode = "resumed" \/ (AbstractMode = "running" /\ AbstractAt \notin DOMAIN addr_list)
            <4> SUFFICES ASSUME AbstractMode = "running", rip \in DOMAIN addr_list PROVE FALSE
                BY <2>2, <2>3
            <4>1. child = "running"
                BY <2>1 DEF AbstractMode, Executing
            <4>2. rip = pre_addr
                BY <2>4, <2>7 DEF ExecInsn
            <4>3. pre_addr # 0 /\ rip \in After(pre_addr)
                BY <1>0, <2>1, <2>2, <4>1, <4>2, SdbAssumption DEF Place
            <4>4. Follows(pre_addr, After(pre_addr))
                BY <1>0, <4>2, ListedPoints
            <4> QED
                BY <4>2, <4>3, <4>4 DEF Follows
        <3>3. CASE next # EXIT
            <4>1. rip' = next /\ child' \in {"stopped", "running"} /\ why' # "int3"
                BY <3>1, <3>3 DEF GoTo, Stepped
            <4>2. AbstractAt' = next /\ AbstractMode' \in {"running", "stopped"}
                BY <4>1 DEF AbstractMode, AbstractAt
            <4> QED
                BY <2>1, <2>2, <3>1, <3>2, <3>3, <4>2 DEF TT!Next, TT!Execute
        <3>4. CASE next = EXIT
            BY <2>1, <3>1, <3>4, <1>3 DEF GoTo, Alive
        <3> QED
            BY <3>3, <3>4
    <2>8. CASE ExecGarbage
        BY <2>4, <2>8 DEF ExecGarbage
    <2> QED
        BY <1>22, <2>5, <2>6, <2>7, <2>8 DEF Exec
<1>23. CASE UNCHANGED vars
    BY <1>23, <1>2 DEF NoEffect
<1> QED
    BY <1>5, <1>9, <1>10, <1>11, <1>12, <1>13, <1>14, <1>15, <1>18, <1>19, <1>20,
       <1>21, <1>22, <1>23
    DEF Next, Command, Passive, check_process

\* Breakpoints are transparent: for every program and every set of breakpoints that
\* meet the conditions, whatever the user types (but for deleting the breakpoint
\* stopped at) and whatever signals and kills come, the program executes its own
\* instructions and nothing else, and stops at every breakpoint it gets to.
THEOREM TransparencyHolds ==
    ASSUME Conditions
    PROVE  Spec /\ []CurrentListed => Transparency
<1>1. Init => TT!Init
    <2> SUFFICES ASSUME Init PROVE TT!Init
        OBVIOUS
    <2>1. AbstractMode = "dead" /\ AbstractAt = Entry /\ DOMAIN addr_list = {}
        BY DEF Init, AbstractMode, AbstractAt
    <2> QED
        BY <2>1 DEF TT!Init
<1>2. TraceInv /\ CurrentListed /\ [Next]_vars
         => [TT!Next]_<<AbstractMode, AbstractAt, DOMAIN addr_list>>
    BY TransparentStep
<1> QED
    BY <1>1, <1>2, TraceHolds, PTL DEF Spec, Transparency, TT!Spec

\* In particular for a user who deletes nothing, as in the run sdb_hello.
THEOREM TransparencyNoDeletion ==
    ASSUME Conditions, DeleteArgs = {}
    PROVE  Spec => Transparency
BY TransparencyHolds, NoDeletion, PTL
=============================================================================
