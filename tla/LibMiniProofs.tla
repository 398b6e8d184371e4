--------------------------- MODULE LibMiniProofs ---------------------------
(***************************************************************************)
(* What libmini promises to every program, proved for every set of         *)
(* functions, handlers and signals: the types of its state, and that the   *)
(* restorer, sa_mask and sigprocmask leave main with the mask it asked for,*)
(* however deep the handlers nest.                                         *)
(***************************************************************************)
EXTENDS LibMini, TLAPS

-----------------------------------------------------------------------------
(* The programs. *)

\* The arguments that the C prototypes of libmini.h let the compiler accept.
CallOK(call) ==
    /\ call.op \in {"sigaddset", "sigdelset", "sigismember"} =>
           call.set \in SetVars /\ call.sig \in Int
    /\ call.op = "sigemptyset" => call.set \in SetVars \cup {"NULL"}
    /\ call.op \in {"plain", "plain_ptr"} => call.errors \subseteq Nat \ {0}
    /\ call.op = "sigprocmask" =>
           /\ call.how \in {"SIG_BLOCK", "SIG_UNBLOCK", "SIG_SETMASK"}
           /\ call.set \in SetVars
           /\ call.oldset \in SetVars \cup {"NULL"}
    /\ call.op = "sigpending" => call.set \in SetVars
    /\ call.op = "signal" =>
           /\ call.sig \in Int
           /\ call.handler \in DOMAIN Code \cup {"SIG_DFL", "SIG_IGN"}
    /\ call.op \in {"alarm", "sleep"} => call.seconds \in Nat
    /\ call.op = "longjmp" => call.val \in Int
    /\ call.op = "if" => call.else \in Nat \ {0}

\* A program that compiles.
Compiles ==
    /\ SIGALRM \in Signals
    /\ \A f \in DOMAIN Code : Len(Code[f]) \in Nat
    /\ \A f \in DOMAIN Code : \A n \in 1..Len(Code[f]) : CallOK(Code[f][n])

\* What C leaves to the program: longjmp goes back to a function that has not
\* returned, and funs[i] is within the array.
Defined ==
    AtCall =>
        /\ Call.op = "longjmp" => jb.depth \in 1..Len(stack)
        /\ Call.op = "funs[i]" => i + 1 \in DOMAIN Funs

\* A jump that leaves no handler, between two points that run with the same
\* mask: longjmp does not put the mask back, see the run mini_jump.
JumpsKeepMask == AtCall /\ Call.op = "longjmp" => InMain /\ mask = jb.held

-----------------------------------------------------------------------------
(* The inductive invariants. *)

\* The stack has main at its bottom, which no signal called, and every function
\* is at one of its calls or behind the last one.
StackOK ==
    /\ stack[1].sig = 0
    /\ \A k \in 1..Len(stack) : stack[k].at > 0
    /\ jb.depth > 0 => jb.at > 0

TInv == TypeOK /\ StackOK

\* The lowest handler on the stack is the one that interrupted main, and the mask
\* its rt_sigreturn puts back is that of main; those above put back other masks.
PutBack ==
    \A k \in 1..Len(stack) :
        stack[k].sig # 0 /\ (\A j \in 1..(k - 1) : stack[j].sig = 0) => stack[k].mask = wanted

MaskInv == (InMain => mask = wanted) /\ PutBack

-----------------------------------------------------------------------------
(* The stack. *)

\* A step of the running function keeps the handlers and their masks.
FramesKept ==
    /\ Len(stack') = Len(stack)
    /\ \A k \in 1..Len(stack) :
           stack'[k].sig = stack[k].sig /\ stack'[k].mask = stack[k].mask

\* It keeps the types of the stack, too.
StackKept ==
    /\ stack' \in Seq(Activation) /\ stack' # <<>>
    /\ stack'[1].sig = 0
    /\ \A k \in 1..Len(stack') : stack'[k].at > 0
    /\ FramesKept

\* A step that leaves the masks of the process, of main and of the handlers alone.
Quiet == FramesKept /\ mask' = mask /\ wanted' = wanted

\* The running function has a frame, and is at one of its calls or behind them.
LEMMA TopType ==
    ASSUME TInv
    PROVE  /\ Len(stack) \in Nat /\ Len(stack) >= 1
           /\ Len(stack) \in DOMAIN stack
           /\ DOMAIN stack = 1..Len(stack)
           /\ Top \in Activation
           /\ Top.at > 0
BY DEF TInv, TypeOK, StackOK, Top

\* The call the running function is about to make has arguments of the right types.
LEMMA CallType ==
    ASSUME Compiles, TInv, AtCall
    PROVE  CallOK(Call)
<1>1. Top.fn \in DOMAIN Code /\ Top.at \in 1..Len(Code[Top.fn])
  BY TopType DEF Activation, AtCall, Compiles
<1> QED BY <1>1 DEF Compiles, Call

\* Replacing what the running function does next keeps the types of the stack,
\* the handlers on it and their masks.
LEMMA ReplaceTop ==
    ASSUME TInv, NEW act \in Activation, act.sig = Top.sig, act.mask = Top.mask, act.at > 0,
           stack' = WithTop(act)
    PROVE  StackKept
<1>1. stack \in Seq(Activation) /\ Len(stack) \in Nat /\ Len(stack) >= 1
  BY TopType DEF TInv, TypeOK
<1>2. /\ stack' \in Seq(Activation) /\ Len(stack') = Len(stack)
      /\ \A k \in 1..Len(stack) : stack'[k] = IF k = Len(stack) THEN act ELSE stack[k]
  BY <1>1 DEF WithTop
<1>3. stack[1].sig = 0 /\ \A k \in 1..Len(stack) : stack[k].at > 0
  BY DEF TInv, StackOK
<1>4. FramesKept
  BY <1>1, <1>2 DEF FramesKept, Top
<1> QED BY <1>1, <1>2, <1>3, <1>4 DEF FramesKept, StackKept

\* What the library and the kernel do to the running function are such
\* replacements: returning from a library function,
LEMMA ReturnKeeps ==
    ASSUME TInv, NEW v \in Int, Return(v)
    PROVE  StackKept
<1> DEFINE next == Top.at + 1
           act == [Top EXCEPT !.call = "no", !.rax = v, !.at = next]
<1>1. next \in Nat /\ next > 0
  BY TopType DEF Activation
<1>2. stack' = WithTop(act)
  BY TopType DEF Return, Activation
<1> HIDE DEF next
<1>3. act \in Activation /\ act.sig = Top.sig /\ act.mask = Top.mask /\ act.at > 0
  BY <1>1, TopType DEF Activation
<1> HIDE DEF act
<1> QED BY <1>2, <1>3, ReplaceTop

\* from a system call,
LEMMA SysReturnKeeps ==
    ASSUME TInv, NEW r \in Int, SysReturn(r)
    PROVE  StackKept
<1> DEFINE act == [Top EXCEPT !.call = "back", !.ret = r]
<1>1. act \in Activation /\ act.sig = Top.sig /\ act.mask = Top.mask /\ act.at > 0
  BY TopType DEF Activation
<1> HIDE DEF act
<1>2. stack' = WithTop(act)
  BY DEF SysReturn, act
<1> QED BY <1>1, <1>2, ReplaceTop

\* waiting in one,
LEMMA BlockKeeps ==
    ASSUME TInv, Block
    PROVE  StackKept
<1> DEFINE act == [Top EXCEPT !.call = "blocked"]
<1>1. act \in Activation /\ act.sig = Top.sig /\ act.mask = Top.mask /\ act.at > 0
  BY TopType DEF Activation
<1> HIDE DEF act
<1>2. stack' = WithTop(act)
  BY DEF Block, act
<1> QED BY <1>1, <1>2, ReplaceTop

\* and going on at either side of an if.
LEMMA IfKeeps ==
    ASSUME Compiles, TInv, AtCall, If
    PROVE  StackKept
<1> DEFINE to == IF Holds(Call.cond) THEN Top.at + 1 ELSE Call.else
           act == [Top EXCEPT !.at = to]
<1>1. Call.else \in Nat \ {0}
  BY CallType DEF CallOK, If
<1>2. to \in Nat /\ to > 0
  BY <1>1, TopType DEF Activation
<1> HIDE DEF to
<1>3. act \in Activation /\ act.sig = Top.sig /\ act.mask = Top.mask /\ act.at > 0
  BY <1>2, TopType DEF Activation
<1> HIDE DEF act
<1>4. stack' = WithTop(act)
  BY TopType DEF If, act, to, Activation
<1> QED BY <1>3, <1>4, ReplaceTop

\* Calling a function, from main or for a signal, puts a frame on top of the others.
LEMMA PushFrame ==
    ASSUME TInv, NEW below, below \in Seq(Activation), Len(below) = Len(stack),
           \A k \in 1..Len(stack) : below[k].at > 0 /\ below[k].sig = stack[k].sig
                                     /\ below[k].mask = stack[k].mask,
           NEW f \in DOMAIN Code, NEW s \in Signals \cup {0},
           stack' = Append(below, Called(f, s))
    PROVE  /\ stack' \in Seq(Activation) /\ stack' # <<>>
           /\ stack'[1].sig = 0
           /\ \A k \in 1..Len(stack') : stack'[k].at > 0
           /\ Len(stack') = Len(stack) + 1
           /\ \A k \in 1..Len(stack) :
                  stack'[k].sig = stack[k].sig /\ stack'[k].mask = stack[k].mask
           /\ stack'[Len(stack) + 1].sig = s /\ stack'[Len(stack) + 1].mask = mask
<1>1. Len(stack) \in Nat /\ Len(stack) >= 1 /\ stack[1].sig = 0
  BY TopType DEF TInv, StackOK
<1>2. /\ Called(f, s) \in Activation /\ Called(f, s).at = 1
      /\ Called(f, s).sig = s /\ Called(f, s).mask = mask
  BY DEF TInv, TypeOK, Activation, Called
<1>3. /\ stack' \in Seq(Activation) /\ Len(stack') = Len(stack) + 1
      /\ \A k \in 1..Len(stack) : stack'[k] = below[k]
      /\ stack'[Len(stack) + 1] = Called(f, s)
  BY <1>1, <1>2
<1>4. \A k \in 1..Len(stack') : k \in 1..Len(stack) \/ k = Len(stack) + 1
  BY <1>1, <1>3
<1>5. \A k \in 1..Len(stack') : stack'[k].at > 0
  BY <1>2, <1>3, <1>4
<1>6. stack'[1].sig = 0
  BY <1>1, <1>3
<1> QED BY <1>1, <1>2, <1>3, <1>5, <1>6

-----------------------------------------------------------------------------
(* The types, action by action; each lemma also says what the action does to the *)
(* masks.                                                                        *)

\* Words and masks are converted into one another without leaving their types.
LEMMA WordType == \A signals \in SUBSET Signals : WordOf(signals) \in SUBSET Bits
BY LibMiniAssumption DEF WordOf, Bits, NSIG

LEMMA SignalsType == \A word : SignalsOf(word) \in SUBSET Signals
BY DEF SignalsOf

\* A library function that returns, with an error or without.
LEMMA DoneKeeps ==
    ASSUME TInv, NEW e \in Nat, NEW v \in Int, Done(e, v)
    PROVE  StackKept /\ errno' \in Nat /\ failed' \in Nat
BY ReturnKeeps DEF Done, TInv, TypeOK

LEMMA OnSetKeeps ==
    ASSUME TInv, NEW var, NEW word \in SUBSET Bits, NEW v \in Int, OnSet(var, word, v)
    PROVE  /\ StackKept /\ errno' \in Nat /\ failed' \in Nat
           /\ sets' \in [SetVars -> SUBSET Bits]
<1>1. Done(NoError, v) /\ NoError \in Nat
  BY DEF OnSet, NoError
<1>2. StackKept /\ errno' \in Nat /\ failed' \in Nat
  BY <1>1, DoneKeeps
<1>3. sets' \in [SetVars -> SUBSET Bits]
  BY DEF OnSet, TInv, TypeOK
<1> QED BY <1>2, <1>3

LEMMA RefusedKeeps ==
    ASSUME TInv, NEW signum, Refused(signum)
    PROVE  /\ StackKept /\ errno' \in Nat /\ failed' \in Nat
           /\ sets' \in [SetVars -> SUBSET Bits]
<1>1. Done(EINVAL, -1) /\ EINVAL \in Nat /\ -1 \in Int
  BY DEF Refused, EINVAL
<1>2. StackKept /\ errno' \in Nat /\ failed' \in Nat
  BY <1>1, DoneKeeps
<1> QED BY <1>2 DEF Refused, TInv, TypeOK

LEMMA UserCallStep ==
    ASSUME Compiles, TInv, AtCall, UserCall
    PROVE  TInv' /\ Quiet
<1> DEFINE Good == /\ StackKept /\ errno' \in Nat /\ failed' \in Nat
                   /\ sets' \in [SetVars -> SUBSET Bits]
<1>. SUFFICES Good
  BY DEF UserCall, TInv, TypeOK, StackOK, StackKept, Quiet, program, kernel
<1>0. CallOK(Call)
  BY CallType
<1>1. sets \in [SetVars -> SUBSET Bits]
  BY DEF TInv, TypeOK
<1>2. \A n \in Int : Valid(n) => sigmask(n) \in SUBSET Bits
  BY DEF Valid, sigmask, Bits, NSIG
<1>3. CASE Call.op = "sigemptyset" /\ sigemptyset(Call.set)
  <2>1. CASE Done(1, -1) /\ UNCHANGED sets
    <3>1. 1 \in Nat /\ -1 \in Int
      OBVIOUS
    <3> QED BY <2>1, <3>1, <1>1, DoneKeeps
  <2>2. CASE OnSet(Call.set, {}, 0)
    BY <2>2, OnSetKeeps
  <2> QED BY <1>3, <2>1, <2>2 DEF sigemptyset
<1>4. CASE Call.op = "sigaddset" /\ sigaddset(Call.set, Call.sig)
  <2>1. CASE Refused(Call.sig)
    BY <2>1, RefusedKeeps
  <2>2. CASE Valid(Call.sig) /\ OnSet(Call.set, sets[Call.set] \cup sigmask(Call.sig), 0)
    <3>1. sets[Call.set] \cup sigmask(Call.sig) \in SUBSET Bits
      BY <1>0, <1>1, <1>2, <1>4, <2>2 DEF CallOK
    <3> QED BY <2>2, <3>1, OnSetKeeps
  <2> QED BY <1>4, <2>1, <2>2 DEF sigaddset
<1>5. CASE Call.op = "sigdelset" /\ sigdelset(Call.set, Call.sig)
  <2>1. CASE Refused(Call.sig)
    BY <2>1, RefusedKeeps
  <2>2. CASE Valid(Call.sig) /\ OnSet(Call.set, sets[Call.set] \ sigmask(Call.sig), 0)
    <3>1. sets[Call.set] \ sigmask(Call.sig) \in SUBSET Bits
      BY <1>0, <1>1, <1>5 DEF CallOK
    <3>2. \A word \in SUBSET Bits : OnSet(Call.set, word, 0) => Good
      BY OnSetKeeps
    <3> HIDE DEF Good
    <3> QED BY <2>2, <3>1, <3>2
  <2> QED BY <1>5, <2>1, <2>2 DEF sigdelset
<1>6. CASE Call.op = "sigismember" /\ sigismember(Call.set, Call.sig)
  <2>1. CASE Refused(Call.sig)
    BY <2>1, RefusedKeeps
  <2>2. ASSUME NEW v \in {0, 1}, OnSet(Call.set, sets[Call.set], v)
        PROVE  Good
    <3>1. sets[Call.set] \in SUBSET Bits
      BY <1>0, <1>1, <1>6 DEF CallOK
    <3>2. v \in Int
      OBVIOUS
    <3> QED BY <2>2, <3>1, <3>2, OnSetKeeps
  <2> QED BY <1>6, <2>1, <2>2 DEF sigismember
<1>7. CASE Call.op = "sigfillset" /\ sigfillset
  <2>1. Done(NoError, 0) /\ NoError \in Nat
    BY <1>7 DEF sigfillset, NoError
  <2>2. StackKept /\ errno' \in Nat /\ failed' \in Nat
    BY <2>1, DoneKeeps
  <2>3. sets' \in [SetVars -> SUBSET Bits]
    BY <1>1, <1>7 DEF sigfillset
  <2> QED BY <2>2, <2>3
<1> QED BY <1>3, <1>4, <1>5, <1>6, <1>7 DEF UserCall

\* exit, a signal's default action and a crash change nothing but the status.
LEMMA StopStep ==
    ASSUME TInv, NEW why \in {"exited", "killed", "segv"}, Stop(why)
    PROVE  TInv' /\ Quiet
BY DEF Stop, TInv, TypeOK, StackOK, Quiet, FramesKept, program, library, history

LEMMA PerrorStep ==
    ASSUME TInv, Perror
    PROVE  TInv' /\ Quiet
<1>1. errno \in Nat /\ WriteErrno \subseteq Nat
  BY LibMiniAssumption DEF TInv, TypeOK, WriteErrno, NoError
<1>2. \A checked, backup \in Nat : Message(checked, backup) \in -3..34
  BY DEF Message, PERRMSG_MIN, PERRMSG_MAX, Unknown, Garbage
<1>3. PICK checked \in Nat : told' = Message(checked, errno)
  BY <1>1 DEF Perror, perror
<1>4. told' \in -3..34 /\ errno' \in Nat
  BY <1>1, <1>2, <1>3 DEF Perror, perror
<1>5. Top.rax \in Int /\ Return(Top.rax)
  BY TopType DEF Perror, Activation
<1>6. StackKept
  BY <1>5, ReturnKeeps
<1> QED BY <1>4, <1>6 DEF Perror, TInv, TypeOK, StackOK, StackKept, Quiet, program, kernel

\* The mask that sigprocmask sets is one of signals, and main gets what it asks for.
LEMMA SigprocmaskStep ==
    ASSUME Compiles, TInv, AtCall, Call.op = "sigprocmask",
           sigprocmask(Call.how, Call.set, Call.oldset),
           UNCHANGED <<program, errno, jb, status, pending, disp, sa_mask, timer,
                       rem, sent, said, failed, told>>
    PROVE  /\ TInv' /\ FramesKept
           /\ wanted' = IF InMain THEN mask' ELSE wanted
<1>1. StackKept
  BY SysReturnKeeps DEF sigprocmask
<1>2. /\ Call.how \in {"SIG_BLOCK", "SIG_UNBLOCK", "SIG_SETMASK"}
      /\ SignalsOf(sets[Call.set]) \in SUBSET Signals
  BY CallType, SignalsType DEF CallOK
<1>3. mask' \subseteq Signals /\ wanted' \subseteq Signals
  BY <1>2 DEF sigprocmask, NewMask, TInv, TypeOK
<1>4. sets' \in [SetVars -> SUBSET Bits]
  BY WordType DEF sigprocmask, TInv, TypeOK
<1> QED BY <1>1, <1>3, <1>4 DEF sigprocmask, TInv, TypeOK, StackOK, StackKept, program

LEMMA SystemCallStep ==
    ASSUME Compiles, TInv, AtCall, SystemCall
    PROVE  /\ TInv' /\ FramesKept
           /\ \/ mask' = mask /\ wanted' = wanted
              \/ wanted' = IF InMain THEN mask' ELSE wanted
<1>0. CallOK(Call)
  BY CallType
<1>1. CASE /\ Call.op = "write" /\ write(Call.word)
           /\ UNCHANGED <<program, library, kernel, failed, told, wanted>>
  <2>1. PICK r \in Int : SysReturn(r)
    BY <1>1, LibMiniAssumption DEF write
  <2>2. StackKept
    BY <2>1, SysReturnKeeps
  <2> QED BY <1>1, <2>2 DEF TInv, TypeOK, StackOK, StackKept, program, library, kernel
<1>2. CASE /\ Call.op \in {"plain", "plain_ptr"} /\ plain(Call.errors)
           /\ UNCHANGED <<program, library, kernel, history>>
  <2>1. PICK r \in Int : SysReturn(r)
    BY <1>0, <1>2 DEF plain, CallOK
  <2>2. StackKept
    BY <2>1, SysReturnKeeps
  <2> QED BY <1>2, <2>2 DEF TInv, TypeOK, StackOK, StackKept, program, library, kernel, history
<1>3. CASE /\ Call.op = "sigprocmask" /\ sigprocmask(Call.how, Call.set, Call.oldset)
           /\ UNCHANGED <<program, errno, jb, status, pending, disp, sa_mask, timer,
                          rem, sent, said, failed, told>>
  BY <1>3, SigprocmaskStep
<1>4. CASE /\ Call.op = "sigpending" /\ sigpending(Call.set)
           /\ UNCHANGED <<program, errno, jb, kernel, history>>
  <2>1. StackKept
    BY <1>4, SysReturnKeeps DEF sigpending
  <2>2. WordOf(pending \cap mask) \in SUBSET Bits
    BY WordType DEF TInv, TypeOK
  <2>3. sets' \in [SetVars -> SUBSET Bits]
    BY <1>4, <2>2 DEF sigpending, TInv, TypeOK
  <2> QED BY <1>4, <2>1, <2>3 DEF TInv, TypeOK, StackOK, StackKept, program, kernel, history
<1>5. CASE /\ Call.op = "signal" /\ signal(Call.sig, Call.handler)
           /\ UNCHANGED <<program, sets, jb, status, mask, timer, rem, sent, said,
                          told, wanted>>
  <2>1. CASE Done(EINVAL, -1) /\ UNCHANGED <<disp, sa_mask, pending>>
    <3>1. EINVAL \in Nat /\ -1 \in Int
      BY DEF EINVAL
    <3>2. StackKept /\ errno' \in Nat /\ failed' \in Nat
      BY <2>1, <3>1, DoneKeeps
    <3> QED BY <1>5, <2>1, <3>2 DEF TInv, TypeOK, StackOK, StackKept, program
  <2>2. CASE /\ sigaction(Call.sig, Call.handler, sigmask(Call.sig))
             /\ errno' = NoError /\ UNCHANGED failed
    <3>1. StackKept
      BY <2>2, SysReturnKeeps DEF sigaction
    <3>2. Call.handler \in DOMAIN Code \cup {"SIG_DFL", "SIG_IGN"}
      BY <1>0, <1>5 DEF CallOK
    <3>3. disp' \in [Signals -> DOMAIN Code \cup {"SIG_DFL", "SIG_IGN"}]
      BY <2>2, <3>2 DEF sigaction, TInv, TypeOK
    <3>4. sa_mask' \in [Signals -> SUBSET Signals] /\ pending' \subseteq Signals
      BY <2>2, SignalsType DEF sigaction, TInv, TypeOK
    <3> QED BY <1>5, <2>2, <3>1, <3>3, <3>4
            DEF NoError, TInv, TypeOK, StackOK, StackKept, program
  <2> QED BY <1>5, <2>1, <2>2 DEF signal
<1>6. CASE /\ Call.op = "alarm" /\ alarm(Call.seconds)
           /\ UNCHANGED <<program, library, status, mask, pending, disp, sa_mask, rem,
                          sent, history>>
  <2>1. timer \in Int /\ Call.seconds \in Nat
    BY <1>0, <1>6 DEF CallOK, TInv, TypeOK
  <2>2. StackKept
    BY <1>6, <2>1, SysReturnKeeps DEF alarm
  <2> QED BY <1>6, <2>1, <2>2
          DEF alarm, TInv, TypeOK, StackOK, StackKept, program, library, history
<1>7. CASE /\ \/ Call.op = "pause" /\ pause
              \/ Call.op = "sleep" /\ sleep(Call.seconds)
           /\ UNCHANGED <<program, library, status, mask, pending, disp, sa_mask,
                          timer, sent, history>>
  <2>1. StackKept
    BY <1>7, BlockKeeps DEF pause, sleep
  <2>2. rem' \in Nat
    BY <1>0, <1>7 DEF CallOK, pause, sleep, TInv, TypeOK
  <2> QED BY <1>7, <2>1, <2>2
          DEF TInv, TypeOK, StackOK, StackKept, program, library, history
<1> QED BY <1>1, <1>2, <1>3, <1>4, <1>5, <1>6, <1>7 DEF SystemCall

LEMMA WrapStep ==
    ASSUME TInv, Wrap
    PROVE  TInv' /\ Quiet
<1> DEFINE Good == StackKept /\ errno' \in Nat /\ failed' \in Nat
<1>. SUFFICES Good
  BY DEF Wrap, TInv, TypeOK, StackOK, StackKept, Quiet, program, kernel
<1>1. Top.ret \in Int /\ NoError \in Nat /\ rem \in Nat /\ errno \in Nat /\ failed \in Nat
  BY TopType DEF Activation, NoError, TInv, TypeOK
<1>2. CASE sleep_return
  <2>1. PICK v \in Int : Return(v)
    BY <1>1, <1>2 DEF sleep_return
  <2>2. StackKept
    BY <2>1, ReturnKeeps
  <2> QED BY <1>1, <1>2, <2>2 DEF sleep_return
<1>3. CASE WRAPPER_RETptr \/ WRAPPER_RETval
  <2>1. \E e \in Nat, v \in Int : Done(e, v)
    <3>1. CASE Top.ret < 0
      <4>1. -Top.ret \in Nat /\ 0 \in Int /\ -1 \in Int
        BY <1>1, <3>1
      <4> QED BY <1>3, <3>1, <4>1 DEF WRAPPER_RETptr, WRAPPER_RETval
    <3>2. CASE ~(Top.ret < 0)
      BY <1>1, <1>3, <3>2 DEF WRAPPER_RETptr, WRAPPER_RETval
    <3> QED BY <3>1, <3>2
  <2> QED BY <2>1, DoneKeeps
<1> QED BY <1>2, <1>3 DEF Wrap

LEMMA SetjmpStep ==
    ASSUME TInv, setjmp
    PROVE  TInv' /\ Quiet
<1>1. StackKept
  BY ReturnKeeps DEF setjmp
<1>2. /\ Top.at + 1 \in Nat /\ Top.at + 1 > 0
      /\ Len(stack) \in Nat
  BY TopType DEF Activation
<1>3. /\ mask \subseteq Signals /\ jb.mask \in SUBSET Bits /\ WordOf(mask) \in SUBSET Bits
  BY WordType DEF TInv, TypeOK
<1>4. jb' \in [at : Nat, depth : Nat, mask : SUBSET Bits, held : SUBSET Signals] /\ jb'.at > 0
  BY <1>2, <1>3 DEF setjmp
<1> QED BY <1>1, <1>4 DEF setjmp, TInv, TypeOK, StackOK, StackKept, Quiet, program, kernel, history

\* A jump cuts the stack back to the function that called setjmp.  The address
\* the kernel is given for the mask is not mapped: the mask stays.
LEMMA LongJumpStep ==
    ASSUME Compiles, Defined, TInv, AtCall, LongJump
    PROVE  /\ TInv'
           /\ Len(stack') \in 1..Len(stack)
           /\ \A k \in 1..Len(stack') :
                  stack'[k].sig = stack[k].sig /\ stack'[k].mask = stack[k].mask
           /\ mask' = mask /\ wanted' = jb.held
<1> DEFINE d == jb.depth
           cut == SubSeq(stack, 1, d)
           act == [stack[d] EXCEPT !.call = "no", !.at = jb.at, !.rax = Call.val]
<1>1. d \in 1..Len(stack) /\ stack \in Seq(Activation) /\ Len(stack) \in Nat
  BY TopType DEF LongJump, Defined, TInv, TypeOK
<1>2. Call.val \in Int
  BY CallType DEF CallOK, LongJump
<1>3. jb.at \in Nat /\ jb.at > 0
  BY <1>1 DEF TInv, TypeOK, StackOK
<1>4. stack[d] \in Activation
  BY <1>1
<1>5. /\ act \in Activation /\ act.sig = stack[d].sig /\ act.mask = stack[d].mask
      /\ act.at > 0
  BY <1>2, <1>3, <1>4 DEF Activation
<1>6. /\ cut \in Seq(Activation) /\ Len(cut) = d
      /\ \A k \in 1..d : cut[k] = stack[k]
  BY <1>1
<1>7. stack' = [cut EXCEPT ![d] = act]
  <2>1. stack' = [cut EXCEPT ![d] = [@ EXCEPT !.call = "no", !.at = jb.at, !.rax = Call.val]]
    BY DEF LongJump, longjmp, Jump
  <2>2. cut[d] = stack[d]
    BY <1>1, <1>6
  <2> QED BY <2>1, <2>2
<1>8. mask' = mask /\ wanted' = jb.held
  BY DEF LongJump, longjmp, Jump, Copied, Mapped
<1> HIDE DEF act, cut
<1>9. /\ stack' \in Seq(Activation) /\ Len(stack') = d
      /\ \A k \in 1..d : stack'[k] = IF k = d THEN act ELSE stack[k]
  BY <1>1, <1>5, <1>6, <1>7
<1> HIDE DEF d
<1>10. /\ stack'[1].sig = 0 /\ stack' # <<>>
       /\ \A k \in 1..Len(stack') : stack'[k].at > 0
  BY <1>1, <1>5, <1>9 DEF TInv, StackOK
<1>11. wanted' \subseteq Signals
  BY <1>8 DEF TInv, TypeOK
<1>12. TInv'
  BY <1>8, <1>9, <1>10, <1>11 DEF LongJump, TInv, TypeOK, StackOK, program, library
<1> QED BY <1>1, <1>5, <1>8, <1>9, <1>12

LEMMA IfStep ==
    ASSUME Compiles, TInv, AtCall, If
    PROVE  TInv' /\ Quiet
BY IfKeeps DEF If, TInv, TypeOK, StackOK, StackKept, Quiet, program, library, kernel, history

LEMMA IncrementStep ==
    ASSUME TInv, Increment
    PROVE  TInv' /\ Quiet
<1>1. Top.rax \in Int /\ Return(Top.rax)
  BY TopType DEF Increment, Activation
<1>2. StackKept
  BY <1>1, ReturnKeeps
<1> QED BY <1>2
        DEF Increment, TInv, TypeOK, StackOK, StackKept, Quiet, library, kernel, history

LEMMA CallFunStep ==
    ASSUME Defined, TInv, AtCall, CallFun
    PROVE  /\ TInv' /\ mask' = mask /\ wanted' = wanted
           /\ Len(stack') = Len(stack) + 1
           /\ \A k \in 1..Len(stack) :
                  stack'[k].sig = stack[k].sig /\ stack'[k].mask = stack[k].mask
           /\ stack'[Len(stack) + 1].sig = 0
<1>1. Funs[i + 1] \in DOMAIN Code
  BY LibMiniAssumption DEF Defined, CallFun
<1>2. /\ stack \in Seq(Activation)
      /\ \A k \in 1..Len(stack) : stack[k].at > 0
  BY DEF TInv, TypeOK, StackOK
<1>3. stack' = Append(stack, Called(Funs[i + 1], 0))
  BY DEF CallFun
<1>4. /\ stack' \in Seq(Activation) /\ stack' # <<>>
      /\ stack'[1].sig = 0
      /\ \A k \in 1..Len(stack') : stack'[k].at > 0
      /\ Len(stack') = Len(stack) + 1
      /\ \A k \in 1..Len(stack) :
             stack'[k].sig = stack[k].sig /\ stack'[k].mask = stack[k].mask
      /\ stack'[Len(stack) + 1].sig = 0
  BY <1>1, <1>2, <1>3, PushFrame
<1> QED BY <1>4 DEF CallFun, TInv, TypeOK, StackOK, program, library, kernel, history

\* A handler that returns leaves the stack as it was when the signal came, and the
\* mask that was kept with it.
LEMMA MyrtStep ==
    ASSUME TInv, myrt
    PROVE  /\ TInv' /\ wanted' = wanted
           /\ Len(stack) > 1 /\ stack[Len(stack)].sig # 0
           /\ mask' = stack[Len(stack)].mask
           /\ Len(stack') = Len(stack) - 1
           /\ \A k \in 1..(Len(stack) - 1) : stack'[k] = stack[k]
<1>1. /\ stack \in Seq(Activation) /\ Len(stack) \in Nat /\ Len(stack) >= 1
      /\ stack[1].sig = 0 /\ \A k \in 1..Len(stack) : stack[k].at > 0
  BY TopType DEF TInv, TypeOK, StackOK
<1>2. stack[Len(stack)].sig # 0 /\ Len(stack) > 1
  BY <1>1 DEF myrt, Top
<1>3. stack[Len(stack)] \in Activation
  BY <1>1
<1>4. /\ stack' \in Seq(Activation) /\ Len(stack') = Len(stack) - 1
      /\ \A k \in 1..(Len(stack) - 1) : stack'[k] = stack[k]
  BY <1>1, <1>2 DEF myrt, AfterHandler
<1>5. stack' # <<>> /\ stack'[1].sig = 0 /\ \A k \in 1..Len(stack') : stack'[k].at > 0
  BY <1>1, <1>2, <1>4
<1>6. mask' = stack[Len(stack)].mask /\ mask' \subseteq Signals
  BY <1>3 DEF myrt, Top, Activation
<1> QED BY <1>2, <1>4, <1>5, <1>6
        DEF myrt, AfterHandler, TInv, TypeOK, StackOK, program, library, history

LEMMA PendedType ==
    ASSUME TInv, NEW s \in Signals
    PROVE  Pended(s) \subseteq Signals
BY DEF Pended, TInv, TypeOK

LEMMA TickStep ==
    ASSUME Compiles, TInv, Tick
    PROVE  TInv' /\ Quiet
<1>1. pending' \subseteq Signals
  BY PendedType DEF Compiles, Tick, TInv, TypeOK
<1>2. timer' \in Nat /\ rem' \in Nat
  BY DEF Tick, TInv, TypeOK
<1>3. StackKept
  <2>1. CASE SysReturn(0)
    BY <2>1, SysReturnKeeps
  <2>2. CASE UNCHANGED stack
    BY <2>2 DEF TInv, TypeOK, StackOK, StackKept, FramesKept
  <2> QED BY <2>1, <2>2 DEF Tick
<1> QED BY <1>1, <1>2, <1>3
        DEF Tick, TInv, TypeOK, StackOK, StackKept, Quiet, program, library, history

LEMMA SendStep ==
    ASSUME TInv, NEW s \in Outside, Send(s)
    PROVE  TInv' /\ Quiet
<1>1. pending' \subseteq Signals
  BY PendedType, LibMiniAssumption DEF Send
<1>2. sent' \in 0..MaxSent
  BY LibMiniAssumption DEF Send, TInv, TypeOK
<1> QED BY <1>1, <1>2
        DEF Send, TInv, TypeOK, StackOK, Quiet, FramesKept, program, library, history

\* A handler that is called keeps the mask of the function it interrupts.
Handled(s) ==
    /\ Len(stack') = Len(stack) + 1
    /\ \A k \in 1..Len(stack) :
           stack'[k].sig = stack[k].sig /\ stack'[k].mask = stack[k].mask
    /\ stack'[Len(stack) + 1].sig = s
    /\ stack'[Len(stack) + 1].mask = mask

LEMMA DeliverStep ==
    ASSUME TInv, NEW s \in Signals, Deliver(s)
    PROVE  TInv' /\ (Quiet \/ (Handled(s) /\ wanted' = wanted))
<1>0. pending' \subseteq Signals
  BY DEF Deliver, TInv, TypeOK
<1>1. CASE UNCHANGED <<stack, mask>> /\ status' \in {status, "killed"}
  BY <1>0, <1>1
     DEF Deliver, TInv, TypeOK, StackOK, Quiet, FramesKept, program, library, history
<1>2. CASE /\ disp[s] \notin {"SIG_DFL", "SIG_IGN"}
           /\ stack' = Append(WithTop(Interrupted), Called(disp[s], s))
           /\ mask' = mask \cup sa_mask[s] \cup {s}
           /\ UNCHANGED status
  <2>1. disp[s] \in DOMAIN Code /\ sa_mask[s] \subseteq Signals
    BY <1>2 DEF TInv, TypeOK
  <2>2. -EINTR \in Int
    BY DEF EINTR
  <2>3. /\ Interrupted \in Activation /\ Interrupted.at > 0
        /\ Interrupted.sig = Top.sig /\ Interrupted.mask = Top.mask
    BY <2>2, TopType DEF Interrupted, Activation
  <2> DEFINE below == WithTop(Interrupted)
  <2>4. stack \in Seq(Activation) /\ Len(stack) \in Nat /\ Len(stack) >= 1
    BY TopType DEF TInv, TypeOK
  <2>5. /\ below \in Seq(Activation) /\ Len(below) = Len(stack)
        /\ \A k \in 1..Len(stack) :
               below[k] = IF k = Len(stack) THEN Interrupted ELSE stack[k]
    BY <2>3, <2>4 DEF WithTop
  <2> HIDE DEF below
  <2>6. \A k \in 1..Len(stack) :
            below[k].at > 0 /\ below[k].sig = stack[k].sig /\ below[k].mask = stack[k].mask
    BY <2>3, <2>4, <2>5 DEF Top, TInv, StackOK
  <2>7. stack' = Append(below, Called(disp[s], s))
    BY <1>2 DEF below
  <2>8. /\ stack' \in Seq(Activation) /\ stack' # <<>>
        /\ stack'[1].sig = 0
        /\ \A k \in 1..Len(stack') : stack'[k].at > 0
        /\ Handled(s)
    BY <2>1, <2>5, <2>6, <2>7, PushFrame DEF Handled
  <2>9. mask' \subseteq Signals
    BY <1>2, <2>1 DEF TInv, TypeOK
  <2> QED BY <1>0, <1>2, <2>8, <2>9
          DEF Deliver, TInv, TypeOK, StackOK, program, library, history
<1> QED BY <1>1, <1>2 DEF Deliver

-----------------------------------------------------------------------------
(* The invariants, over all steps. *)

LEMMA InitHolds ==
    ASSUME Init
    PROVE  TInv /\ MaskInv
<1>1. Called(main, 0) \in Activation /\ Called(main, 0).sig = 0 /\ Called(main, 0).at = 1
  BY LibMiniAssumption DEF Init, Called, Activation
<1>2. /\ stack \in Seq(Activation) /\ stack # <<>> /\ Len(stack) = 1
      /\ stack[1] = Called(main, 0)
  BY <1>1 DEF Init
<1>3. StackOK
  BY <1>1, <1>2 DEF Init, StackOK
<1>4. TypeOK
  BY <1>2, LibMiniAssumption DEF Init, TypeOK, NoError, NotYet, Bits
<1>5. MaskInv
  BY <1>1, <1>2 DEF Init, MaskInv, PutBack
<1> QED BY <1>3, <1>4, <1>5 DEF TInv

\* What a step may do to the masks and the handlers on the stack.
StepKinds ==
    \/ Quiet
    \/ FramesKept /\ wanted' = IF InMain THEN mask' ELSE wanted
    \/ AtCall /\ CallFun
    \/ AtCall /\ LongJump
    \/ myrt
    \/ wanted' = wanted /\ \E s \in Signals : Handled(s)

LEMMA TypeStep ==
    ASSUME Compiles, Defined, TInv, [Next]_vars
    PROVE  TInv' /\ StepKinds
<1>1. CASE UNCHANGED vars
  BY <1>1 DEF vars, program, library, kernel, history, TInv, TypeOK, StackOK, StepKinds,
              Quiet, FramesKept
<1>2. CASE AtCall /\ UserCall
  BY <1>2, UserCallStep DEF StepKinds
<1>3. CASE sigfillset_crash \/ exit \/ start_exit
  BY <1>3, StopStep DEF sigfillset_crash, exit, start_exit, StepKinds
<1>4. CASE Perror
  BY <1>4, PerrorStep DEF StepKinds
<1>5. CASE AtCall /\ SystemCall
  BY <1>5, SystemCallStep DEF StepKinds, Quiet
<1>6. CASE setjmp
  BY <1>6, SetjmpStep DEF StepKinds
<1>7. CASE AtCall /\ LongJump
  BY <1>7, LongJumpStep DEF StepKinds
<1>8. CASE AtCall /\ If
  BY <1>8, IfStep DEF StepKinds
<1>9. CASE Increment
  BY <1>9, IncrementStep DEF StepKinds
<1>10. CASE AtCall /\ CallFun
  BY <1>10, CallFunStep DEF StepKinds
<1>11. CASE Wrap
  BY <1>11, WrapStep DEF StepKinds
<1>12. CASE myrt
  BY <1>12, MyrtStep DEF StepKinds
<1>13. CASE Tick
  BY <1>13, TickStep DEF StepKinds
<1>14. ASSUME NEW s \in Signals, Deliver(s)
       PROVE  TInv' /\ StepKinds
  BY <1>14, DeliverStep DEF StepKinds
<1>15. ASSUME NEW s \in Outside, Send(s)
       PROVE  TInv' /\ StepKinds
  BY <1>15, SendStep DEF StepKinds
<1> QED BY <1>1, <1>2, <1>3, <1>4, <1>5, <1>6, <1>7, <1>8, <1>9, <1>10, <1>11, <1>12,
           <1>13, <1>14, <1>15 DEF Next, Program

\* The mask of main survives: a step of a handler may change the process's mask, but
\* not the one that the lowest handler puts back; a call of main that changes the
\* mask is one that main asked for.
LEMMA MaskStep ==
    ASSUME Compiles, Defined, JumpsKeepMask, TInv, MaskInv, [Next]_vars
    PROVE  MaskInv'
<1>0. /\ StepKinds /\ TInv'
      /\ stack \in Seq(Activation) /\ Len(stack) \in Nat /\ Len(stack) >= 1
      /\ DOMAIN stack = 1..Len(stack)
  BY TypeStep, TopType DEF TInv, TypeOK
<1>1. Len(stack') \in Nat /\ DOMAIN stack' = 1..Len(stack')
  BY <1>0 DEF TInv, TypeOK
<1>2. ASSUME FramesKept
      PROVE  InMain' <=> InMain
  BY <1>0, <1>1, <1>2 DEF FramesKept, InMain
<1>3. CASE Quiet
  <2>1. InMain' => mask' = wanted'
    BY <1>2, <1>3 DEF Quiet, MaskInv
  <2>2. PutBack'
    BY <1>0, <1>1, <1>3 DEF Quiet, FramesKept, MaskInv, PutBack
  <2> QED BY <2>1, <2>2 DEF MaskInv
<1>4. CASE FramesKept /\ wanted' = IF InMain THEN mask' ELSE wanted
  <2>1. CASE InMain
    <3>1. \A k \in 1..Len(stack') : stack'[k].sig = 0
      BY <1>0, <1>4, <2>1 DEF FramesKept, InMain
    <3> QED BY <1>4, <2>1, <3>1 DEF MaskInv, PutBack
  <2>2. CASE ~InMain
    <3>1. PutBack'
      BY <1>0, <1>1, <1>4, <2>2 DEF FramesKept, MaskInv, PutBack
    <3> QED BY <1>2, <1>4, <2>2, <3>1 DEF MaskInv
  <2> QED BY <2>1, <2>2
<1>5. CASE AtCall /\ CallFun
  <2>1. /\ mask' = mask /\ wanted' = wanted
        /\ Len(stack') = Len(stack) + 1
        /\ \A k \in 1..Len(stack) :
               stack'[k].sig = stack[k].sig /\ stack'[k].mask = stack[k].mask
        /\ stack'[Len(stack) + 1].sig = 0
    BY <1>5, CallFunStep
  <2>2. \A k \in 1..Len(stack') : k \in 1..Len(stack) \/ k = Len(stack) + 1
    BY <1>0, <2>1
  <2>3. InMain' => InMain
    BY <1>0, <1>1, <2>1 DEF InMain
  <2>4. PutBack'
    BY <1>0, <2>1, <2>2 DEF MaskInv, PutBack
  <2> QED BY <2>1, <2>3, <2>4 DEF MaskInv
<1>6. CASE AtCall /\ LongJump
  <2>1. /\ Len(stack') \in 1..Len(stack)
        /\ \A k \in 1..Len(stack') : stack'[k].sig = stack[k].sig
        /\ mask' = mask /\ wanted' = jb.held
    BY <1>6, LongJumpStep
  <2>2. InMain /\ mask = jb.held
    BY <1>6 DEF LongJump, JumpsKeepMask
  <2>3. \A k \in 1..Len(stack') : stack'[k].sig = 0
    BY <1>0, <2>1, <2>2 DEF InMain
  <2> QED BY <2>1, <2>2, <2>3 DEF MaskInv, PutBack
<1>7. CASE myrt
  <2> DEFINE n == Len(stack)
  <2>1. /\ wanted' = wanted /\ n > 1 /\ stack[n].sig # 0 /\ mask' = stack[n].mask
        /\ Len(stack') = n - 1
        /\ \A k \in 1..(n - 1) : stack'[k] = stack[k]
    BY <1>7, MyrtStep
  <2>2. ASSUME InMain'
        PROVE  mask' = wanted'
    <3>1. \A j \in 1..(n - 1) : stack[j].sig = 0
      BY <1>1, <2>1, <2>2 DEF InMain
    <3> QED BY <1>0, <2>1, <3>1 DEF MaskInv, PutBack
  <2>3. PutBack'
    BY <1>0, <2>1 DEF MaskInv, PutBack
  <2> QED BY <2>2, <2>3 DEF MaskInv
<1>8. ASSUME NEW s \in Signals, Handled(s), wanted' = wanted
      PROVE  MaskInv'
  <2>1. s # 0
    BY LibMiniAssumption DEF NSIG
  <2>2. \A k \in 1..Len(stack') : k \in 1..Len(stack) \/ k = Len(stack) + 1
    BY <1>0, <1>8 DEF Handled
  <2>3. ~InMain'
    BY <1>0, <1>1, <1>8, <2>1 DEF Handled, InMain
  <2>4. ASSUME NEW k \in 1..Len(stack'), stack'[k].sig # 0,
               \A j \in 1..(k - 1) : stack'[j].sig = 0
        PROVE  stack'[k].mask = wanted'
    <3>1. CASE k \in 1..Len(stack)
      BY <1>0, <1>8, <2>4, <3>1 DEF Handled, MaskInv, PutBack
    <3>2. CASE k = Len(stack) + 1
      <4>1. InMain
        BY <1>0, <1>8, <2>4, <3>2 DEF Handled, InMain
      <4> QED BY <1>8, <3>2, <4>1 DEF Handled, MaskInv
    <3> QED BY <2>2, <3>1, <3>2
  <2> QED BY <2>3, <2>4 DEF MaskInv, PutBack
<1> QED BY <1>0, <1>3, <1>4, <1>5, <1>6, <1>7, <1>8 DEF StepKinds

-----------------------------------------------------------------------------
(* The results. *)

\* The types of libmini's state hold for every program that compiles and does
\* nothing C leaves undefined: errno is never negative, whatever the system calls
\* return, sigset_t words and masks convert into one another, and the stack always
\* has main at its bottom.
THEOREM TypeCorrect ==
    ASSUME Compiles
    PROVE  Spec /\ []Defined => []TypeOK
<1>1. Init => TInv
  BY InitHolds
<1>2. TInv /\ Defined /\ [Next]_vars => TInv'
  BY TypeStep
<1>3. TInv => TypeOK
  BY DEF TInv
<1> QED BY <1>1, <1>2, <1>3, PTL DEF Spec

\* Whatever handlers interrupt main, and one another, and whatever they do to the
\* mask themselves: outside of handlers the process runs with the mask that main
\* asked for, as long as no jump leaves a handler or main changed the mask since
\* setjmp.
THEOREM MaskIsOwnHolds ==
    ASSUME Compiles
    PROVE  Spec /\ []Defined /\ []JumpsKeepMask => []MaskIsOwn
<1>1. Init => TInv /\ MaskInv
  BY InitHolds
<1>2. TInv /\ MaskInv /\ Defined /\ JumpsKeepMask /\ [Next]_vars => (TInv /\ MaskInv)'
  BY TypeStep, MaskStep
<1>3. MaskInv => MaskIsOwn
  BY DEF MaskInv, MaskIsOwn
<1> QED BY <1>1, <1>2, <1>3, PTL DEF Spec

\* A program without setjmp, longjmp and arrays of functions.
NoJumps ==
    \A f \in DOMAIN Code : \A n \in 1..Len(Code[f]) : Code[f][n].op \notin {"longjmp", "funs[i]"}

\* Five of the six programs of hw3 are of that kind: for them, and all others like
\* them, both results hold as they stand.
THEOREM WithoutJumps ==
    ASSUME Compiles, NoJumps
    PROVE  Spec => [](TypeOK /\ MaskIsOwn)
<1>1. Init => TInv /\ MaskInv
  BY InitHolds
<1>2. TInv => Defined /\ JumpsKeepMask
  <2> SUFFICES ASSUME TInv, AtCall
               PROVE  Call.op \notin {"longjmp", "funs[i]"}
    BY DEF Defined, JumpsKeepMask
  <2>1. Top.fn \in DOMAIN Code /\ Top.at \in 1..Len(Code[Top.fn])
    BY TopType DEF Activation, AtCall, Compiles
  <2> QED BY <2>1 DEF NoJumps, Call
<1>3. TInv /\ MaskInv /\ [Next]_vars => (TInv /\ MaskInv)'
  BY <1>2, TypeStep, MaskStep
<1>4. TInv /\ MaskInv => TypeOK /\ MaskIsOwn
  BY DEF TInv, MaskInv, MaskIsOwn
<1> QED BY <1>1, <1>3, <1>4, PTL DEF Spec
=============================================================================
