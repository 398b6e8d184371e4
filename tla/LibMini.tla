------------------------------ MODULE LibMini ------------------------------
(***************************************************************************)
(* The C library of hw3 (libmini.c, libmini64.asm, start.asm) in a process *)
(* that gets signals.  A function of the program is the sequence of        *)
(* library calls it makes; the process has a stack of functions, main at   *)
(* the bottom and the signal handlers that interrupted it above.           *)
(*                                                                         *)
(* A wrapper of a system call is two steps, the call and what              *)
(* WRAPPER_RETval does with its result, and a signal may come between      *)
(* them.  Signals are delivered when the process is about to go on in user *)
(* mode, so that it never goes on with one that is pending and not blocked.*)
(*                                                                         *)
(* External to src/: the kernel's signals, timers and system calls.        *)
(***************************************************************************)
EXTENDS Integers, Sequences, FiniteSets

CONSTANTS
    Mains,        \* the functions a process may start in
    Code,         \* Code[f]: the library calls that function f makes, in order
    Funs,         \* the functions that main calls by their number
    Signals,      \* the signals that matter
    Outside,      \* those that other processes send
    MaxSent,      \* bound: how many times they do
    SetVars,      \* the sigset_t variables of the programs
    WriteErrors   \* the errors write may give

SIGINT == 2
SIGQUIT == 3
SIGALRM == 14
EINTR == 4
EINVAL == 22
NSIG == 64

\* A sigset_t is one word: a set of bit numbers.  For the kernel bit b stands
\* for signal b + 1.
Bits == 0..63
SignalsOf(word) == {b + 1 : b \in word} \cap Signals
WordOf(signals) == {s - 1 : s \in signals}

ASSUME LibMiniAssumption ==
    /\ Mains \subseteq DOMAIN Code
    /\ \A k \in DOMAIN Funs : Funs[k] \in DOMAIN Code
    /\ Signals \subseteq 1..NSIG
    /\ Outside \subseteq Signals
    /\ MaxSent \in Nat
    /\ WriteErrors \subseteq Nat \ {0}

VARIABLES
    (* the program *)
    main,     \* the function it started in
    stack,    \* its functions, see Activation; the last one is running
    i,        \* volatile int i of jmp1
    (* the library *)
    errno,
    sets,     \* the sigset_t variables
    jb,       \* the jmp_buf: where setjmp returns to, and its mask member
    (* the kernel *)
    status,   \* "running", "exited", "killed" (by a signal) or "segv"
    mask,     \* the signals that are blocked
    pending,
    disp,     \* what signal() installed: "SIG_DFL", "SIG_IGN" or a function
    sa_mask,  \* the mask member of the installed sigaction
    timer,    \* seconds until SIGALRM, 0 for none
    rem,      \* seconds left of a sleep
    sent,     \* number of signals sent by other processes
    (* history *)
    said,     \* the last word written to the standard output
    failed,   \* the error of the last call of main that failed
    told,     \* the entry of errmsg that perror wrote
    wanted    \* the mask that main asked for

program == <<main, i>>
library == <<errno, sets, jb>>
kernel == <<status, mask, pending, disp, sa_mask, timer, rem, sent>>
history == <<said, failed, told, wanted>>
vars == <<program, stack, library, kernel, history>>

NoError == 0
Unknown == -1     \* perror wrote "Unknown"
Garbage == -2     \* perror read behind the end of errmsg
NotYet == -3      \* perror was not called

\* call: "no" before a call, "blocked" in the kernel, "back" when the kernel has
\* returned ret and the library has not looked at it.  sig is the signal that a
\* handler handles, 0 for other functions; mask is the one that rt_sigreturn
\* puts back.
Activation == [fn : DOMAIN Code, at : Nat, call : {"no", "blocked", "back"},
               ret : Int, rax : Int, sig : Signals \cup {0}, mask : SUBSET Signals]

TypeOK ==
    /\ main \in Mains
    /\ stack \in Seq(Activation) /\ stack # <<>>
    /\ i \in Nat
    /\ errno \in Nat
    /\ sets \in [SetVars -> SUBSET Bits]
    /\ jb \in [at : Nat, depth : Nat, mask : SUBSET Bits, held : SUBSET Signals]
    /\ status \in {"running", "exited", "killed", "segv"}
    /\ mask \subseteq Signals /\ pending \subseteq Signals
    /\ disp \in [Signals -> DOMAIN Code \cup {"SIG_DFL", "SIG_IGN"}]
    /\ sa_mask \in [Signals -> SUBSET Signals]
    /\ timer \in Nat /\ rem \in Nat
    /\ sent \in 0..MaxSent
    /\ failed \in Nat /\ told \in -3..34
    /\ wanted \subseteq Signals

Called(f, s) ==
    [fn |-> f, at |-> 1, call |-> "no", ret |-> 0, rax |-> 0, sig |-> s, mask |-> mask]

Init ==
    /\ mask = {} /\ pending = {}
    /\ main \in Mains
    /\ stack = <<Called(main, 0)>>
    /\ i = 0
    /\ errno = NoError
    /\ \E word \in {{}, Bits} : sets = [var \in SetVars |-> word]   \* locals, not set
    /\ jb = [at |-> 0, depth |-> 0, mask |-> {}, held |-> {}]
    /\ status = "running"
    /\ disp = [s \in Signals |-> "SIG_DFL"]
    /\ sa_mask = [s \in Signals |-> {}]
    /\ timer = 0 /\ rem = 0 /\ sent = 0
    /\ said = "nothing" /\ failed = NoError /\ told = NotYet /\ wanted = {}

-----------------------------------------------------------------------------
(* Going on. *)

Top == stack[Len(stack)]
InMain == \A k \in DOMAIN stack : stack[k].sig = 0     \* not in a handler
WithTop(act) == [stack EXCEPT ![Len(stack)] = act]

\* The call the running function is about to make.
AtCall == Top.call = "no" /\ Top.at <= Len(Code[Top.fn])
Call == Code[Top.fn][Top.at]

\* The process is in user mode, with no signal to be delivered first.
UserMode == status = "running" /\ pending \subseteq mask /\ Top.call # "blocked"

\* The library function returns v.
Return(v) == stack' = WithTop([Top EXCEPT !.call = "no", !.rax = v, !.at = @ + 1])

\* It returns v and leaves e in errno; a failure of main's is remembered.
Done(e, v) ==
    /\ Return(v)
    /\ errno' = e
    /\ failed' = IF InMain /\ e # NoError THEN e ELSE failed

\* The kernel returns r from a system call.
SysReturn(r) == stack' = WithTop([Top EXCEPT !.call = "back", !.ret = r])

-----------------------------------------------------------------------------
(* Functions that make no system call. *)

sigmask(sig) == {sig - 1}

Valid(signum) == 0 < signum /\ signum < NSIG

OnSet(var, word, v) ==
    /\ Done(NoError, v)
    /\ sets' = [sets EXCEPT ![var] = word]

sigemptyset(var) ==
    \/ /\ var = "NULL"
       /\ Done(1, -1) /\ UNCHANGED sets
    \/ /\ var # "NULL"
       /\ OnSet(var, {}, 0)

Refused(signum) == ~Valid(signum) /\ Done(EINVAL, -1) /\ UNCHANGED sets

sigaddset(var, signum) ==
    \/ Refused(signum)
    \/ Valid(signum) /\ OnSet(var, sets[var] \cup sigmask(signum), 0)

\* Faulty variant: the bit is not cleared.
sigdelset_Keeps(var, signum) ==
    \/ Refused(signum)
    \/ Valid(signum) /\ OnSet(var, sets[var], 0)

sigdelset(var, signum) ==
    \/ Refused(signum)
    \/ Valid(signum) /\ OnSet(var, sets[var] \ sigmask(signum), 0)

\* Faulty variant: the wrong bit is looked at.
sigismember_NextBit(var, signum) ==
    \/ Refused(signum)
    \/ Valid(signum) /\ OnSet(var, sets[var], IF signum \in sets[var] THEN 1 ELSE 0)

sigismember(var, signum) ==
    \/ Refused(signum)
    \/ /\ Valid(signum)
       /\ OnSet(var, sets[var], IF sigmask(signum) \cap sets[var] # {} THEN 1 ELSE 0)

\* The pointer is not initialized: eight bytes 0xff go to wherever it points,
\* which may be another variable of the program, or no memory at all.
sigfillset ==
    /\ Done(NoError, 0)
    /\ \/ UNCHANGED sets
       \/ \E other \in SetVars : sets' = [sets EXCEPT ![other] = Bits]

UserCall ==
    /\ \/ Call.op = "sigemptyset" /\ sigemptyset(Call.set)
       \/ Call.op = "sigaddset" /\ sigaddset(Call.set, Call.sig)
       \/ Call.op = "sigdelset" /\ sigdelset(Call.set, Call.sig)
       \/ Call.op = "sigismember" /\ sigismember(Call.set, Call.sig)
       \/ Call.op = "sigfillset" /\ sigfillset
    /\ UNCHANGED <<program, jb, kernel, said, told, wanted>>

Stop(why) ==
    /\ status' = why
    /\ UNCHANGED <<program, stack, library, mask, pending, disp, sa_mask,
                   timer, rem, sent, history>>

sigfillset_crash == Call.op = "sigfillset" /\ Stop("segv")

\* One write to descriptor 2: what it leaves in errno.
WriteErrno == {NoError} \cup WriteErrors

PERRMSG_MIN == 0
PERRMSG_MAX == 34

\* What is written for the value checked against the bounds and the saved one.
Message(checked, backup) ==
    IF checked < PERRMSG_MIN \/ checked > PERRMSG_MAX THEN Unknown
    ELSE IF backup \in PERRMSG_MIN..PERRMSG_MAX THEN backup ELSE Garbage

\* Faulty variant: the entry of errno as the writes of the prefix left it.
perror_NoBackup(prefix) ==
    /\ \E checked \in IF prefix THEN WriteErrno ELSE {errno} :
           told' = Message(checked, checked)
    /\ errno' \in WriteErrno

\* The bounds are checked on errno, which the writes of the prefix have set, and
\* the entry is that of the saved errno.
perror(prefix) ==
    /\ \E checked \in IF prefix THEN WriteErrno ELSE {errno} :
           told' = Message(checked, errno)
    /\ errno' \in WriteErrno

Perror ==
    /\ Call.op = "perror" /\ perror(Call.prefix)
    /\ Return(Top.rax)
    /\ UNCHANGED <<program, sets, jb, kernel, said, failed, wanted>>

-----------------------------------------------------------------------------
(* Functions that make a system call: what the kernel does. *)

write(word) ==
    \/ SysReturn(1) /\ said' = word
    \/ \E e \in WriteErrors : SysReturn(-e) /\ UNCHANGED said

\* A call without effect on signals, and the errors it may give.
plain(errors) == \E r \in {1} \cup {-e : e \in errors} : SysReturn(r)

NewMask(how, signals) ==
    CASE how = "SIG_BLOCK" -> mask \cup signals
      [] how = "SIG_UNBLOCK" -> mask \ signals
      [] how = "SIG_SETMASK" -> signals

sigprocmask(how, set, oldset) ==
    /\ SysReturn(0)
    /\ mask' = NewMask(how, SignalsOf(sets[set]))
    /\ wanted' = IF InMain THEN mask' ELSE wanted
    /\ sets' = IF oldset = "NULL" THEN sets
               ELSE [sets EXCEPT ![oldset] = WordOf(mask)]

sigpending(set) ==
    /\ SysReturn(0)
    /\ sets' = [sets EXCEPT ![set] = WordOf(pending \cap mask)]

\* Ignoring a signal drops it when it is pending.
sigaction(signum, handler, word) ==
    /\ SysReturn(0)
    /\ disp' = [disp EXCEPT ![signum] = handler]
    /\ sa_mask' = [sa_mask EXCEPT ![signum] = SignalsOf(word)]
    /\ pending' = IF handler = "SIG_IGN" THEN pending \ {signum} ELSE pending

signal(signum, handler) ==
    \/ /\ ~Valid(signum)
       /\ Done(EINVAL, -1)
       /\ UNCHANGED <<disp, sa_mask, pending>>
    \/ /\ Valid(signum)
       /\ sigaction(signum, handler, sigmask(signum))
       /\ errno' = NoError                       \* sigemptyset, sigaddset
       /\ UNCHANGED failed

alarm(seconds) == SysReturn(timer) /\ timer' = seconds

Block == stack' = WithTop([Top EXCEPT !.call = "blocked"])

pause == Block /\ UNCHANGED rem

sleep(seconds) == Block /\ rem' = seconds

SystemCall ==
    \/ /\ Call.op = "write" /\ write(Call.word)
       /\ UNCHANGED <<program, library, kernel, failed, told, wanted>>
    \/ /\ Call.op \in {"plain", "plain_ptr"} /\ plain(Call.errors)
       /\ UNCHANGED <<program, library, kernel, history>>
    \/ /\ Call.op = "sigprocmask" /\ sigprocmask(Call.how, Call.set, Call.oldset)
       /\ UNCHANGED <<program, errno, jb, status, pending, disp, sa_mask, timer,
                      rem, sent, said, failed, told>>
    \/ /\ Call.op = "sigpending" /\ sigpending(Call.set)
       /\ UNCHANGED <<program, errno, jb, kernel, history>>
    \/ /\ Call.op = "signal" /\ signal(Call.sig, Call.handler)
       /\ UNCHANGED <<program, sets, jb, status, mask, timer, rem, sent, said,
                      told, wanted>>
    \/ /\ Call.op = "alarm" /\ alarm(Call.seconds)
       /\ UNCHANGED <<program, library, status, mask, pending, disp, sa_mask, rem,
                      sent, history>>
    \/ /\ \/ Call.op = "pause" /\ pause
          \/ Call.op = "sleep" /\ sleep(Call.seconds)
       /\ UNCHANGED <<program, library, status, mask, pending, disp, sa_mask,
                      timer, sent, history>>

-----------------------------------------------------------------------------
(* What the library makes of the result. *)

\* Faulty variant: an interrupted call is made again.
WRAPPER_RETval_Retries ==
    IF Top.ret = -EINTR
    THEN stack' = WithTop([Top EXCEPT !.call = "no"]) /\ UNCHANGED <<errno, failed>>
    ELSE IF Top.ret < 0 THEN Done(-Top.ret, -1) ELSE Done(NoError, Top.ret)

\* Faulty variant: the sign stays.
WRAPPER_RETval_Sign == IF Top.ret < 0 THEN Done(Top.ret, -1) ELSE Done(NoError, Top.ret)

WRAPPER_RETval == IF Top.ret < 0 THEN Done(-Top.ret, -1) ELSE Done(NoError, Top.ret)

WRAPPER_RETptr == IF Top.ret < 0 THEN Done(-Top.ret, 0) ELSE Done(NoError, Top.ret)

\* sleep does not touch errno.
sleep_return ==
    /\ Return(CASE Top.ret >= 0 -> Top.ret
                [] Top.ret = -EINTR -> rem
                [] OTHER -> 0)
    /\ UNCHANGED <<errno, failed>>

Wrap ==
    /\ \/ Call.op = "sleep" /\ sleep_return
       \/ Call.op = "plain_ptr" /\ WRAPPER_RETptr
       \/ Call.op \notin {"sleep", "plain_ptr"} /\ WRAPPER_RETval
    /\ UNCHANGED <<program, sets, jb, kernel, said, told, wanted>>

-----------------------------------------------------------------------------
(* setjmp and longjmp. *)

\* Memory that the kernel can copy a mask from and to.
Mapped(pointer) == pointer >= 4096

\* rt_sigprocmask copies it only if it is told that a set has eight bytes.
Copied(pointer, sigsetsize) == sigsetsize = 8 /\ Mapped(pointer)

\* rdi is cleared for the system call before the address of the mask member is
\* computed from it.  held is a history of the mask when setjmp was called.
setjmp ==
    /\ Call.op = "setjmp"
    /\ LET oset == 0 + 8 * 8
       IN  jb' = [at |-> Top.at + 1, depth |-> Len(stack), held |-> mask,
                  mask |-> IF Copied(oset, 8) THEN WordOf(mask) ELSE jb.mask]
    /\ Return(0)
    /\ UNCHANGED <<program, errno, sets, kernel, history>>

\* The stack is cut back to where it was.  The address of the mask is computed from
\* rdi = 2, and rcx, the size of the set, holds whatever the caller left in it.
Jump(val) ==
    \E rcx \in {0, 8} :
        LET set == 2 + 8 * 8
        IN  /\ stack' = [SubSeq(stack, 1, jb.depth) EXCEPT ![jb.depth] =
                           [@ EXCEPT !.call = "no", !.at = jb.at, !.rax = val]]
            /\ mask' = IF Copied(set, rcx) THEN SignalsOf(jb.mask) ELSE mask
            /\ wanted' = jb.held

\* Faulty variant: the value is lost, as if rsi were not saved.
longjmp_One(val) == Jump(1)

\* Faulty variant: setjmp seems to return for the first time.
longjmp_Zero(val) == Jump(0)

longjmp(val) == Jump(val)

LongJump ==
    /\ Call.op = "longjmp" /\ longjmp(Call.val)
    /\ UNCHANGED <<program, library, status, pending, disp, sa_mask, timer, rem,
                   sent, said, failed, told>>

-----------------------------------------------------------------------------
(* The program's own statements. *)

Holds(cond) ==
    CASE cond = "rax_not_0" -> Top.rax # 0
      [] cond = "rax_is_-1" -> Top.rax = -1
      [] cond = "i_below_10" -> i < 10

\* An if: when the condition does not hold, the program goes on at else.
If ==
    /\ Call.op = "if"
    /\ stack' = WithTop([Top EXCEPT !.at = IF Holds(Call.cond) THEN @ + 1 ELSE Call.else])
    /\ UNCHANGED <<program, library, kernel, history>>

Increment ==
    /\ Call.op = "i++" /\ i' = i + 1
    /\ Return(Top.rax)
    /\ UNCHANGED <<main, library, kernel, history>>

CallFun ==
    /\ Call.op = "funs[i]"
    /\ stack' = Append(stack, Called(Funs[i + 1], 0))
    /\ UNCHANGED <<program, library, kernel, history>>

exit == Call.op = "exit" /\ Stop("exited")

\* main returns to _start, which calls exit.
start_exit == Len(stack) = 1 /\ Top.at > Len(Code[Top.fn]) /\ Stop("exited")

\* A handler returns to the restorer that sigaction has given the kernel:
\* rt_sigreturn puts back the mask and the interrupted function goes on.
AfterHandler ==
    /\ stack' = SubSeq(stack, 1, Len(stack) - 1)
    /\ UNCHANGED <<program, library, status, pending, disp, sa_mask, timer, rem,
                   sent, history>>

\* Faulty variant: the handler's mask stays.
myrt_KeepsMask ==
    /\ Top.sig # 0 /\ Top.at > Len(Code[Top.fn])
    /\ AfterHandler
    /\ UNCHANGED mask

myrt ==
    /\ Top.sig # 0 /\ Top.at > Len(Code[Top.fn])
    /\ AfterHandler
    /\ mask' = Top.mask

Program ==
    /\ UserMode
    /\ \/ /\ AtCall
          /\ \/ UserCall \/ sigfillset_crash \/ Perror \/ SystemCall
             \/ setjmp \/ LongJump \/ If \/ Increment \/ CallFun \/ exit
       \/ Top.call = "back" /\ Wrap
       \/ start_exit
       \/ myrt

-----------------------------------------------------------------------------
(* The kernel: signals and time. *)

\* A signal that is ignored is dropped unless it is blocked.
Pended(s) == IF disp[s] = "SIG_IGN" /\ s \notin mask THEN pending ELSE pending \cup {s}

Send(s) ==
    /\ status = "running" /\ sent < MaxSent
    /\ sent' = sent + 1
    /\ pending' = Pended(s)
    /\ UNCHANGED <<program, stack, library, status, mask, disp, sa_mask, timer,
                   rem, history>>

Sleeping == Top.call = "blocked" /\ Call.op = "sleep"

\* A second passes.
Tick ==
    /\ status = "running"
    /\ timer > 0 \/ Sleeping
    /\ timer' = IF timer > 0 THEN timer - 1 ELSE 0
    /\ pending' = IF timer = 1 THEN Pended(SIGALRM) ELSE pending
    /\ rem' = IF Sleeping /\ rem > 0 THEN rem - 1 ELSE rem
    /\ IF Sleeping /\ rem <= 1 THEN SysReturn(0) ELSE UNCHANGED stack
    /\ UNCHANGED <<program, library, status, mask, disp, sa_mask, sent, history>>

\* A handler interrupts the function, and a call that blocks gives EINTR: pause
\* and nanosleep are not restarted for a handler, SA_RESTART or not.
Interrupted == IF Top.call = "blocked" THEN [Top EXCEPT !.call = "back", !.ret = -EINTR]
               ELSE Top

Deliver(s) ==
    /\ status = "running" /\ s \in pending \ mask
    /\ pending' = pending \ {s}
    /\ \/ /\ disp[s] = "SIG_DFL"
          /\ status' = "killed"
          /\ UNCHANGED <<stack, mask>>
       \/ /\ disp[s] = "SIG_IGN"
          /\ UNCHANGED <<stack, mask, status>>
       \/ /\ disp[s] \notin {"SIG_DFL", "SIG_IGN"}
          /\ stack' = Append(WithTop(Interrupted), Called(disp[s], s))
          /\ mask' = mask \cup sa_mask[s] \cup {s}
          /\ UNCHANGED status
    /\ UNCHANGED <<program, library, disp, sa_mask, timer, rem, sent, history>>

Next ==
    \/ Program
    \/ Tick
    \/ \E s \in Signals : Deliver(s)
    \/ \E s \in Outside : Send(s)

\* A process that runs goes on, time passes and signals are delivered; nobody
\* need send one.
Spec ==
    /\ Init /\ [][Next]_vars
    /\ WF_vars(Program) /\ WF_vars(Tick) /\ WF_vars(\E s \in Signals : Deliver(s))

-----------------------------------------------------------------------------
(* Properties of the library. *)

\* Outside of handlers the process runs with the mask its main asked for:
\* whatever signal(), its sa_mask and the restorer do around a handler, and
\* whatever setjmp and longjmp do, is undone.
MaskIsOwn == status = "running" /\ InMain => mask = wanted

\* perror names the error of the call that failed, although its own writes set
\* errno, or fail, before the message is chosen.
PerrorTells ==
    told # NotYet => told = IF failed \in PERRMSG_MIN..PERRMSG_MAX THEN failed ELSE Unknown
=============================================================================
