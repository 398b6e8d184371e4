---------------------------- MODULE LoggerProofs ----------------------------
(***************************************************************************)
(* What TLAPS proves of the logger, for any number of threads,             *)
(* descriptors, files and calls: type correctness, that without -o every   *)
(* line gets to stderr, and that under every option the log stays where    *)
(* the options sent it as long as its descriptor is not closed.            *)
(***************************************************************************)
EXTENDS Logger, TLAPS

\* The wrappers that are given a path.
Pathed == {"chmod", "chown", "remove", "rename"} \cup OpenOps

\* A wrapper has the arguments its steps look at.
ArgsOK ==
    \A t \in Threads :
        /\ call[t].op \in Pathed => call[t].path \in Paths
        /\ call[t].op = "rename" => call[t].to \in Paths

TypeInv == TypeOK /\ ArgsOK

\* Each wrapper's plan is a sequence of steps.
LEMMA PlanType ==
    ASSUME NEW op \in AllOps PROVE Plan(op) \in Seq(Steps)
<1>1. /\ chmod \in Seq(Steps) /\ chown \in Seq(Steps)
      /\ remove \in Seq(Steps) /\ rename \in Seq(Steps)
    BY DEF Steps, chmod, chown, remove, rename
<1>2. /\ creat \in Seq(Steps) /\ creat64 \in Seq(Steps)
      /\ open \in Seq(Steps) /\ open64 \in Seq(Steps)
      /\ fopen \in Seq(Steps) /\ fopen64 \in Seq(Steps)
      /\ tmpfile \in Seq(Steps) /\ tmpfile64 \in Seq(Steps)
    BY DEF Steps, creat, creat64, open, open64, fopen, fopen64, tmpfile, tmpfile64
<1>3. /\ close \in Seq(Steps) /\ fclose \in Seq(Steps)
      /\ read \in Seq(Steps) /\ write \in Seq(Steps)
      /\ fread \in Seq(Steps) /\ fwrite \in Seq(Steps)
    BY DEF Steps, close, fclose, read, write, fread, fwrite
<1> QED
    BY <1>1, <1>2, <1>3 DEF AllOps, Plan

\* A thread outside the wrappers has a typed record.
LEMMA IdleType == Idle \in Calls
BY LoggerAssumption DEF Idle, Calls, Errnos, Labels, Steps

\* A wrapper starts with a typed record.
LEMMA StartType ==
    ASSUME NEW op \in AllOps
    PROVE  Start(op) \in Calls /\ Start(op).op = op
BY IdleType, PlanType DEF Start, Calls, Idle

\* The launcher starts in a typed state.
LEMMA InitType == Init => TypeInv
<1> SUFFICES ASSUME Init PROVE TypeInv
    OBVIOUS
<1>1. TypeOK
    BY IdleType, LoggerAssumption DEF Init, TypeOK, Fds, OnDisk, Everything, Errnos
<1>2. ArgsOK
    BY DEF Init, ArgsOK, Idle, Pathed, OpenOps
<1> QED
    BY <1>1, <1>2 DEF TypeInv

\* A step inside a wrapper leaves the arguments of every call alone.
SameArgs ==
    \A u \in Threads :
        /\ call'[u].op = call[u].op
        /\ call'[u].path = call[u].path
        /\ call'[u].to = call[u].to
        /\ call'[u].fildes = call[u].fildes
        /\ call'[u].std = call[u].std
        /\ call'[u].nbyte = call[u].nbyte

CallKept == call' \in [Threads -> Calls] /\ SameArgs

\* What At(t, s) gives about the steps left.
LEMMA TailType ==
    ASSUME TypeOK, NEW t \in Threads, NEW s, At(t, s)
    PROVE  /\ call \in [Threads -> Calls]
           /\ call[t] \in Calls
           /\ Tail(call[t].todo) \in Seq(Steps)
<1>1. call \in [Threads -> Calls] /\ call[t] \in Calls
    BY DEF TypeOK
<1>2. call[t].todo \in Seq(Steps) /\ call[t].todo # <<>>
    BY <1>1 DEF At, Calls
<1> QED
    BY <1>1, <1>2

\* The results in c are typed and the rest of c is the call it came from.
Result(t, c) ==
    /\ c \in Calls
    /\ c.op = call[t].op /\ c.path = call[t].path /\ c.to = call[t].to
    /\ c.fildes = call[t].fildes /\ c.std = call[t].std /\ c.todo = call[t].todo
    /\ c.nbyte = call[t].nbyte

\* Going on to the next step keeps the records of the calls.
LEMMA ContinueType ==
    ASSUME TypeOK, NEW t \in Threads, NEW s, At(t, s),
           NEW c, Result(t, c), Continue(t, c)
    PROVE  CallKept
<1> DEFINE d == [c EXCEPT !.todo = Tail(@)]
<1>1. Tail(c.todo) \in Seq(Steps) /\ call \in [Threads -> Calls]
    BY TailType DEF Result
<1>2. /\ d \in Calls
      /\ d.op = call[t].op /\ d.path = call[t].path /\ d.to = call[t].to
      /\ d.fildes = call[t].fildes /\ d.std = call[t].std /\ d.nbyte = call[t].nbyte
    BY <1>1 DEF Result, Calls
<1> HIDE DEF d
<1>3. call' = [call EXCEPT ![t] = d]
    BY DEF Continue, d
<1> QED
    BY <1>1, <1>2, <1>3 DEF CallKept, SameArgs

\* A function of libc that returns, or fails, keeps the record of its call.
LEMMA ReturnsType ==
    ASSUME TypeOK, NEW t \in Threads, NEW s, At(t, s),
           NEW r \in Int, Returns(t, r)
    PROVE  CallKept /\ errno' \in [Threads -> Errnos]
<1>1. errno' \in [Threads -> Errnos]
    BY DEF TypeOK, Returns
<1>2. Result(t, [call[t] EXCEPT !.res = r])
    BY TailType DEF Result, Calls
<1> QED
    BY <1>1, <1>2, ContinueType DEF Returns

\* The same for a function that fails.
LEMMA FailsType ==
    ASSUME TypeOK, NEW t \in Threads, NEW s, At(t, s),
           NEW e \in Errnos, Fails(t, e)
    PROVE  CallKept /\ errno' \in [Threads -> Errnos]
<1> DEFINE r == IF call[t].op \in {"fread", "fwrite"} THEN 0 ELSE -1
<1>1. errno' \in [Threads -> Errnos]
    BY DEF TypeOK, Fails
<1>2. r \in Int
    OBVIOUS
<1>3. Continue(t, [call[t] EXCEPT !.res = r, !.err = e])
    BY DEF Fails
<1> HIDE DEF r
<1>4. Result(t, [call[t] EXCEPT !.res = r, !.err = e])
    BY <1>2, TailType DEF Result, Calls
<1> QED
    BY <1>1, <1>3, <1>4, ContinueType

\* The arguments of the calls stay what they must be.
LEMMA ArgsKept ==
    ASSUME ArgsOK, SameArgs PROVE ArgsOK'
BY DEF ArgsOK, SameArgs

\* The function of libc in the middle of a wrapper.
LEMMA RealCallType ==
    ASSUME TypeInv, NEW t \in Threads, RealCall(t)
    PROVE  /\ CallKept
           /\ errno' \in [Threads -> Errnos]
           /\ table' \in [Fds -> Everything]
           /\ names' \in [Paths -> OnDisk]
<1>1. TypeOK /\ ArgsOK /\ At(t, "call")
    BY DEF TypeInv, RealCall
<1>2. /\ table \in [Fds -> Everything] /\ names \in [Paths -> OnDisk]
      /\ call[t] \in Calls
    BY <1>1 DEF TypeOK
<1>3. \A r \in Int : Returns(t, r) => CallKept /\ errno' \in [Threads -> Errnos]
    BY <1>1, ReturnsType
<1>4. \A e \in Errnos : Fails(t, e) => CallKept /\ errno' \in [Threads -> Errnos]
    BY <1>1, FailsType
<1>5. {"EACCES", "ENOENT", "EMFILE", "EBADF"} \subseteq Errnos /\ 0 \in Int
    BY DEF Errnos
<1>6. CASE ChangeMode(t)
    BY <1>2, <1>3, <1>4, <1>5, <1>6 DEF ChangeMode
<1>7. CASE Remove(t)
    BY <1>2, <1>3, <1>4, <1>5, <1>7 DEF Remove, OnDisk
<1>8. CASE call[t].op = "rename" /\ Rename(t)
    <2>1. call[t].path \in Paths
        BY <1>1, <1>8 DEF ArgsOK, Pathed
    <2>2. names' \in [Paths -> OnDisk]
        BY <1>2, <1>8, <2>1 DEF Rename, OnDisk
    <2> QED
        BY <1>2, <1>3, <1>4, <1>5, <1>8, <2>2 DEF Rename
<1>9. CASE call[t].op \in OpenOps /\ Open(t)
    <2>1. CASE UNCHANGED <<table, names>>
        BY <1>2, <1>3, <1>4, <1>5, <1>9, <2>1 DEF Open, Fds
    <2>2. CASE ~UNCHANGED <<table, names>>
        <3>1. PICK f \in Fds :
                 /\ Returns(t, f)
                 /\ \/ /\ names[call[t].path] # NoFile
                       /\ table' = [table EXCEPT ![f] = names[call[t].path]]
                       /\ UNCHANGED names
                    \/ \E i \in NewFiles :
                          /\ names' = [names EXCEPT ![call[t].path] = i]
                          /\ table' = [table EXCEPT ![f] = i]
            BY <1>9, <2>2 DEF Open, Exists
        <3>2. CallKept /\ errno' \in [Threads -> Errnos]
            BY <3>1, <1>3 DEF Fds
        <3>3. call[t].path \in Paths
            BY <1>1, <1>9 DEF ArgsOK, Pathed
        <3>4. names' \in [Paths -> OnDisk]
            BY <1>2, <3>1 DEF NewFiles, OnDisk
        <3>5. table' \in [Fds -> Everything]
            BY <1>2, <3>1, <3>3 DEF NewFiles, OnDisk, Everything
        <3> QED
            BY <3>2, <3>4, <3>5
    <2> QED
        BY <2>1, <2>2
<1>10. CASE OpenTemporary(t)
    BY <1>2, <1>3, <1>4, <1>5, <1>10 DEF OpenTemporary, NewFiles, Everything, Fds
<1>11. CASE Release(t)
    BY <1>2, <1>3, <1>4, <1>5, <1>11 DEF Release, Everything
<1>12. CASE Transfer(t)
    BY <1>2, <1>3, <1>4, <1>5, <1>12 DEF Transfer
<1>13. CASE Returns(t, 0) /\ UNCHANGED <<table, names>>
    BY <1>2, <1>3, <1>5, <1>13
<1> QED
    BY <1>6, <1>7, <1>8, <1>9, <1>10, <1>11, <1>12, <1>13 DEF RealCall

\* A call that a thread has just begun.
Fresh(c) ==
    /\ c \in Calls /\ c.op \in Ops /\ c.todo = Plan(c.op)
    /\ c.res = 0 /\ c.err = "none"
    /\ c.op \in Pathed => c.path \in Paths
    /\ c.op = "rename" => c.to \in Paths
    /\ c.op = "fclose" => c.std \/ c.fildes \in OwnStreams
    /\ c.std => c.fildes = 2

\* A wrapper is entered with a fresh call, whatever the library call is.
LEMMA InvokeFresh ==
    ASSUME NEW t \in Threads, Invoke(t)
    PROVE  \E c : Fresh(c) /\ Enter(t, c)
<1> DEFINE Good == \E c : Fresh(c) /\ Enter(t, c)
<1>0. ASSUME NEW op \in AllOps
      PROVE  LET c == Start(op)
             IN  /\ c \in Calls /\ c.op = op /\ c.todo = Plan(op)
                 /\ c.res = 0 /\ c.err = "none" /\ ~c.std
    <2>1. /\ Start(op).todo = Plan(op)
          /\ Start(op).res = 0 /\ Start(op).err = "none" /\ ~Start(op).std
        BY DEF Start, Idle
    <2> QED
        BY <2>1, StartType
<1>1. ASSUME NEW op \in PathOps, NEW p \in Paths,
             Enter(t, [Start(op) EXCEPT !.path = p])
      PROVE  Good
    <2> DEFINE c == [Start(op) EXCEPT !.path = p]
    <2>1. op \in AllOps /\ op \in Ops /\ op # "rename" /\ op # "fclose"
        BY DEF PathOps, AllOps
    <2>2. Fresh(c)
        BY <2>1, <1>0 DEF Fresh, Calls
    <2> QED
        BY <1>1, <2>2
<1>2. ASSUME "rename" \in Ops, NEW p \in Paths, NEW q \in Paths,
             Enter(t, [Start("rename") EXCEPT !.path = p, !.to = q])
      PROVE  Good
    <2> DEFINE c == [Start("rename") EXCEPT !.path = p, !.to = q]
    <2>1. /\ Start("rename") \in Calls /\ Start("rename").op = "rename"
          /\ Start("rename").todo = Plan("rename") /\ Start("rename").res = 0
          /\ Start("rename").err = "none" /\ ~Start("rename").std
        BY <1>0 DEF AllOps
    <2>2. c \in Calls
        BY <2>1 DEF Calls
    <2>3. /\ c.op = "rename" /\ c.todo = Plan("rename") /\ c.res = 0 /\ c.err = "none"
          /\ c.path = p /\ c.to = q /\ ~c.std
        BY <2>1 DEF Calls
    <2>4. Fresh(c)
        BY <1>2, <2>2, <2>3 DEF Fresh
    <2> QED
        BY <1>2, <2>4
<1>3. ASSUME NEW op \in Ops \cap TmpOps, Enter(t, Start(op))
      PROVE  Good
    <2>1. op \in AllOps /\ op \notin Pathed \cup {"rename", "fclose"}
        BY DEF AllOps, TmpOps, OpenOps, Pathed
    <2>2. Fresh(Start(op))
        BY <2>1, <1>0 DEF Fresh
    <2> QED
        BY <1>3, <2>2
<1>4. ASSUME NEW op \in Ops \cap {"close", "fclose"}, NEW f \in Fds,
             op = "fclose" => f \in OwnStreams,
             Enter(t, [Start(op) EXCEPT !.fildes = f])
      PROVE  Good
    <2> DEFINE c == [Start(op) EXCEPT !.fildes = f]
    <2>1. op \in AllOps /\ op \notin Pathed \cup {"rename"} /\ f \in -1..MaxFd
        BY LoggerAssumption DEF AllOps, Pathed, OpenOps, Fds
    <2>2. Fresh(c)
        BY <1>4, <2>1, <1>0 DEF Fresh, Calls
    <2> QED
        BY <1>4, <2>2
<1>5. ASSUME "fclose" \in Ops, Enter(t, [Start("fclose") EXCEPT !.fildes = 2, !.std = TRUE])
      PROVE  Good
    <2> DEFINE c == [Start("fclose") EXCEPT !.fildes = 2, !.std = TRUE]
    <2>1. "fclose" \in AllOps /\ "fclose" \notin Pathed \cup {"rename"} /\ 2 \in -1..MaxFd
        BY LoggerAssumption DEF AllOps, Pathed, OpenOps
    <2>2. /\ Start("fclose") \in Calls /\ Start("fclose").op = "fclose"
          /\ Start("fclose").todo = Plan("fclose") /\ Start("fclose").res = 0
          /\ Start("fclose").err = "none"
        BY <1>0, <2>1
    <2>3. c \in Calls
        BY <2>1, <2>2 DEF Calls
    <2>4. /\ c.op = "fclose" /\ c.todo = Plan("fclose") /\ c.res = 0 /\ c.err = "none"
          /\ c.std /\ c.fildes = 2
        BY <2>2 DEF Calls
    <2>5. Fresh(c)
        BY <1>5, <2>1, <2>3, <2>4 DEF Fresh
    <2> QED
        BY <1>5, <2>5
<1>6. ASSUME NEW op \in Ops \cap DataOps, NEW f \in Fds, NEW n \in 0..MaxBytes,
             Enter(t, [Start(op) EXCEPT !.fildes = f, !.nbyte = n])
      PROVE  Good
    <2> DEFINE c == [Start(op) EXCEPT !.fildes = f, !.nbyte = n]
    <2>1. op \in AllOps /\ op \notin Pathed \cup {"rename", "fclose"} /\ f \in -1..MaxFd
        BY LoggerAssumption DEF AllOps, DataOps, Pathed, OpenOps, Fds
    <2>2. /\ Start(op) \in Calls /\ Start(op).op = op /\ Start(op).todo = Plan(op)
          /\ Start(op).res = 0 /\ Start(op).err = "none"
          /\ ~Start(op).std
        BY <1>0, <2>1
    <2>3. c \in Calls
        BY <2>1, <2>2 DEF Calls
    <2>4. c.op = op /\ c.todo = Plan(op) /\ c.res = 0 /\ c.err = "none" /\ ~c.std
        BY <2>2 DEF Calls
    <2>5. Fresh(c)
        BY <2>1, <2>3, <2>4 DEF Fresh
    <2> QED
        BY <1>6, <2>5
<1> QED
    BY <1>1, <1>2, <1>3, <1>4, <1>5, <1>6, LoggerAssumption DEF Invoke

\* Whatever wrapper a thread calls, the types are kept: it is in a fresh call, or
\* the command has ended.
LEMMA InvokeType ==
    ASSUME TypeInv, NEW t \in Threads, Invoke(t)
    PROVE  TypeInv'
<1> USE DEF shell
<1>0. PICK c : Fresh(c) /\ Enter(t, c)
    BY InvokeFresh
<1>1. CASE Ends
    <2>1. TypeOK'
        BY <1>1, IdleType, LoggerAssumption
           DEF Ends, TypeInv, TypeOK, Fds, Everything, Errnos
    <2>2. ArgsOK'
        BY <1>1 DEF Ends, ArgsOK, Idle, Pathed, OpenOps
    <2> QED
        BY <2>1, <2>2 DEF TypeInv
<1>2. CASE ~Ends
    <2>1. call \in [Threads -> Calls] /\ call' = [call EXCEPT ![t] = c] /\ c \in Calls
        BY <1>0, <1>2 DEF Enter, NotFound, TypeInv, TypeOK, Fresh
    <2>2. TypeOK'
        BY <1>0, <1>2, <2>1 DEF Enter, NotFound, TypeInv, TypeOK
    <2>3. ArgsOK'
        BY <1>0, <2>1 DEF ArgsOK, TypeInv, Fresh
    <2> QED
        BY <2>2, <2>3 DEF TypeInv
<1> QED
    BY <1>1, <1>2

\* getFD answers a descriptor or -1, and what is open under it is a file.
LEMMA DprintfType ==
    ASSUME TypeOK, NEW t \in Threads, Dprintf(t)
    PROVE  /\ fd' \in -1..MaxFd
           /\ reached' \subseteq Everything
           /\ errno' \in [Threads -> Errnos]
<1>1. getFD \in -1..MaxFd
    BY DEF getFD, TypeOK
<1>2. Target(getFD) \in Everything
    BY DEF Target, TypeOK, Everything
<1> QED
    BY <1>1, <1>2 DEF Dprintf, TypeOK, Errnos

\* The steps of a wrapper keep the records of the calls.
LEMMA WrapperKeeps ==
    ASSUME TypeInv, NEW t \in Threads,
           getAbsPath(t) \/ FD2name(t) \/ RealCall(t) \/ LogText(t) \/ LogData(t)
    PROVE  CallKept
<1>0. TypeOK /\ call[t] \in Calls
    BY DEF TypeInv, TypeOK
<1>1. ASSUME NEW s, NEW c, At(t, s), Result(t, c), Continue(t, c) PROVE CallKept
    BY <1>1, <1>0, ContinueType
<1>2. CASE getAbsPath(t)
    <2>1. ASSUME NEW p \in Paths \cup {"none"} PROVE RealPath(p) \in Labels
        BY DEF RealPath, Labels
    <2>2. /\ Result(t, [call[t] EXCEPT !.name = RealPath(call[t].path)])
          /\ Result(t, [call[t] EXCEPT !.toname = RealPath(call[t].to)])
        BY <1>0, <2>1 DEF Result, Calls
    <2> QED
        BY <1>1, <1>2, <2>2 DEF getAbsPath
<1>3. CASE FD2name(t)
    <2> DEFINE file == table[call[t].fildes]
               nm == IF file = NoFile THEN "empty" ELSE LinkOf(file)
    <2>1. nm \in Labels
        BY DEF LinkOf, Labels, Tty, LogFile
    <2>2. Continue(t, [call[t] EXCEPT !.name = nm]) /\ At(t, "fdname")
        BY <1>3 DEF FD2name
    <2> HIDE DEF nm
    <2>3. Result(t, [call[t] EXCEPT !.name = nm])
        BY <1>0, <2>1 DEF Result, Calls
    <2> QED
        BY <1>1, <2>2, <2>3
<1>4. CASE RealCall(t)
    BY <1>4, RealCallType
<1>5. CASE LogText(t)
    BY <1>5, <1>0, <1>1 DEF LogText, Result
<1>6. CASE LogData(t)
    BY <1>6, <1>0, <1>1 DEF LogData, Result
<1> QED
    BY <1>2, <1>3, <1>4, <1>5, <1>6

\* Every step of the launcher and of the command keeps the types.
LEMMA TypeStep ==
    ASSUME TypeInv, [Next]_vars
    PROVE  TypeInv'
<1> USE DEF shell, inCommand
<1>0. TypeOK /\ ArgsOK
    BY DEF TypeInv
<1>1. ASSUME UNCHANGED <<table, names, fd, call, errno, reached>>,
             launcher' \in {"options", "polling", "done", "failed"},
             o_fd' \in -1..MaxFd, LOGGER' \in -1..MaxFd,
             command' \in {"none", "forked", "running", "zombie", "reaped"},
             preloaded' \in BOOLEAN
      PROVE  TypeInv'
    BY <1>1, <1>0 DEF TypeInv, TypeOK, ArgsOK
<1>2. CASE opt_p \/ give_up \/ fork \/ exec \/ poll
    BY <1>2, <1>0, <1>1 DEF opt_p, give_up, fork, exec, poll, TypeOK
<1>3. ASSUME NEW arg \in OArgs, opt_o(arg) PROVE TypeInv'
    <2>1. o_fd' \in -1..MaxFd /\ LOGGER' \in -1..MaxFd
        BY <1>3, LoggerAssumption DEF opt_o, Fds
    <2>2. table' \in [Fds -> Everything]
        BY <1>3, <1>0 DEF opt_o, TypeOK, Everything
    <2> QED
        BY <1>3, <1>0, <2>1, <2>2 DEF opt_o, TypeInv, TypeOK, ArgsOK
<1>4. ASSUME NEW t \in Threads, Invoke(t) PROVE TypeInv'
    BY <1>4, InvokeType
<1>5. ASSUME NEW t \in Threads,
             getAbsPath(t) \/ FD2name(t) \/ RealCall(t) \/ LogText(t) \/ LogData(t)
      PROVE  call' \in [Threads -> Calls] /\ ArgsOK'
    BY <1>5, <1>0, WrapperKeeps, ArgsKept DEF CallKept
<1>6. ASSUME NEW t \in Threads, getAbsPath(t) \/ FD2name(t) PROVE TypeInv'
    <2>1. errno' \in [Threads -> Errnos]
        BY <1>6, <1>0 DEF getAbsPath, FD2name, SetErrno, TypeOK, Errnos
    <2> QED
        BY <1>5, <1>6, <1>0, <2>1 DEF getAbsPath, FD2name, TypeInv, TypeOK
<1>7. ASSUME NEW t \in Threads, RealCall(t) PROVE TypeInv'
    BY <1>5, <1>7, <1>0, RealCallType DEF RealCall, TypeInv, TypeOK
<1>8. ASSUME NEW t \in Threads, LogText(t) PROVE TypeInv'
    BY <1>5, <1>8, <1>0, DprintfType DEF LogText, Dprintf, TypeInv, TypeOK
<1>9. ASSUME NEW t \in Threads, LogData(t) PROVE TypeInv'
    <2>1. CASE Dprintf(t)
        BY <1>5, <1>9, <1>0, <2>1, DprintfType DEF Dprintf, TypeInv, TypeOK
    <2>2. CASE ~Dprintf(t)
        BY <1>5, <1>9, <1>0, <2>2 DEF LogData, TypeInv, TypeOK
    <2> QED
        BY <2>1, <2>2
<1>10. ASSUME NEW t \in Threads, Return(t) PROVE TypeInv'
    <2>1. TypeOK'
        BY <1>10, <1>0, IdleType DEF Return, TypeOK, Errnos
    <2>2. ArgsOK'
        BY <1>10, <1>0 DEF Return, ArgsOK, TypeOK, Idle, Pathed, OpenOps
    <2> QED
        BY <2>1, <2>2 DEF TypeInv
<1>11. CASE Exit
    <2>1. TypeOK'
        BY <1>11, <1>0, IdleType, LoggerAssumption
           DEF Exit, Ends, TypeOK, Fds, Everything, Errnos
    <2>2. ArgsOK'
        BY <1>11 DEF Exit, Ends, ArgsOK, Idle, Pathed, OpenOps
    <2> QED
        BY <2>1, <2>2 DEF TypeInv
<1>12. CASE UNCHANGED vars
    BY <1>12, <1>0 DEF vars, TypeInv, TypeOK, ArgsOK
<1> QED
    BY <1>2, <1>3, <1>4, <1>5, <1>6, <1>7, <1>8, <1>9, <1>10, <1>11, <1>12
    DEF Next, Launcher, Wrapper, Over

\* No interleaving of the command's threads and the launcher takes the
\* descriptor tables, the cached descriptor or a call out of its type.
THEOREM TypeCorrect == Spec => []TypeOK
<1>1. TypeInv /\ [Next]_vars => TypeInv'
    BY TypeStep
<1>2. TypeInv => TypeOK
    BY DEF TypeInv
<1> QED
    BY InitType, <1>1, <1>2, PTL DEF Spec

-----------------------------------------------------------------------------
(* Descriptor 2. *)

\* It stays the terminal while the command runs: close and fclose spare it, so no
\* open can be given its number.  Only a running command is in wrappers.
Spared ==
    /\ launcher = "options" => command = "none"
    /\ command \in {"none", "forked", "running"} => table[2] = Tty
    /\ command # "running" => \A t \in Threads : call[t] = Idle
    /\ \A t \in Threads : call[t].op = "fclose" /\ call[t].fildes = 2 => call[t].std

\* The function of libc in a wrapper leaves descriptor 2 open.
LEMMA RealCallStderr ==
    ASSUME TypeInv, Spared, NEW t \in Threads, RealCall(t)
    PROVE  table'[2] = Tty
<1>1. /\ table \in [Fds -> Everything] /\ 2 \in Fds
      /\ table[2] = Tty /\ Tty # NoFile
    BY LoggerAssumption DEF TypeInv, TypeOK, Spared, RealCall, At, Fds, Tty, NoFile
<1>2. ASSUME NEW f \in Fds, Free(f) PROVE f # 2
    BY <1>1, <1>2 DEF Free
<1>3. CASE UNCHANGED table
    BY <1>1, <1>3
<1>4. CASE Open(t)
    BY <1>1, <1>2, <1>4 DEF Open
<1>5. CASE OpenTemporary(t)
    BY <1>1, <1>2, <1>5 DEF OpenTemporary
<1>6. CASE call[t].op \in {"close", "fclose"} /\ ~Protected(t) /\ Release(t)
    <2>1. call[t].fildes # 2
        BY <1>6 DEF Protected, Spared
    <2> QED
        BY <1>1, <1>6, <2>1 DEF Release
<1> QED
    BY <1>3, <1>4, <1>5, <1>6
    DEF RealCall, ChangeMode, Remove, Rename, Transfer

LEMMA InitSpared == Init => Spared
<1>1. 2 \in Fds
    BY LoggerAssumption DEF Fds
<1> QED
    BY <1>1 DEF Init, Spared, Idle

LEMMA SparedStep ==
    ASSUME 2 \notin OwnStreams, TypeInv, Spared, [Next]_vars
    PROVE  Spared'
<1> USE DEF shell, inCommand
<1>0. TypeOK /\ call \in [Threads -> Calls]
    BY DEF TypeInv, TypeOK
<1>1. CASE opt_p \/ give_up \/ fork \/ exec \/ poll
    <2>1. /\ UNCHANGED <<table, call>>
          /\ launcher' = "options" => command' = "none"
          /\ command' \in {"none", "forked", "running"}
                => command \in {"none", "forked", "running"}
          /\ command = "running" => command' = "running"
        BY <1>1 DEF opt_p, give_up, fork, exec, poll, Spared
    <2> QED
        BY <2>1 DEF Spared
<1>2. ASSUME NEW arg \in OArgs, opt_o(arg) PROVE Spared'
    <2>1. table[2] = Tty /\ 2 \in Fds /\ Tty # NoFile /\ table \in [Fds -> Everything]
        BY <1>2, <1>0, LoggerAssumption DEF opt_o, Spared, Fds, Tty, NoFile, TypeOK
    <2>2. table'[2] = Tty
        BY <1>2, <2>1 DEF opt_o, Free
    <2> QED
        BY <1>2, <2>2 DEF opt_o, Spared
<1>3. ASSUME Ends, command = "running" PROVE Spared'
    BY <1>3 DEF Ends, Spared, Idle
<1>4. ASSUME NEW t \in Threads, Invoke(t) PROVE Spared'
    <2>1. PICK c : Fresh(c) /\ Enter(t, c)
        BY <1>4, InvokeFresh
    <2>2. c.op = "fclose" /\ c.fildes = 2 => c.std
        BY <2>1 DEF Fresh
    <2> QED
        BY <1>0, <1>3, <2>1, <2>2 DEF Enter, NotFound, Spared
<1>5. ASSUME NEW t \in Threads,
             getAbsPath(t) \/ FD2name(t) \/ RealCall(t) \/ LogText(t) \/ LogData(t)
      PROVE  Spared'
    <2>1. /\ command = "running" /\ UNCHANGED <<launcher, command>>
          /\ RealCall(t) \/ UNCHANGED table
        BY <1>5 DEF getAbsPath, FD2name, RealCall, LogText, LogData, Dprintf, At
    <2>2. table'[2] = Tty
        BY <2>1, RealCallStderr DEF Spared
    <2>3. SameArgs
        BY <1>5, WrapperKeeps DEF CallKept
    <2> QED
        BY <2>1, <2>2, <2>3 DEF Spared, SameArgs
<1>6. ASSUME NEW t \in Threads, Return(t) PROVE Spared'
    BY <1>6, <1>0 DEF Return, Spared, Idle
<1>7. CASE Exit
    BY <1>7, <1>3 DEF Exit
<1>8. CASE UNCHANGED vars
    BY <1>8 DEF vars, Spared
<1> QED
    BY <1>1, <1>2, <1>4, <1>5, <1>6, <1>7, <1>8 DEF Next, Launcher, Wrapper, Over

-----------------------------------------------------------------------------
(* Without -o the log gets to stderr. *)

\* getFD never answers another descriptor than 2.
Stderr ==
    /\ Spared
    /\ o_fd = -1 /\ LOGGER = 2 /\ fd \in {-1, 2}
    /\ reached \subseteq {Tty}

StderrInv == TypeInv /\ Stderr

\* A line gets to the terminal.
LEMMA DprintfStderr ==
    ASSUME StderrInv, command = "running"
    PROVE  getFD = 2 /\ Target(getFD) = Tty /\ Tty # NoFile
<1>1. getFD = 2 /\ 2 \in Fds /\ table[2] = Tty
    BY LoggerAssumption DEF getFD, StderrInv, Stderr, Spared, Fds
<1> QED
    BY <1>1 DEF Target, Tty, NoFile

\* Every step keeps descriptor 2 and the log on it.
LEMMA StderrStep ==
    ASSUME OArgs = {}, 2 \notin OwnStreams, StderrInv, [Next]_vars
    PROVE  StderrInv'
<1> USE DEF shell, inCommand
<1>0. TypeInv /\ TypeInv' /\ Stderr /\ Spared /\ Spared'
    BY TypeStep, SparedStep DEF StderrInv, Stderr
<1>1. SUFFICES /\ UNCHANGED <<o_fd, LOGGER>> /\ fd' \in {-1, 2}
               /\ reached' \subseteq {Tty}
    BY <1>0 DEF StderrInv, Stderr
<1>2. CASE UNCHANGED <<o_fd, LOGGER, fd, reached>>
    BY <1>0, <1>2 DEF Stderr
<1>3. CASE opt_p \/ give_up \/ fork \/ exec \/ poll
    BY <1>2, <1>3 DEF opt_p, give_up, fork, exec, poll
<1>4. CASE Ends
    BY <1>0, <1>4 DEF Ends, Stderr
<1>5. ASSUME NEW t \in Threads, Invoke(t)
      PROVE  Ends \/ UNCHANGED <<o_fd, LOGGER, fd, reached>>
    BY <1>5, InvokeFresh DEF Enter, NotFound
<1>6. ASSUME NEW t \in Threads, getAbsPath(t) \/ FD2name(t) \/ RealCall(t) \/ Return(t)
      PROVE  UNCHANGED <<o_fd, LOGGER, fd, reached>>
    BY <1>6 DEF getAbsPath, FD2name, RealCall, Return
<1>7. ASSUME NEW t \in Threads, LogText(t) \/ LogData(t)
      PROVE  /\ UNCHANGED <<o_fd, LOGGER>> /\ fd' \in {-1, 2}
             /\ reached' \subseteq {Tty}
    <2>1. command = "running" /\ (Dprintf(t) \/ UNCHANGED <<o_fd, LOGGER, fd, reached>>)
        BY <1>7 DEF LogText, LogData, At
    <2>2. CASE Dprintf(t)
        BY <1>0, <2>1, <2>2, DprintfStderr DEF Dprintf, Stderr
    <2> QED
        BY <1>2, <2>1, <2>2
<1>8. CASE UNCHANGED vars
    BY <1>2, <1>8 DEF vars
<1> QED
    BY <1>2, <1>3, <1>4, <1>5, <1>6, <1>7, <1>8
    DEF Next, Launcher, Wrapper, Exit, Over

LEMMA InitStderr == Init => StderrInv
BY InitType, InitSpared DEF Init, StderrInv, Stderr

\* Without -o, and unless the command puts a FILE of its own on descriptor 2 and
\* closes that, all log text gets to stderr: whatever the threads close and
\* open, and in whatever order their wrappers interleave.
THEOREM LogArrivesHolds ==
    ASSUME OArgs = {}, 2 \notin OwnStreams
    PROVE  Spec => []LogArrives
<1>1. StderrInv /\ [Next]_vars => StderrInv'
    BY StderrStep
<1>2. StderrInv => LogArrives
    BY DEF StderrInv, Stderr, LogArrives, Sink
<1> QED
    BY InitStderr, <1>1, <1>2, PTL DEF Spec
-----------------------------------------------------------------------------
(* Under every option the log stays where it was sent. *)

\* What getFD answers is the descriptor main of the launcher opened, or 2: once the
\* launcher has forked LOGGER stays, and only a running command has it in fd.
Sent ==
    /\ Spared
    /\ o_fd >= 0 => LOGGER = o_fd
    /\ o_fd < 0 => LOGGER \in {-1, 2}
    /\ fd \in {-1, LOGGER}
    /\ command # "running" => fd = -1

SentInv == TypeInv /\ Sent

LEMMA InitSent == Init => SentInv
BY InitType, InitSpared DEF Init, SentInv, Sent

\* Every step keeps it.
LEMMA SentStep ==
    ASSUME 2 \notin OwnStreams, SentInv, [Next]_vars
    PROVE  SentInv'
<1> USE DEF shell, inCommand
<1>0. TypeInv /\ TypeInv' /\ Sent /\ Spared /\ Spared'
    BY TypeStep, SparedStep DEF SentInv, Sent
<1>1. CASE opt_p \/ give_up \/ fork \/ exec \/ poll
    <2>1. UNCHANGED <<o_fd, LOGGER, fd>> /\ (command = "running" => command' = "running")
        BY <1>0, <1>1 DEF opt_p, give_up, fork, exec, poll, Spared
    <2>2. command # "running" => fd = -1
        BY <1>0 DEF Sent
    <2>3. command' # "running" => fd' = -1
        BY <2>1, <2>2
    <2> QED
        BY <1>0, <2>1, <2>3 DEF SentInv, Sent
<1>2. ASSUME NEW arg \in OArgs, opt_o(arg) PROVE SentInv'
    <2>1. command = "none" /\ UNCHANGED <<fd, command>> /\ fd = -1
        BY <1>0, <1>2 DEF opt_o, Spared, Sent
    <2>2. LOGGER' = o_fd' /\ o_fd' \in -1..MaxFd
        BY <1>2, LoggerAssumption DEF opt_o, Fds
    <2> QED
        BY <1>0, <2>1, <2>2, LoggerAssumption DEF SentInv, Sent
<1>3. CASE Ends
    BY <1>0, <1>3 DEF Ends, SentInv, Sent
<1>4. ASSUME NEW t \in Threads, Invoke(t) PROVE SentInv'
    <2>1. Ends \/ UNCHANGED <<o_fd, LOGGER, fd, command>>
        BY <1>4, InvokeFresh DEF Enter, NotFound
    <2> QED
        BY <1>0, <1>3, <2>1 DEF SentInv, Sent
<1>5. ASSUME NEW t \in Threads, Wrapper(t) PROVE SentInv'
    <2>1. /\ UNCHANGED <<o_fd, LOGGER, command>> /\ command = "running"
          /\ fd' \in {fd, getFD}
        BY <1>5 DEF Wrapper, getAbsPath, FD2name, RealCall, LogText, LogData, Dprintf, Return, At
    <2>2. fd' \in {-1, LOGGER}
        BY <1>0, <2>1 DEF getFD, Sent
    <2> QED
        BY <1>0, <2>1, <2>2 DEF SentInv, Sent
<1>6. CASE UNCHANGED vars
    BY <1>0, <1>6 DEF vars, SentInv, Sent
<1> QED
    BY <1>1, <1>2, <1>3, <1>4, <1>5, <1>6 DEF Next, Launcher, Exit, Over

\* A line goes to the sink of the options, if that is still there.
LEMMA DprintfSent ==
    ASSUME SentInv, command = "running", o_fd >= 0 => table[o_fd] = LogFile
    PROVE  Target(getFD) = Sink
<1>1. TypeOK /\ Spared /\ Sent /\ table[2] = Tty
    BY DEF SentInv, TypeInv, Sent, Spared
<1>2. getFD = LOGGER
    BY <1>1, LoggerAssumption DEF getFD, Sent, TypeOK
<1>3. CASE o_fd >= 0
    <2>1. getFD \in Fds /\ table[getFD] = LogFile
        BY <1>1, <1>2, <1>3, LoggerAssumption DEF Sent, TypeOK, Fds
    <2> QED
        BY <1>3, <2>1 DEF Target, Sink
<1>4. CASE ~(o_fd >= 0) /\ LOGGER = -1
    BY <1>2, <1>4 DEF Target, Sink, Fds
<1>5. CASE ~(o_fd >= 0) /\ LOGGER = 2
    BY <1>1, <1>2, <1>5, LoggerAssumption DEF Target, Sink, Fds
<1> QED
    BY <1>1, <1>3, <1>4, <1>5 DEF Sent, TypeOK

\* Whatever options the launcher is given, in any number, and unless the command puts a
\* FILE of its own on descriptor 2 and closes that: log text never leaves the
\* file of the last -o before the command has closed its descriptor, is nowhere
\* after an -o that could not be opened, and at stderr without -o.
THEOREM LogStaysHolds ==
    ASSUME 2 \notin OwnStreams
    PROVE  Spec => LogStays
<1> DEFINE Step == (o_fd >= 0 => table[o_fd] = LogFile) => reached' \ reached \subseteq {Sink}
<1>1. SentInv /\ [Next]_vars => SentInv'
    BY SentStep
<1>2. SentInv /\ [Next]_vars => [Step]_vars
    <2> SUFFICES ASSUME SentInv, Next, o_fd >= 0 => table[o_fd] = LogFile
                 PROVE  reached' \ reached \subseteq {Sink}
        OBVIOUS
    <2> USE DEF shell, inCommand
    <2>1. CASE UNCHANGED reached
        BY <2>1
    <2>2. CASE Launcher \/ Exit \/ Over
        BY <2>1, <2>2 DEF Launcher, opt_p, opt_o, give_up, fork, exec, poll, Exit, Ends, Over, vars
    <2>3. ASSUME NEW t \in Threads, Invoke(t) PROVE UNCHANGED reached
        BY <2>3, InvokeFresh DEF Enter, NotFound, Ends
    <2>4. ASSUME NEW t \in Threads, Wrapper(t)
          PROVE  UNCHANGED reached \/ (command = "running" /\ Dprintf(t))
        BY <2>4 DEF Wrapper, getAbsPath, FD2name, RealCall, LogText, LogData, Return, At
    <2>5. ASSUME NEW t \in Threads, command = "running", Dprintf(t)
          PROVE  reached' \ reached \subseteq {Sink}
        BY <2>5, DprintfSent DEF Dprintf
    <2> QED
        BY <2>1, <2>2, <2>3, <2>4, <2>5 DEF Next
<1> QED
    BY InitSent, <1>1, <1>2, PTL DEF Spec, LogStays
=============================================================================
