-------------------------- MODULE LoggerCallProofs --------------------------
(***************************************************************************)
(* What a caller and a reader of the log can rely on, proved step by step  *)
(* along the wrappers of logger.c: errno is that of the call that failed,  *)
(* and the line of a call that succeeded names its file.                   *)
(***************************************************************************)
EXTENDS LoggerProofs

-----------------------------------------------------------------------------
(* The steps that are left of a wrapper. *)

L == <<"line">>
CL == <<"call", "line">>
PCL == <<"path", "call", "line">>
FCL == <<"fdname", "call", "line">>
TL == <<"to", "line">>
CTL == <<"call", "to", "line">>
PCTL == <<"path", "call", "to", "line">>
PL == <<"path", "line">>
CPL == <<"call", "path", "line">>
T == <<"tail">>
DT == <<"data", "tail">>
HDT == <<"head", "data", "tail">>
FHDT == <<"fdname", "head", "data", "tail">>
CFHDT == <<"call", "fdname", "head", "data", "tail">>

LEMMA Heads ==
    /\ Head(L) = "line" /\ Head(CL) = "call" /\ Head(PCL) = "path" /\ Head(FCL) = "fdname"
    /\ Head(TL) = "to" /\ Head(CTL) = "call" /\ Head(PCTL) = "path"
    /\ Head(PL) = "path" /\ Head(CPL) = "call"
    /\ Head(T) = "tail" /\ Head(DT) = "data" /\ Head(HDT) = "head"
    /\ Head(FHDT) = "fdname" /\ Head(CFHDT) = "call"
BY DEF L, CL, PCL, FCL, TL, CTL, PCTL, PL, CPL, T, DT, HDT, FHDT, CFHDT

LEMMA Tails ==
    /\ Tail(L) = <<>> /\ Tail(CL) = L /\ Tail(PCL) = CL /\ Tail(FCL) = CL
    /\ Tail(TL) = L /\ Tail(CTL) = TL /\ Tail(PCTL) = CTL
    /\ Tail(PL) = L /\ Tail(CPL) = PL
    /\ Tail(T) = <<>> /\ Tail(DT) = T /\ Tail(HDT) = DT
    /\ Tail(FHDT) = HDT /\ Tail(CFHDT) = FHDT
BY DEF L, CL, PCL, FCL, TL, CTL, PCTL, PL, CPL, T, DT, HDT, FHDT, CFHDT

LEMMA NotOver ==
    <<>> \notin {L, CL, PCL, FCL, TL, CTL, PCTL, PL, CPL, T, DT, HDT, FHDT, CFHDT}
BY DEF L, CL, PCL, FCL, TL, CTL, PCTL, PL, CPL, T, DT, HDT, FHDT, CFHDT

LEMMA Plans ==
    /\ \A op \in {"chmod", "chown", "remove"} : Plan(op) = PCL
    /\ Plan("rename") = PCTL
    /\ \A op \in OpenOps : Plan(op) = CPL
    /\ \A op \in {"close", "fclose"} : Plan(op) = FCL
    /\ \A op \in DataOps : Plan(op) = CFHDT
<1>1. Plan("chmod") = PCL /\ Plan("chown") = PCL /\ Plan("remove") = PCL /\ Plan("rename") = PCTL
    BY DEF Plan, chmod, chown, remove, rename, PCL, PCTL
<1>2. /\ Plan("creat") = CPL /\ Plan("creat64") = CPL /\ Plan("open") = CPL
      /\ Plan("open64") = CPL /\ Plan("fopen") = CPL /\ Plan("fopen64") = CPL
    BY DEF Plan, creat, creat64, open, open64, fopen, fopen64, CPL
<1>3. Plan("close") = FCL /\ Plan("fclose") = FCL
    BY DEF Plan, close, fclose, FCL
<1>4. Plan("read") = CFHDT /\ Plan("write") = CFHDT /\ Plan("fread") = CFHDT /\ Plan("fwrite") = CFHDT
    BY DEF Plan, read, write, fread, fwrite, CFHDT
<1> QED
    BY <1>1, <1>2, <1>3, <1>4 DEF OpenOps, DataOps

-----------------------------------------------------------------------------
(* What a step does to the record of the call. *)

\* Thread t goes on with the same call; the other threads are where they were.
GoesOn(t) ==
    /\ call'[t].todo = Tail(call[t].todo)
    /\ call'[t].op = call[t].op /\ call'[t].path = call[t].path /\ call'[t].to = call[t].to
    /\ call'[t].fildes = call[t].fildes /\ call'[t].std = call[t].std
    /\ \A u \in Threads \ {t} : call'[u] = call[u] /\ errno'[u] = errno[u]

SameNames(t) == call'[t].name = call[t].name /\ call'[t].toname = call[t].toname
SameResult(t) == call'[t].res = call[t].res /\ call'[t].err = call[t].err

LEMMA Moved ==
    ASSUME TypeOK, NEW t \in Threads, NEW c \in Calls, Continue(t, c)
    PROVE  /\ \A u \in Threads \ {t} : call'[u] = call[u]
           /\ call'[t].todo = Tail(c.todo)
           /\ call'[t].op = c.op /\ call'[t].path = c.path /\ call'[t].to = c.to
           /\ call'[t].fildes = c.fildes /\ call'[t].std = c.std
           /\ call'[t].name = c.name /\ call'[t].toname = c.toname
           /\ call'[t].res = c.res /\ call'[t].err = c.err
<1> DEFINE d == [c EXCEPT !.todo = Tail(@)]
<1>1. /\ d.todo = Tail(c.todo) /\ d.op = c.op /\ d.path = c.path /\ d.to = c.to
      /\ d.fildes = c.fildes /\ d.std = c.std /\ d.name = c.name /\ d.toname = c.toname
      /\ d.res = c.res /\ d.err = c.err
    BY DEF Calls
<1>2. call' = [call EXCEPT ![t] = d] /\ call \in [Threads -> Calls]
    BY DEF Continue, TypeOK
<1> HIDE DEF d
<1> QED
    BY <1>1, <1>2

LEMMA NameMoves ==
    ASSUME TypeInv, NEW t \in Threads, getAbsPath(t) \/ FD2name(t)
    PROVE  /\ GoesOn(t) /\ SameResult(t) /\ UNCHANGED <<table, names>>
           /\ call[t].todo # <<>>
           /\ \/ /\ Head(call[t].todo) = "path" /\ call'[t].toname = call[t].toname
                 /\ call'[t].name = RealPath(call[t].path)
              \/ /\ Head(call[t].todo) = "to" /\ call'[t].name = call[t].name
                 /\ call'[t].toname = RealPath(call[t].to)
              \/ /\ Head(call[t].todo) = "fdname" /\ call'[t].toname = call[t].toname
                 /\ call'[t].name = IF table[call[t].fildes] = NoFile THEN "empty"
                                    ELSE LinkOf(table[call[t].fildes])
<1>0. TypeOK /\ call[t] \in Calls /\ errno \in [Threads -> Errnos]
    BY DEF TypeInv, TypeOK
<1>1. /\ UNCHANGED <<table, names>> /\ call[t].todo # <<>>
      /\ \A u \in Threads \ {t} : errno'[u] = errno[u]
    BY <1>0 DEF getAbsPath, FD2name, SetErrno, At
<1>2. ASSUME NEW w \in Labels
      PROVE  /\ [call[t] EXCEPT !.name = w] \in Calls
             /\ [call[t] EXCEPT !.toname = w] \in Calls
    BY <1>0 DEF Calls
<1>3. \A p \in Paths \cup {"none"} : RealPath(p) \in Labels
    BY DEF RealPath, Labels
<1>4. CASE At(t, "path") /\ Continue(t, [call[t] EXCEPT !.name = RealPath(call[t].path)])
    <2> DEFINE c == [call[t] EXCEPT !.name = RealPath(call[t].path)]
    <2>1. c \in Calls
        BY <1>0, <1>2, <1>3 DEF Calls
    <2>2. /\ c.todo = call[t].todo /\ c.op = call[t].op /\ c.path = call[t].path /\ c.to = call[t].to
          /\ c.fildes = call[t].fildes /\ c.std = call[t].std /\ c.toname = call[t].toname
          /\ c.res = call[t].res /\ c.err = call[t].err /\ c.name = RealPath(call[t].path)
        BY <1>0 DEF Calls
    <2>3. Continue(t, c) /\ At(t, "path")
        BY <1>4
    <2> HIDE DEF c
    <2> QED
        BY <1>0, <1>1, <2>1, <2>2, <2>3, Moved DEF GoesOn, SameResult, At
<1>5. CASE At(t, "to") /\ Continue(t, [call[t] EXCEPT !.toname = RealPath(call[t].to)])
    <2> DEFINE c == [call[t] EXCEPT !.toname = RealPath(call[t].to)]
    <2>1. c \in Calls
        BY <1>0, <1>2, <1>3 DEF Calls
    <2>2. /\ c.todo = call[t].todo /\ c.op = call[t].op /\ c.path = call[t].path /\ c.to = call[t].to
          /\ c.fildes = call[t].fildes /\ c.std = call[t].std /\ c.name = call[t].name
          /\ c.res = call[t].res /\ c.err = call[t].err /\ c.toname = RealPath(call[t].to)
        BY <1>0 DEF Calls
    <2>3. Continue(t, c) /\ At(t, "to")
        BY <1>5
    <2> HIDE DEF c
    <2> QED
        BY <1>0, <1>1, <2>1, <2>2, <2>3, Moved DEF GoesOn, SameResult, At
<1>6. CASE FD2name(t)
    <2> DEFINE nm == IF table[call[t].fildes] = NoFile THEN "empty" ELSE LinkOf(table[call[t].fildes])
               c == [call[t] EXCEPT !.name = nm]
    <2>1. nm \in Labels
        BY DEF LinkOf, Labels, Tty, LogFile
    <2>2. Continue(t, c) /\ At(t, "fdname")
        BY <1>6 DEF FD2name
    <2>3. c \in Calls
        BY <1>2, <2>1
    <2> HIDE DEF nm
    <2>4. /\ c.todo = call[t].todo /\ c.op = call[t].op /\ c.path = call[t].path /\ c.to = call[t].to
          /\ c.fildes = call[t].fildes /\ c.std = call[t].std /\ c.toname = call[t].toname
          /\ c.res = call[t].res /\ c.err = call[t].err /\ c.name = nm
        BY <1>0 DEF Calls
    <2> HIDE DEF c
    <2>5. GoesOn(t) /\ SameResult(t) /\ call'[t].toname = call[t].toname /\ call'[t].name = nm
        BY <1>0, <1>1, <2>2, <2>3, <2>4, Moved DEF GoesOn, SameResult
    <2> QED
        BY <1>1, <2>2, <2>5 DEF At, nm
<1> QED
    BY <1>4, <1>5, <1>6 DEF getAbsPath

LEMMA LogMoves ==
    ASSUME TypeInv, NEW t \in Threads, LogText(t) \/ LogData(t)
    PROVE  /\ GoesOn(t) /\ SameNames(t) /\ SameResult(t) /\ UNCHANGED <<table, names>>
           /\ command = "running" /\ call[t].todo # <<>>
           /\ Head(call[t].todo) \in {"line", "head", "data", "tail"}
           /\ Dprintf(t) \/ UNCHANGED errno
<1>0. TypeOK /\ call[t] \in Calls /\ errno \in [Threads -> Errnos]
    BY DEF TypeInv, TypeOK
<1>1. /\ UNCHANGED <<table, names>> /\ command = "running" /\ call[t].todo # <<>>
      /\ Head(call[t].todo) \in {"line", "head", "data", "tail"}
      /\ Dprintf(t) \/ UNCHANGED errno
    BY DEF LogText, LogData, Dprintf, At
<1>2. \A u \in Threads \ {t} : errno'[u] = errno[u]
    BY <1>0, <1>1 DEF Dprintf
<1>3. Continue(t, call[t])
    BY DEF LogText, LogData
<1>4. GoesOn(t) /\ SameNames(t) /\ SameResult(t)
    BY <1>0, <1>2, <1>3, Moved DEF GoesOn, SameNames, SameResult
<1> QED
    BY <1>1, <1>4

\* A function of libc that returns, and one that fails.
LEMMA ReturnMoves ==
    ASSUME TypeInv, NEW t \in Threads, NEW r \in Int, Returns(t, r)
    PROVE  /\ GoesOn(t) /\ SameNames(t) /\ UNCHANGED errno
           /\ call'[t].res = r /\ call'[t].err = call[t].err
<1>0. TypeOK /\ call[t] \in Calls
    BY DEF TypeInv, TypeOK
<1> DEFINE c == [call[t] EXCEPT !.res = r]
<1>1. /\ c \in Calls /\ c.todo = call[t].todo /\ c.op = call[t].op /\ c.path = call[t].path
      /\ c.to = call[t].to /\ c.fildes = call[t].fildes /\ c.std = call[t].std
      /\ c.name = call[t].name /\ c.toname = call[t].toname
      /\ c.res = r /\ c.err = call[t].err
    BY <1>0 DEF Calls
<1>2. Continue(t, c) /\ UNCHANGED errno
    BY DEF Returns
<1> HIDE DEF c
<1> QED
    BY <1>0, <1>1, <1>2, Moved DEF GoesOn, SameNames

LEMMA FailMoves ==
    ASSUME TypeInv, NEW t \in Threads, NEW e \in Errnos, Fails(t, e)
    PROVE  GoesOn(t) /\ SameNames(t) /\ call'[t].err = e /\ errno'[t] = e
<1>0. TypeOK /\ call[t] \in Calls /\ errno \in [Threads -> Errnos]
    BY DEF TypeInv, TypeOK
<1> DEFINE r == IF call[t].op \in {"fread", "fwrite"} THEN 0 ELSE -1
           c == [call[t] EXCEPT !.res = r, !.err = e]
<1>1. Continue(t, c) /\ errno' = [errno EXCEPT ![t] = e] /\ r \in Int
    BY DEF Fails
<1> HIDE DEF r
<1>2. /\ c \in Calls /\ c.todo = call[t].todo /\ c.op = call[t].op /\ c.path = call[t].path
      /\ c.to = call[t].to /\ c.fildes = call[t].fildes /\ c.std = call[t].std
      /\ c.name = call[t].name /\ c.toname = call[t].toname /\ c.err = e
    BY <1>0, <1>1 DEF Calls
<1> HIDE DEF c
<1> QED
    BY <1>0, <1>1, <1>2, Moved DEF GoesOn, SameNames

-----------------------------------------------------------------------------
(* errno. *)

\* The wrappers that look a name up before the call.
NamedFirst == {"chmod", "chown", "remove", "close", "fclose"}

\* Up to its call a wrapper has no result; after it, errno is that of the call.
Errno(t) ==
    call[t].op \in NamedFirst =>
        /\ call[t].todo \in {PCL, FCL, CL, L, <<>>}
        /\ call[t].todo \in {PCL, FCL, CL} => call[t].res = 0
        /\ call[t].res = -1 => errno[t] = call[t].err

ErrnoInv == StderrInv /\ \A t \in Threads : Errno(t)

LEMMA ErrnoStep ==
    ASSUME StderrInv, NEW t \in Threads, Errno(t),
           getAbsPath(t) \/ FD2name(t) \/ RealCall(t) \/ LogText(t) \/ LogData(t)
    PROVE  /\ Errno(t)'
           /\ \A u \in Threads \ {t} : call'[u] = call[u] /\ errno'[u] = errno[u]
<1>0. TypeInv
    BY DEF StderrInv
<1>1. CASE getAbsPath(t) \/ FD2name(t)
    <2>1. /\ GoesOn(t) /\ SameResult(t) /\ call[t].todo # <<>>
          /\ Head(call[t].todo) \in {"path", "to", "fdname"}
        BY <1>0, <1>1, NameMoves
    <2>2. call[t].op \in NamedFirst =>
            call[t].todo \in {PCL, FCL} /\ call'[t].todo = CL /\ call'[t].res = 0
        BY <2>1, Heads, Tails DEF Errno, GoesOn, SameResult
    <2> QED
        BY <2>1, <2>2 DEF Errno, GoesOn
<1>2. CASE LogText(t) \/ LogData(t)
    <2>1. /\ GoesOn(t) /\ SameResult(t) /\ call[t].todo # <<>>
          /\ Head(call[t].todo) \in {"line", "head", "data", "tail"}
          /\ command = "running" /\ (Dprintf(t) \/ UNCHANGED errno)
        BY <1>0, <1>2, LogMoves
    <2>2. UNCHANGED errno
        BY <2>1, DprintfStderr DEF Dprintf
    <2>3. call[t].op \in NamedFirst => call[t].todo = L /\ call'[t].todo = <<>>
        BY <2>1, Heads, Tails DEF Errno, GoesOn
    <2>4. <<>> \notin {PCL, FCL, CL}
        BY NotOver
    <2> QED
        BY <2>1, <2>2, <2>3, <2>4 DEF Errno, GoesOn, SameResult
<1>3. CASE RealCall(t)
    <2>0. L \notin {PCL, FCL, CL}
        BY Heads
    <2>1. call[t].op \in NamedFirst => call[t].todo = CL
        BY <1>3, Heads DEF RealCall, At, Errno
    <2>2. ASSUME NEW r \in Int, Returns(t, r), call[t].op \in NamedFirst => r = 0
          PROVE  /\ Errno(t)'
                 /\ \A u \in Threads \ {t} : call'[u] = call[u] /\ errno'[u] = errno[u]
        <3>1. GoesOn(t) /\ call'[t].res = r
            BY <1>0, <2>2, ReturnMoves
        <3>2. call[t].op \in NamedFirst => call'[t].todo = L /\ call'[t].res # -1
            BY <2>1, <2>2, <3>1, Tails DEF GoesOn
        <3>3. call'[t].op = call[t].op
            BY <3>1 DEF GoesOn
        <3>4. Errno(t)'
            BY <2>0, <3>2, <3>3 DEF Errno
        <3> QED
            BY <3>1, <3>4 DEF GoesOn
    <2>3. ASSUME NEW e \in Errnos, Fails(t, e)
          PROVE  /\ Errno(t)'
                 /\ \A u \in Threads \ {t} : call'[u] = call[u] /\ errno'[u] = errno[u]
        <3>1. GoesOn(t) /\ call'[t].err = e /\ errno'[t] = e
            BY <1>0, <2>3, FailMoves
        <3> QED
            BY <2>0, <2>1, <3>1, Tails DEF Errno, GoesOn
    <2>4. {"EACCES", "ENOENT", "EMFILE", "EBADF"} \subseteq Errnos /\ 0 \in Int
        BY DEF Errnos
    <2>5. CASE ChangeMode(t) \/ Remove(t) \/ Rename(t)
        BY <2>2, <2>3, <2>4, <2>5 DEF ChangeMode, Remove, Rename
    <2>6. CASE call[t].op \in OpenOps \cup TmpOps /\ (Open(t) \/ OpenTemporary(t))
        <3>1. call[t].op \notin NamedFirst /\ Fds \subseteq Int
            BY <2>6 DEF OpenOps, TmpOps, NamedFirst, Fds
        <3> QED
            BY <2>2, <2>3, <2>4, <2>6, <3>1 DEF Open, OpenTemporary
    <2>7. CASE Release(t)
        BY <2>2, <2>3, <2>4, <2>7 DEF Release
    <2>8. CASE Returns(t, 0)
        BY <2>2, <2>4, <2>8
    <2>9. CASE call[t].op \in DataOps /\ Transfer(t)
        <3>1. call[t].op \notin NamedFirst /\ \A r \in 0..call[t].nbyte : r \in Int
            BY <2>9 DEF DataOps, NamedFirst
        <3> QED
            BY <2>2, <2>3, <2>4, <2>9, <3>1 DEF Transfer
    <2> QED
        BY <1>3, <2>5, <2>6, <2>7, <2>8, <2>9 DEF RealCall
<1> QED
    BY <1>1, <1>2, <1>3

\* Without -o, chmod, chown, remove, close and fclose leave the errno of a call that
\* failed to the caller: the lookups come before the call, the line after it always
\* gets to stderr, and errno belongs to the thread, whatever the others do meanwhile.
THEOREM ErrnoKeptHolds ==
    ASSUME OArgs = {}, 2 \notin OwnStreams
    PROVE  Spec => []ErrnoKept
<1>1. Init => ErrnoInv
    <2> SUFFICES ASSUME Init PROVE \A t \in Threads : Errno(t)
        BY InitStderr DEF ErrnoInv
    <2> QED
        BY DEF Init, Errno, Idle, NamedFirst
<1>2. ASSUME ErrnoInv, [Next]_vars PROVE ErrnoInv'
    <2>0. /\ StderrInv /\ StderrInv' /\ call \in [Threads -> Calls]
          /\ errno \in [Threads -> Errnos] /\ \A t \in Threads : Errno(t)
        BY <1>2, StderrStep DEF ErrnoInv, StderrInv, TypeInv, TypeOK
    <2> SUFFICES \A t \in Threads : Errno(t)'
        BY <2>0 DEF ErrnoInv
    <2> USE DEF shell, inCommand
    <2>1. CASE UNCHANGED <<call, errno>>
        BY <2>0, <2>1 DEF Errno
    <2>2. CASE Ends
        BY <2>2 DEF Ends, Idle, Errno, NamedFirst
    <2>3. ASSUME NEW t \in Threads, Invoke(t) PROVE \A u \in Threads : Errno(u)'
        <3>1. PICK c : Fresh(c) /\ Enter(t, c)
            BY <2>3, InvokeFresh
        <3>2. c.op \in NamedFirst => c.todo \in {PCL, FCL} /\ c.res = 0
            BY <3>1, Plans DEF Fresh, NamedFirst
        <3>3. c.op \in NamedFirst => c.res # -1
            BY <3>2
        <3>4. CASE call' = [call EXCEPT ![t] = c] /\ UNCHANGED errno
            <4>1. call'[t] = c /\ \A u \in Threads \ {t} : call'[u] = call[u]
                BY <2>0, <3>4
            <4>2. Errno(t)'
                BY <3>2, <3>3, <4>1 DEF Errno
            <4>3. \A u \in Threads \ {t} : Errno(u)'
                BY <2>0, <3>4, <4>1 DEF Errno
            <4> QED
                BY <4>2, <4>3
        <3> QED
            BY <2>2, <3>1, <3>4 DEF Enter, NotFound
    <2>4. ASSUME NEW t \in Threads,
                 getAbsPath(t) \/ FD2name(t) \/ RealCall(t) \/ LogText(t) \/ LogData(t)
          PROVE  \A u \in Threads : Errno(u)'
        <3>1. /\ Errno(t)'
              /\ \A u \in Threads \ {t} : call'[u] = call[u] /\ errno'[u] = errno[u]
            BY <2>0, <2>4, ErrnoStep
        <3>2. \A u \in Threads \ {t} : Errno(u)'
            BY <2>0, <3>1 DEF Errno
        <3> QED
            BY <3>1, <3>2
    <2>5. ASSUME NEW t \in Threads, Return(t) PROVE \A u \in Threads : Errno(u)'
        BY <2>0, <2>5 DEF Return, Idle, Errno, NamedFirst
    <2>6. CASE Launcher
        <3>1. UNCHANGED <<call, errno>>
            BY <2>6 DEF Launcher, opt_p, opt_o, give_up, fork, exec, poll
        <3> QED
            BY <2>1, <3>1
    <2> QED
        BY <1>2, <2>1, <2>2, <2>3, <2>4, <2>5, <2>6 DEF Next, Wrapper, Exit, Over, vars
<1>3. ErrnoInv => ErrnoKept
    BY DEF ErrnoInv, Errno, ErrnoKept, NamedFirst
<1> QED
    BY <1>1, <1>2, <1>3, PTL DEF Spec

-----------------------------------------------------------------------------
(* The name in the line. *)

Shows(n) == n \notin {"untouched", "empty"}

\* The function of libc of thread t has done its work.
Succeeded(t) == call[t].err = "none"

\* chmod, chown and remove: a file that has no name yet is not there to succeed on.
NamedMode(t) ==
    /\ call[t].todo \in {PCL, CL, L, <<>>}
    /\ call[t].todo = CL => Shows(call[t].name) \/ ~Exists(call[t].path)
    /\ call[t].todo \in {L, <<>>} /\ Succeeded(t) => Shows(call[t].name)

\* rename: the second name is looked up when the file is there.
NamedRename(t) ==
    /\ call[t].todo \in {PCTL, CTL, TL, L, <<>>}
    /\ call[t].todo = CTL => Shows(call[t].name) \/ ~Exists(call[t].path)
    /\ call[t].todo \in {TL, L, <<>>} /\ Succeeded(t) => Shows(call[t].name)
    /\ call[t].todo = TL /\ Succeeded(t) => Exists(call[t].to)
    /\ call[t].todo \in {L, <<>>} /\ Succeeded(t) => call[t].toname # "untouched"

\* open, creat and fopen: the file is there once it was opened.
NamedOpen(t) ==
    /\ call[t].todo \in {CPL, PL, L, <<>>}
    /\ call[t].todo = PL /\ Succeeded(t) => Exists(call[t].path)
    /\ call[t].todo \in {L, <<>>} /\ Succeeded(t) => Shows(call[t].name)

\* close and fclose: a descriptor without a name is not open.
NamedClose(t) ==
    /\ call[t].todo \in {FCL, CL, L, <<>>}
    /\ call[t].todo = CL => Shows(call[t].name) \/ table[call[t].fildes] = NoFile
    /\ call[t].todo \in {L, <<>>} /\ Succeeded(t) => Shows(call[t].name)

\* read, write, fread and fwrite: the descriptor is still open after the call.
NamedData(t) ==
    /\ call[t].todo \in {CFHDT, FHDT, HDT, DT, T, <<>>}
    /\ call[t].todo = FHDT /\ Succeeded(t) => table[call[t].fildes] # NoFile
    /\ call[t].todo \in {HDT, DT, T, <<>>} /\ Succeeded(t) => Shows(call[t].name)

ModeOps == {"chmod", "chown", "remove"}
CloseOps == {"close", "fclose"}

Named(t) ==
    /\ call[t].std => call[t].fildes = 2
    /\ call[t].op \in ModeOps => NamedMode(t)
    /\ call[t].op = "rename" => NamedRename(t)
    /\ call[t].op \in OpenOps => NamedOpen(t)
    /\ call[t].op \in CloseOps => NamedClose(t)
    /\ call[t].op \in DataOps => NamedData(t)

NameInv == TypeInv /\ Spared /\ \A t \in Threads : Named(t)

\* A file that exists has a name, and an open descriptor too.
LEMMA Naming ==
    /\ \A p \in Paths : Exists(p) => Shows(RealPath(p))
    /\ \A i : Shows(LinkOf(i))
<1>1. \A p \in Paths : Exists(p) => Shows(RealPath(p))
    BY LoggerAssumption DEF Exists, RealPath, Shows
<1>2. ASSUME NEW i PROVE Shows(LinkOf(i))
    <2>1. LinkOf(i) \in Paths \cup {Tty, LogFile, "deleted"}
        BY DEF LinkOf
    <2> QED
        BY <2>1, LoggerAssumption DEF Shows, Tty, LogFile
<1> QED
    BY <1>1, <1>2

LEMMA LookupNamed ==
    ASSUME TypeInv, NEW t \in Threads, Named(t), getAbsPath(t) \/ FD2name(t)
    PROVE  Named(t)'
<1> DEFINE op == call[t].op
           todo == call[t].todo
<1>1. /\ GoesOn(t) /\ SameResult(t) /\ UNCHANGED <<table, names>> /\ todo # <<>>
      /\ \/ /\ Head(todo) = "path" /\ call'[t].toname = call[t].toname
            /\ call'[t].name = RealPath(call[t].path)
         \/ /\ Head(todo) = "to" /\ call'[t].name = call[t].name
            /\ call'[t].toname = RealPath(call[t].to)
         \/ /\ Head(todo) = "fdname" /\ call'[t].toname = call[t].toname
            /\ call'[t].name = IF table[call[t].fildes] = NoFile THEN "empty"
                               ELSE LinkOf(table[call[t].fildes])
    BY NameMoves
<1>2. /\ call'[t].op = op /\ call'[t].path = call[t].path /\ call'[t].to = call[t].to
      /\ call'[t].fildes = call[t].fildes /\ call'[t].std = call[t].std
      /\ call'[t].err = call[t].err /\ call'[t].todo = Tail(todo)
      /\ names' = names /\ table' = table
    BY <1>1 DEF GoesOn, SameResult
<1>3. /\ op \in Pathed => call[t].path \in Paths
      /\ op = "rename" => call[t].to \in Paths
    BY DEF TypeInv, ArgsOK
<1>4. ASSUME op \in ModeOps PROVE NamedMode(t)'
    <2>1. todo = PCL
        BY <1>1, <1>4, Heads DEF Named, NamedMode
    <2>2. call'[t].todo = CL /\ call'[t].name = RealPath(call[t].path) /\ call[t].path \in Paths
        BY <1>1, <1>2, <1>3, <1>4, <2>1, Heads, Tails DEF ModeOps, Pathed
    <2>3. CL \notin {L, <<>>}
        BY Heads, NotOver
    <2>4. Shows(call'[t].name) \/ names'[call'[t].path] = NoFile
        BY <1>2, <2>2, Naming DEF Exists
    <2> QED
        BY <2>2, <2>3, <2>4 DEF NamedMode, Exists
<1>5. ASSUME op = "rename" PROVE NamedRename(t)'
    <2>1. todo \in {PCTL, TL}
        BY <1>1, <1>5, Heads DEF Named, NamedRename
    <2>2. call[t].path \in Paths /\ call[t].to \in Paths
        BY <1>3, <1>5 DEF Pathed
    <2>3. CASE todo = PCTL
        <3>1. call'[t].todo = CTL /\ call'[t].name = RealPath(call[t].path)
            BY <1>1, <1>2, <2>3, Heads, Tails
        <3>2. CTL \notin {TL, L, <<>>}
            BY Heads, NotOver
        <3>3. Shows(call'[t].name) \/ names'[call'[t].path] = NoFile
            BY <1>2, <2>2, <3>1, Naming DEF Exists
        <3> QED
            BY <3>1, <3>2, <3>3 DEF NamedRename, Exists
    <2>4. CASE todo = TL
        <3>1. /\ call'[t].todo = L /\ call'[t].name = call[t].name
              /\ call'[t].toname = RealPath(call[t].to)
            BY <1>1, <1>2, <2>4, Heads, Tails
        <3>2. L \notin {CTL, TL}
            BY Heads
        <3>3. Succeeded(t) => Shows(call[t].name) /\ Exists(call[t].to)
            BY <1>5, <2>4 DEF Named, NamedRename
        <3>4. Succeeded(t) => Shows(call'[t].name) /\ call'[t].toname # "untouched"
            BY <2>2, <3>1, <3>3, Naming DEF Shows
        <3> QED
            BY <1>2, <3>1, <3>2, <3>4 DEF NamedRename, Succeeded
    <2> QED
        BY <2>1, <2>3, <2>4
<1>6. ASSUME op \in OpenOps PROVE NamedOpen(t)'
    <2>1. todo = PL
        BY <1>1, <1>6, Heads DEF Named, NamedOpen
    <2>2. call'[t].todo = L /\ call'[t].name = RealPath(call[t].path) /\ call[t].path \in Paths
        BY <1>1, <1>2, <1>3, <1>6, <2>1, Heads, Tails DEF Pathed
    <2>3. L # PL
        BY Heads
    <2>4. Succeeded(t) => Exists(call[t].path)
        BY <1>6, <2>1 DEF Named, NamedOpen
    <2>5. Succeeded(t) => Shows(call'[t].name)
        BY <2>2, <2>4, Naming
    <2> QED
        BY <1>2, <2>2, <2>3, <2>5 DEF NamedOpen, Succeeded
<1>7. ASSUME op \in CloseOps PROVE NamedClose(t)'
    <2>1. todo = FCL
        BY <1>1, <1>7, Heads DEF Named, NamedClose
    <2>2. /\ call'[t].todo = CL
          /\ table[call[t].fildes] # NoFile => call'[t].name = LinkOf(table[call[t].fildes])
        BY <1>1, <1>2, <2>1, Heads, Tails
    <2>3. CL \notin {L, <<>>}
        BY Heads, NotOver
    <2>4. Shows(call'[t].name) \/ table'[call'[t].fildes] = NoFile
        BY <1>2, <2>2, Naming
    <2> QED
        BY <2>2, <2>3, <2>4 DEF NamedClose
<1>8. ASSUME op \in DataOps PROVE NamedData(t)'
    <2>1. todo = FHDT
        BY <1>1, <1>8, Heads DEF Named, NamedData
    <2>2. /\ call'[t].todo = HDT
          /\ table[call[t].fildes] # NoFile => call'[t].name = LinkOf(table[call[t].fildes])
        BY <1>1, <1>2, <2>1, Heads, Tails
    <2>3. HDT # FHDT
        BY Heads
    <2>4. Succeeded(t) => table[call[t].fildes] # NoFile
        BY <1>8, <2>1 DEF Named, NamedData
    <2>5. Succeeded(t) => Shows(call'[t].name)
        BY <2>2, <2>4, Naming
    <2> QED
        BY <1>2, <2>2, <2>3, <2>5 DEF NamedData, Succeeded
<1> QED
    BY <1>2, <1>4, <1>5, <1>6, <1>7, <1>8 DEF Named

LEMMA LogNamed ==
    ASSUME TypeInv, NEW t \in Threads, Named(t), LogText(t) \/ LogData(t)
    PROVE  Named(t)'
<1> DEFINE op == call[t].op
           todo == call[t].todo
<1>1. /\ GoesOn(t) /\ SameNames(t) /\ SameResult(t) /\ todo # <<>>
      /\ Head(todo) \in {"line", "head", "data", "tail"}
    BY LogMoves
<1>2. /\ call'[t].op = op /\ call'[t].path = call[t].path /\ call'[t].to = call[t].to
      /\ call'[t].fildes = call[t].fildes /\ call'[t].std = call[t].std
      /\ call'[t].err = call[t].err /\ call'[t].todo = Tail(todo)
      /\ call'[t].name = call[t].name /\ call'[t].toname = call[t].toname
    BY <1>1 DEF GoesOn, SameNames, SameResult
<1>3. ASSUME op \in ModeOps PROVE NamedMode(t)'
    <2>1. todo = L /\ call'[t].todo = <<>>
        BY <1>1, <1>2, <1>3, Heads, Tails DEF Named, NamedMode
    <2>2. Succeeded(t) => Shows(call[t].name)
        BY <1>3, <2>1 DEF Named, NamedMode
    <2> QED
        BY <1>2, <2>1, <2>2, NotOver DEF NamedMode, Succeeded
<1>4. ASSUME op = "rename" PROVE NamedRename(t)'
    <2>1. todo = L /\ call'[t].todo = <<>>
        BY <1>1, <1>2, <1>4, Heads, Tails DEF Named, NamedRename
    <2>2. Succeeded(t) => Shows(call[t].name) /\ call[t].toname # "untouched"
        BY <1>4, <2>1 DEF Named, NamedRename
    <2> QED
        BY <1>2, <2>1, <2>2, NotOver DEF NamedRename, Succeeded
<1>5. ASSUME op \in OpenOps PROVE NamedOpen(t)'
    <2>1. todo = L /\ call'[t].todo = <<>>
        BY <1>1, <1>2, <1>5, Heads, Tails DEF Named, NamedOpen
    <2>2. Succeeded(t) => Shows(call[t].name)
        BY <1>5, <2>1 DEF Named, NamedOpen
    <2> QED
        BY <1>2, <2>1, <2>2, NotOver DEF NamedOpen, Succeeded
<1>6. ASSUME op \in CloseOps PROVE NamedClose(t)'
    <2>1. todo = L /\ call'[t].todo = <<>>
        BY <1>1, <1>2, <1>6, Heads, Tails DEF Named, NamedClose
    <2>2. Succeeded(t) => Shows(call[t].name)
        BY <1>6, <2>1 DEF Named, NamedClose
    <2> QED
        BY <1>2, <2>1, <2>2, NotOver DEF NamedClose, Succeeded
<1>7. ASSUME op \in DataOps PROVE NamedData(t)'
    <2>1. todo \in {HDT, DT, T}
        BY <1>1, <1>7, Heads DEF Named, NamedData
    <2>2. call'[t].todo \in {DT, T, <<>>}
        BY <1>2, <2>1, Tails
    <2>3. FHDT \notin {DT, T, <<>>}
        BY Heads, NotOver
    <2>4. Succeeded(t) => Shows(call[t].name)
        BY <1>7, <2>1 DEF Named, NamedData
    <2> QED
        BY <1>2, <2>2, <2>3, <2>4 DEF NamedData, Succeeded
<1> QED
    BY <1>2, <1>3, <1>4, <1>5, <1>6, <1>7 DEF Named

LEMMA CallNamed ==
    ASSUME TypeInv, Spared, NEW t \in Threads, Named(t), RealCall(t)
    PROVE  Named(t)'
<1> DEFINE op == call[t].op
           todo == call[t].todo
<1>0. /\ At(t, "call") /\ todo # <<>> /\ Head(todo) = "call" /\ command = "running"
      /\ names \in [Paths -> OnDisk] /\ 0 \in Int
      /\ {"EACCES", "ENOENT", "EMFILE", "EBADF"} \subseteq Errnos \ {"none"}
    BY DEF RealCall, At, TypeInv, TypeOK, Errnos
<1>1. ASSUME NEW r \in Int, Returns(t, r) PROVE GoesOn(t) /\ SameNames(t)
    BY <1>1, ReturnMoves
<1>2. ASSUME NEW e \in Errnos \ {"none"}, Fails(t, e)
      PROVE  GoesOn(t) /\ SameNames(t) /\ call'[t].err # "none"
    BY <1>2, FailMoves
<1>3. Fds \subseteq Int /\ 0..call[t].nbyte \subseteq Int
    BY DEF Fds
<1>4. GoesOn(t) /\ SameNames(t)
    <2>1. ASSUME NEW e \in {"EACCES", "ENOENT", "EMFILE", "EBADF"}, Fails(t, e)
          PROVE  GoesOn(t) /\ SameNames(t)
        BY <1>0, <1>2, <2>1
    <2> QED
        BY <1>0, <1>1, <1>3, <2>1
           DEF RealCall, ChangeMode, Remove, Rename, Open, OpenTemporary, Release, Transfer
<1>5. /\ call'[t].op = op /\ call'[t].path = call[t].path /\ call'[t].to = call[t].to
      /\ call'[t].fildes = call[t].fildes /\ call'[t].std = call[t].std
      /\ call'[t].todo = Tail(todo)
      /\ call'[t].name = call[t].name /\ call'[t].toname = call[t].toname
    BY <1>4 DEF GoesOn, SameNames
<1>6. ASSUME NEW e \in {"EACCES", "ENOENT", "EMFILE", "EBADF"}, Fails(t, e)
      PROVE  ~Succeeded(t)'
    BY <1>0, <1>2, <1>6 DEF Succeeded
<1>7. /\ op \in Pathed => call[t].path \in Paths
      /\ op = "rename" => call[t].to \in Paths
    BY DEF TypeInv, ArgsOK
<1>8. ASSUME op \in ModeOps PROVE NamedMode(t)'
    <2>1. todo = CL /\ call'[t].todo = L
        BY <1>0, <1>5, <1>8, Heads, Tails DEF Named, NamedMode
    <2>2. Succeeded(t)' => Exists(call[t].path)
        <3>1. ChangeMode(t) \/ Remove(t)
            BY <1>8 DEF RealCall, ModeOps, OpenOps, TmpOps, DataOps, Protected
        <3> QED
            BY <1>6, <3>1 DEF ChangeMode, Remove
    <2>3. Shows(call[t].name) \/ ~Exists(call[t].path)
        BY <1>8, <2>1 DEF Named, NamedMode
    <2>4. L # CL
        BY Heads
    <2> QED
        BY <1>5, <2>1, <2>2, <2>3, <2>4 DEF NamedMode
<1>9. ASSUME op = "rename" PROVE NamedRename(t)'
    <2>1. todo = CTL /\ call'[t].todo = TL
        BY <1>0, <1>5, <1>9, Heads, Tails DEF Named, NamedRename
    <2>2. Succeeded(t)' => Exists(call[t].path) /\ names'[call[t].to] # NoFile
        <3>1. Rename(t) /\ call[t].to \in Paths
            BY <1>7, <1>9 DEF RealCall, OpenOps, TmpOps, DataOps, Protected
        <3> QED
            BY <1>6, <3>1 DEF Rename, Exists
    <2>3. Shows(call[t].name) \/ ~Exists(call[t].path)
        BY <1>9, <2>1 DEF Named, NamedRename
    <2>4. TL \notin {CTL, L, <<>>}
        BY Heads, NotOver
    <2>5. Exists(call[t].to)' <=> names'[call'[t].to] # NoFile
        BY DEF Exists
    <2> QED
        BY <1>5, <2>1, <2>2, <2>3, <2>4, <2>5 DEF NamedRename
<1>10. ASSUME op \in OpenOps PROVE NamedOpen(t)'
    <2>1. todo = CPL /\ call'[t].todo = PL
        BY <1>0, <1>5, <1>10, Heads, Tails DEF Named, NamedOpen
    <2>2. Succeeded(t)' => names'[call[t].path] # NoFile
        <3>1. Open(t) /\ call[t].path \in Paths
            BY <1>7, <1>10 DEF RealCall, OpenOps, TmpOps, DataOps, Protected, Pathed
        <3>2. \A i \in NewFiles : i # NoFile
            BY LoggerAssumption DEF NewFiles
        <3> QED
            BY <1>0, <1>6, <3>1, <3>2 DEF Open, Exists
    <2>3. PL \notin {L, <<>>}
        BY Heads, NotOver
    <2>4. Exists(call[t].path)' <=> names'[call'[t].path] # NoFile
        BY DEF Exists
    <2> QED
        BY <1>5, <2>1, <2>2, <2>3, <2>4 DEF NamedOpen
<1>11. ASSUME op \in CloseOps PROVE NamedClose(t)'
    <2>1. todo = CL /\ call'[t].todo = L
        BY <1>0, <1>5, <1>11, Heads, Tails DEF Named, NamedClose
    <2>2. Succeeded(t)' => table[call[t].fildes] # NoFile
        <3>1. Release(t) \/ Protected(t)
            BY <1>11 DEF RealCall, CloseOps, OpenOps, TmpOps, DataOps
        <3>2. CASE Release(t)
            BY <1>6, <3>2 DEF Release
        <3>3. CASE Protected(t)
            <4>1. call[t].fildes = 2
                BY <3>3 DEF Protected, Named
            <4> QED
                BY <1>0, <4>1 DEF Spared, Tty, NoFile
        <3> QED
            BY <3>1, <3>2, <3>3
    <2>3. Shows(call[t].name) \/ table[call[t].fildes] = NoFile
        BY <1>11, <2>1 DEF Named, NamedClose
    <2>4. L # CL
        BY Heads
    <2> QED
        BY <1>5, <2>1, <2>2, <2>3, <2>4 DEF NamedClose
<1>12. ASSUME op \in DataOps PROVE NamedData(t)'
    <2>1. todo = CFHDT /\ call'[t].todo = FHDT
        BY <1>0, <1>5, <1>12, Heads, Tails DEF Named, NamedData
    <2>2. Succeeded(t)' => table'[call[t].fildes] # NoFile
        <3>1. Transfer(t)
            BY <1>12 DEF RealCall, OpenOps, TmpOps, DataOps, Protected
        <3> QED
            BY <1>6, <3>1 DEF Transfer
    <2>3. FHDT \notin {HDT, DT, T, <<>>}
        BY Heads, NotOver
    <2> QED
        BY <1>5, <2>1, <2>2, <2>3 DEF NamedData
<1> QED
    BY <1>5, <1>8, <1>9, <1>10, <1>11, <1>12 DEF Named

\* A call that is entered has all its promises ahead.
LEMMA FreshNamed ==
    ASSUME NEW t \in Threads, NEW c, Fresh(c), call'[t] = c
    PROVE  Named(t)'
<1>1. /\ PCL \notin {CL, L, <<>>} /\ PCTL \notin {CTL, TL, L, <<>>}
      /\ CPL \notin {PL, L, <<>>} /\ FCL \notin {CL, L, <<>>}
      /\ CFHDT \notin {FHDT, HDT, DT, T, <<>>}
    BY Heads, NotOver
<1>2. call'[t].todo = Plan(call'[t].op) /\ (call'[t].std => call'[t].fildes = 2)
    BY DEF Fresh
<1>3. call'[t].op \in ModeOps => NamedMode(t)'
    BY <1>1, <1>2, Plans DEF NamedMode, ModeOps
<1>4. call'[t].op = "rename" => NamedRename(t)'
    BY <1>1, <1>2, Plans DEF NamedRename
<1>5. call'[t].op \in OpenOps => NamedOpen(t)'
    BY <1>1, <1>2, Plans DEF NamedOpen
<1>6. call'[t].op \in CloseOps => NamedClose(t)'
    BY <1>1, <1>2, Plans DEF NamedClose, CloseOps
<1>7. call'[t].op \in DataOps => NamedData(t)'
    BY <1>1, <1>2, Plans DEF NamedData
<1> QED
    BY <1>2, <1>3, <1>4, <1>5, <1>6, <1>7 DEF Named

\* In a command with one thread the line of a call that succeeded names its file,
\* whatever calls came before: chmod, chown, remove, rename, close and fclose look
\* the name up while the file or the descriptor is still there, the others after the
\* call that made it.  With a second thread the file may go between the two.
THEOREM SuccessNamedHolds ==
    ASSUME \A t, u \in Threads : t = u, 2 \notin OwnStreams
    PROVE  Spec => []SuccessNamed
<1>0. ASSUME NEW t \in Threads, call[t] = Idle PROVE Named(t)
    BY <1>0 DEF Idle, Named, ModeOps, OpenOps, CloseOps, DataOps
<1>0a. ASSUME NEW t \in Threads, call'[t] = Idle PROVE Named(t)'
    BY <1>0a DEF Idle, Named, ModeOps, OpenOps, CloseOps, DataOps
<1>1. Init => NameInv
    <2> SUFFICES ASSUME Init PROVE \A t \in Threads : Named(t)
        BY InitType, InitSpared DEF NameInv
    <2> QED
        BY <1>0 DEF Init
<1>2. ASSUME NameInv, [Next]_vars PROVE NameInv'
    <2>0. /\ TypeInv /\ Spared /\ TypeInv' /\ Spared' /\ call \in [Threads -> Calls]
          /\ \A t \in Threads : Named(t)
        BY <1>2, TypeStep, SparedStep DEF NameInv, TypeInv, TypeOK
    <2> SUFFICES ASSUME NEW t \in Threads PROVE Named(t)'
        BY <2>0 DEF NameInv
    <2> USE DEF shell, inCommand
    <2>1. CASE UNCHANGED <<call, table, names>>
        BY <2>0, <2>1 DEF Named, NamedMode, NamedRename, NamedOpen, NamedClose, NamedData,
                          Succeeded, Exists
    <2>2. CASE Ends
        BY <1>0a, <2>2 DEF Ends
    <2>3. CASE Invoke(t)
        <3>1. PICK c : Fresh(c) /\ Enter(t, c)
            BY <2>3, InvokeFresh
        <3>2. CASE call' = [call EXCEPT ![t] = c]
            BY <2>0, <3>1, <3>2, FreshNamed
        <3> QED
            BY <2>2, <3>1, <3>2 DEF Enter, NotFound
    <2>4. CASE getAbsPath(t) \/ FD2name(t)
        BY <2>0, <2>4, LookupNamed
    <2>5. CASE RealCall(t)
        BY <2>0, <2>5, CallNamed
    <2>6. CASE LogText(t) \/ LogData(t)
        BY <2>0, <2>6, LogNamed
    <2>7. CASE Return(t)
        BY <1>0a, <2>0, <2>7 DEF Return
    <2>8. CASE Launcher
        <3>1. call' = call
            BY <2>8 DEF Launcher, opt_p, opt_o, give_up, fork, exec, poll
        <3>2. CASE command # "running"
            BY <1>0a, <2>0, <3>1, <3>2 DEF Spared
        <3>3. CASE command = "running"
            <4>1. launcher # "options"
                BY <2>0, <3>3 DEF Spared
            <4>2. UNCHANGED <<call, table, names>>
                BY <2>8, <4>1 DEF Launcher, opt_p, opt_o, give_up, fork, exec, poll
            <4> QED
                BY <2>1, <4>2
        <3> QED
            BY <3>2, <3>3
    <2>9. CASE \E u \in Threads : Invoke(u) \/ Wrapper(u)
        <3>1. Invoke(t) \/ Wrapper(t)
            BY <2>9
        <3> QED
            BY <3>1, <2>3, <2>4, <2>5, <2>6, <2>7 DEF Wrapper
    <2> QED
        BY <1>2, <2>1, <2>2, <2>8, <2>9 DEF Next, Exit, Over, vars
<1>3. ASSUME NameInv PROVE SuccessNamed
    <2> SUFFICES ASSUME NEW t \in Threads, call[t].op \in Ops \ TmpOps,
                        call[t].todo = <<>>, Succeeded(t)
                 PROVE  /\ Shows(call[t].name)
                        /\ call[t].op = "rename" => call[t].toname # "untouched"
        BY DEF SuccessNamed, Shows, Succeeded
    <2>1. call[t].op \in ModeOps \cup {"rename"} \cup OpenOps \cup CloseOps \cup DataOps
        BY LoggerAssumption DEF AllOps, ModeOps, OpenOps, CloseOps, DataOps, TmpOps
    <2>2. Named(t)
        BY <1>3 DEF NameInv
    <2>3. CASE call[t].op = "rename"
        BY <2>2, <2>3 DEF Named, NamedRename
    <2>4. CASE call[t].op # "rename"
        BY <2>1, <2>2, <2>4 DEF Named, NamedMode, NamedOpen, NamedClose, NamedData
    <2> QED
        BY <2>3, <2>4
<1> QED
    BY <1>1, <1>2, <1>3, PTL DEF Spec
=============================================================================
