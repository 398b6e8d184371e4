------------------------------- MODULE Logger -------------------------------
(***************************************************************************)
(* The library-call logger of hw2: the launcher (hw2.c), which forks the   *)
(* command with LD_PRELOAD and LOGGER in its environment, and the wrappers *)
(* of logger.so (logger.c) in the command.  A wrapper makes its steps in   *)
(* the order of the code, one action each, because the command's threads   *)
(* share the descriptor table and the files: Plan gives the steps of each  *)
(* wrapper.  A log line is only followed to where it goes, not its text.   *)
(*                                                                         *)
(* External to src/: the kernel's files and descriptors, libc, the command.*)
(***************************************************************************)
EXTENDS Integers, Sequences

CONSTANTS
    Threads,    \* threads of the command
    Paths,      \* names of files the command uses
    Inodes,     \* files of the command, named or not
    MaxFd,      \* bound: the largest descriptor (RLIMIT_NOFILE)
    MaxBytes,   \* bound: the largest nbyte of a read or write
    LogLimit,   \* bytes of data a line shows: 32 in the code
    SizeBits,   \* width of a size_t: 64 in the code
    Ops,        \* library calls the command makes
    OArgs,      \* what the user gives after -o: "writable", "unwritable"
    OwnStreams, \* descriptors under a FILE that the command opened itself
    Libc        \* whether dlopen finds libc.so.6: a set of booleans

AllOps == {"chmod", "chown", "remove", "rename", "creat", "creat64", "open",
           "open64", "fopen", "fopen64", "tmpfile", "tmpfile64", "close",
           "fclose", "read", "write", "fread", "fwrite"}

Fds == 0..MaxFd
NoFile == "nofile"      \* no inode: a free descriptor, an unused name
Tty == "tty"            \* what 0, 1 and 2 are when the command starts
LogFile == "logfile"    \* the file of -o

ASSUME LoggerAssumption ==
    /\ MaxFd \in Nat /\ MaxFd > 2
    /\ MaxBytes \in Nat /\ LogLimit \in Nat \ {0}
    /\ SizeBits \in Nat /\ MaxBytes < 2^SizeBits - 1 /\ LogLimit < 2^SizeBits
    /\ Ops \subseteq AllOps
    /\ OArgs \subseteq {"writable", "unwritable"}
    /\ OwnStreams \subseteq Fds
    /\ Libc \subseteq BOOLEAN
    /\ Inodes \cap {NoFile, Tty, LogFile} = {}
    /\ Paths \cap {"untouched", "empty", "deleted", Tty, LogFile} = {}

VARIABLES
    launcher,   \* "options", "polling", "done" or "failed"
    o_fd,       \* fd of main(), -1 without -o
    LOGGER,     \* the environment variable, as the number atoi makes of it
    command,    \* "none", "forked", "running", "zombie" or "reaped"
    preloaded,  \* whether logger.so is loaded into the command
    table,      \* descriptor -> file
    names,      \* path -> file
    fd,         \* static int fd of logger.c
    call,       \* call[t]: the wrapper thread t is in, see Idle
    errno,      \* errno of each thread
    reached     \* history: the files log text was written to

shell == <<launcher, o_fd, LOGGER>>
vars == <<shell, command, preloaded, table, names, fd, call, errno, reached>>

\* A thread outside the wrappers.
Idle == [op |-> "none", path |-> "none", to |-> "none", fildes |-> -1,
         std |-> FALSE, nbyte |-> 0, todo |-> <<>>, name |-> "empty",
         toname |-> "empty", res |-> 0, err |-> "none"]

Errnos == {"none", "EACCES", "EBADF", "EMFILE", "ENOENT"}
Steps == {"path", "to", "fdname", "call", "line", "head", "data", "tail"}
Labels == Paths \cup {"none", "untouched", "empty", "deleted", Tty, LogFile}
OnDisk == Inodes \cup {NoFile}
Everything == Inodes \cup {NoFile, Tty, LogFile}

Calls == [op : AllOps \cup {"none"}, path : Paths \cup {"none"},
          to : Paths \cup {"none"}, fildes : -1..MaxFd, std : BOOLEAN,
          nbyte : 0..MaxBytes, todo : Seq(Steps), name : Labels,
          toname : Labels, res : Int, err : Errnos]

TypeOK ==
    /\ launcher \in {"options", "polling", "done", "failed"}
    /\ o_fd \in -1..MaxFd
    /\ LOGGER \in -1..MaxFd
    /\ command \in {"none", "forked", "running", "zombie", "reaped"}
    /\ preloaded \in BOOLEAN
    /\ table \in [Fds -> Everything]
    /\ names \in [Paths -> OnDisk]
    /\ fd \in -1..MaxFd
    /\ call \in [Threads -> Calls]
    /\ errno \in [Threads -> Errnos]
    /\ reached \subseteq Everything

Init ==
    /\ launcher = "options"
    /\ o_fd = -1
    /\ LOGGER = 2
    /\ command = "none"
    /\ preloaded \in BOOLEAN
    /\ table = [f \in Fds |-> IF f <= 2 THEN Tty ELSE NoFile]
    /\ names = [p \in Paths |-> NoFile]
    /\ fd = -1
    /\ call = [t \in Threads |-> Idle]
    /\ errno = [t \in Threads |-> "none"]
    /\ reached = {}

\* The descriptor the kernel hands out, if there is one.
Free(f) == table[f] = NoFile /\ \A g \in Fds : g < f => table[g] # NoFile
NoneFree == \A f \in Fds : table[f] # NoFile

-----------------------------------------------------------------------------
(* The launcher. *)

inCommand == <<table, names, fd, call, errno, reached>>

\* -p: another library, which ld.so may fail to load and then goes on without.
opt_p ==
    /\ launcher = "options"
    /\ preloaded' \in BOOLEAN
    /\ UNCHANGED <<shell, command, inCommand>>

\* Faulty variant: setenv does not overwrite the "2" that is there.
opt_o_NoOverwrite(arg) ==
    /\ launcher = "options" /\ arg = "writable"
    /\ \E f \in Fds :
          /\ Free(f)
          /\ table' = [table EXCEPT ![f] = LogFile]
          /\ o_fd' = f
    /\ UNCHANGED <<launcher, LOGGER, command, preloaded, names, fd, call, errno, reached>>

\* -o: the descriptor goes into LOGGER whether or not open succeeded.
opt_o(arg) ==
    /\ launcher = "options"
    /\ \/ /\ arg = "writable"
          /\ \E f \in Fds :
                /\ Free(f)
                /\ table' = [table EXCEPT ![f] = LogFile]
                /\ o_fd' = f
                /\ LOGGER' = f
       \/ /\ arg = "unwritable" \/ NoneFree
          /\ o_fd' = -1
          /\ LOGGER' = -1
          /\ UNCHANGED table
    /\ UNCHANGED <<launcher, command, preloaded, names, fd, call, errno, reached>>

\* No command, an unknown option, or a fork that fails.
give_up ==
    /\ launcher = "options"
    /\ launcher' = "failed"
    /\ UNCHANGED <<o_fd, LOGGER, command, preloaded, inCommand>>

fork ==
    /\ launcher = "options"
    /\ launcher' = "polling"
    /\ command' = "forked"
    /\ UNCHANGED <<o_fd, LOGGER, preloaded, inCommand>>

\* execvp: the command runs with the descriptors and the environment, or the
\* child says WRONG and returns from main.
exec ==
    /\ command = "forked"
    /\ command' \in {"running", "zombie"}
    /\ UNCHANGED <<shell, preloaded, inCommand>>

\* Faulty variant: the loop goes on after waitpid has failed.
poll_NeverEnds ==
    /\ launcher = "polling" /\ command = "zombie"
    /\ command' = "reaped"
    /\ UNCHANGED <<shell, preloaded, inCommand>>

\* One turn of the loop around waitpid(WNOHANG): 0 while the command runs,
\* its pid once, and then -1, which ends the loop and the launcher.
poll ==
    /\ launcher = "polling"
    /\ \/ command \in {"forked", "running"} /\ UNCHANGED <<launcher, command>>
       \/ command = "zombie" /\ command' = "reaped" /\ UNCHANGED launcher
       \/ command = "reaped" /\ launcher' = "done" /\ UNCHANGED command
    /\ UNCHANGED <<o_fd, LOGGER, preloaded, inCommand>>

-----------------------------------------------------------------------------
(* The wrappers: the steps of each, after find_fptr.                        *)
(*   "path"    getAbsPath of the (first) path                              *)
(*   "to"      getAbsPath of the second path of rename                     *)
(*   "fdname"  FD2name or FILE2name                                        *)
(*   "call"    the function of libc                                        *)
(*   "line"    one dprintf of the whole line; "head", "data" and "tail" are *)
(*             a line written piece by piece                               *)

chmod == <<"path", "call", "line">>
chown == <<"path", "call", "line">>

\* Faulty variant: the path is resolved when the file is gone.
remove_NamesLate == <<"call", "path", "line">>

remove == <<"path", "call", "line">>
rename == <<"path", "call", "to", "line">>
creat == <<"call", "path", "line">>
creat64 == <<"call", "path", "line">>
open == <<"call", "path", "line">>
open64 == <<"call", "path", "line">>
fopen == <<"call", "path", "line">>
fopen64 == <<"call", "path", "line">>
tmpfile == <<"call", "line">>
tmpfile64 == <<"call", "line">>

\* Faulty variant: the descriptor is looked up after it was closed.
close_NamesLate == <<"call", "fdname", "line">>

close == <<"fdname", "call", "line">>
fclose == <<"fdname", "call", "line">>
read == <<"call", "fdname", "head", "data", "tail">>
write == <<"call", "fdname", "head", "data", "tail">>
fread == <<"call", "fdname", "head", "data", "tail">>
fwrite == <<"call", "fdname", "head", "data", "tail">>

Plan(op) ==
    CASE op = "chmod" -> chmod     [] op = "chown" -> chown
      [] op = "remove" -> remove   [] op = "rename" -> rename
      [] op = "creat" -> creat     [] op = "creat64" -> creat64
      [] op = "open" -> open       [] op = "open64" -> open64
      [] op = "fopen" -> fopen     [] op = "fopen64" -> fopen64
      [] op = "tmpfile" -> tmpfile [] op = "tmpfile64" -> tmpfile64
      [] op = "close" -> close     [] op = "fclose" -> fclose
      [] op = "read" -> read       [] op = "write" -> write
      [] op = "fread" -> fread     [] op = "fwrite" -> fwrite

PathOps == Ops \cap {"chmod", "chown", "remove", "creat", "creat64", "open",
                     "open64", "fopen", "fopen64"}
OpenOps == {"creat", "creat64", "open", "open64", "fopen", "fopen64"}
TmpOps == {"tmpfile", "tmpfile64"}
DataOps == {"read", "write", "fread", "fwrite"}

\* The end of the command: its memory and its descriptors are gone.
Ends ==
    /\ command' = "zombie"
    /\ table' = [f \in Fds |-> NoFile]
    /\ fd' = -1
    /\ call' = [t \in Threads |-> Idle]
    /\ errno' = [t \in Threads |-> "none"]
    /\ UNCHANGED <<shell, preloaded, names, reached>>

\* CHECKER, and find_fptr without libc: exit(EXIT_FAILURE).
NotFound == FALSE \in Libc /\ Ends

\* Entering a wrapper: find_fptr and CHECKER, which end the command when libc
\* or the function is not found.  The pointers found are kept by the code; that
\* a function found once may be missing later is more than it can do.
Enter(t, c) ==
    /\ command = "running" /\ preloaded
    /\ call[t] = Idle
    /\ \/ /\ TRUE \in Libc
          /\ call' = [call EXCEPT ![t] = c]
          /\ UNCHANGED <<shell, command, preloaded, table, names, fd, errno, reached>>
       \/ NotFound

\* The record of a call, with all steps of its wrapper ahead.
Start(op) == [Idle EXCEPT !.op = op, !.todo = Plan(op)]

Invoke(t) ==
    \/ \E op \in PathOps, p \in Paths : Enter(t, [Start(op) EXCEPT !.path = p])
    \/ /\ "rename" \in Ops
       /\ \E p, q \in Paths :
             Enter(t, [Start("rename") EXCEPT !.path = p, !.to = q])
    \/ \E op \in Ops \cap TmpOps : Enter(t, Start(op))
    \/ "close" \in Ops /\ \E f \in Fds : Enter(t, [Start("close") EXCEPT !.fildes = f])
    \/ /\ "fclose" \in Ops
       /\ \/ Enter(t, [Start("fclose") EXCEPT !.fildes = 2, !.std = TRUE])
          \/ \E f \in OwnStreams : Enter(t, [Start("fclose") EXCEPT !.fildes = f])
    \/ \E op \in Ops \cap DataOps, f \in Fds, n \in 0..MaxBytes :
          Enter(t, [Start(op) EXCEPT !.fildes = f, !.nbyte = n])

\* Thread t is about to make step s of its wrapper.
At(t, s) ==
    /\ command = "running"
    /\ call[t].todo # <<>>
    /\ Head(call[t].todo) = s

\* On to the next step, with the results so far in c.
Continue(t, c) == call' = [call EXCEPT ![t] = [c EXCEPT !.todo = Tail(@)]]

\* Faulty variant: a realpath that fails leaves the buffer as it was.
RealPath_Unchecked(p) == IF names[p] = NoFile THEN "garbage" ELSE p

\* getAbsPath: realpath fails, and sets errno, when there is no such file.
RealPath(p) == IF names[p] = NoFile THEN "untouched" ELSE p

SetErrno(t, failed) == errno' = IF failed THEN [errno EXCEPT ![t] = "ENOENT"] ELSE errno

getAbsPath(t) ==
    /\ \/ /\ At(t, "path")
          /\ Continue(t, [call[t] EXCEPT !.name = RealPath(call[t].path)])
          /\ SetErrno(t, names[call[t].path] = NoFile)
       \/ /\ At(t, "to")
          /\ Continue(t, [call[t] EXCEPT !.toname = RealPath(call[t].to)])
          /\ SetErrno(t, names[call[t].to] = NoFile)
    /\ UNCHANGED <<shell, command, preloaded, table, names, fd, reached>>

\* What /proc/<pid>/fd says of a file that is open.
LinkOf(i) ==
    IF i \in {Tty, LogFile} THEN i
    ELSE IF \E p \in Paths : names[p] = i THEN CHOOSE p \in Paths : names[p] = i
    ELSE "deleted"

\* FD2name: of a closed descriptor readlink fails, and sets errno.
FD2name(t) ==
    LET file == table[call[t].fildes] IN
    /\ At(t, "fdname")
    /\ Continue(t, [call[t] EXCEPT !.name = IF file = NoFile THEN "empty"
                                            ELSE LinkOf(file)])
    /\ SetErrno(t, file = NoFile)
    /\ UNCHANGED <<shell, command, preloaded, table, names, fd, reached>>

-----------------------------------------------------------------------------
(* The functions of libc (external). *)

Returns(t, r) ==
    /\ Continue(t, [call[t] EXCEPT !.res = r])
    /\ UNCHANGED errno

\* Failure is -1 (or NULL), but 0 for fread and fwrite.
Fails(t, e) ==
    /\ LET r == IF call[t].op \in {"fread", "fwrite"} THEN 0 ELSE -1
       IN  Continue(t, [call[t] EXCEPT !.res = r, !.err = e])
    /\ errno' = [errno EXCEPT ![t] = e]

Exists(p) == names[p] # NoFile
NewFiles == {i \in Inodes : /\ \A f \in Fds : table[f] # i
                            /\ \A p \in Paths : names[p] # i}

\* chmod and chown.
ChangeMode(t) ==
    /\ \/ Exists(call[t].path) /\ (Returns(t, 0) \/ Fails(t, "EACCES"))
       \/ ~Exists(call[t].path) /\ Fails(t, "ENOENT")
    /\ UNCHANGED <<table, names>>

Remove(t) ==
    LET p == call[t].path IN
    /\ \/ Exists(p) /\ Returns(t, 0) /\ names' = [names EXCEPT ![p] = NoFile]
       \/ Exists(p) /\ Fails(t, "EACCES") /\ UNCHANGED names
       \/ ~Exists(p) /\ Fails(t, "ENOENT") /\ UNCHANGED names
    /\ UNCHANGED table

Rename(t) ==
    LET p == call[t].path
        q == call[t].to IN
    /\ \/ /\ Exists(p) /\ Returns(t, 0)
          /\ names' = [x \in Paths |-> IF x = q THEN names[p]
                                       ELSE IF x = p THEN NoFile ELSE names[x]]
       \/ Exists(p) /\ Fails(t, "EACCES") /\ UNCHANGED names
       \/ ~Exists(p) /\ Fails(t, "ENOENT") /\ UNCHANGED names
    /\ UNCHANGED table

\* open, creat and fopen; whether a missing file is created is the caller's.
Open(t) ==
    LET p == call[t].path IN
    \/ \E f \in Fds :
          /\ Free(f) /\ Returns(t, f)
          /\ \/ /\ Exists(p)
                /\ table' = [table EXCEPT ![f] = names[p]]
                /\ UNCHANGED names
             \/ /\ ~Exists(p)
                /\ \E i \in NewFiles :
                      /\ names' = [names EXCEPT ![p] = i]
                      /\ table' = [table EXCEPT ![f] = i]
    \/ /\ \/ Exists(p) /\ Fails(t, "EACCES")
          \/ ~Exists(p) /\ Fails(t, "ENOENT")
          \/ NoneFree /\ Fails(t, "EMFILE")
       /\ UNCHANGED <<table, names>>

\* tmpfile: a file without a name.
OpenTemporary(t) ==
    /\ \/ \E f \in Fds, i \in NewFiles :
             Free(f) /\ Returns(t, f) /\ table' = [table EXCEPT ![f] = i]
       \/ NoneFree /\ Fails(t, "EMFILE") /\ UNCHANGED table
    /\ UNCHANGED names

Release(t) ==
    LET f == call[t].fildes IN
    /\ \/ /\ table[f] # NoFile /\ Returns(t, 0)
          /\ table' = [table EXCEPT ![f] = NoFile]
       \/ table[f] = NoFile /\ Fails(t, "EBADF") /\ UNCHANGED table
    /\ UNCHANGED names

Transfer(t) ==
    /\ \/ table[call[t].fildes] # NoFile /\ \E r \in 0..call[t].nbyte : Returns(t, r)
       \/ table[call[t].fildes] = NoFile /\ Fails(t, "EBADF")
    /\ UNCHANGED <<table, names>>

-----------------------------------------------------------------------------
(* The call in the middle of a wrapper, and the log. *)

\* Faulty variant: descriptor 2 is closed like any other.
Protected_Nothing(t) == FALSE

\* close and fclose answer 0 for stderr and leave it open.
Protected(t) ==
    \/ call[t].op = "close" /\ call[t].fildes = 2
    \/ call[t].op = "fclose" /\ call[t].std

RealCall(t) ==
    /\ At(t, "call")
    /\ \/ call[t].op \in {"chmod", "chown"} /\ ChangeMode(t)
       \/ call[t].op = "remove" /\ Remove(t)
       \/ call[t].op = "rename" /\ Rename(t)
       \/ call[t].op \in OpenOps /\ Open(t)
       \/ call[t].op \in TmpOps /\ OpenTemporary(t)
       \/ call[t].op \in {"close", "fclose"} /\ ~Protected(t) /\ Release(t)
       \/ Protected(t) /\ Returns(t, 0) /\ UNCHANGED <<table, names>>
       \/ call[t].op \in DataOps /\ Transfer(t)
    /\ UNCHANGED <<shell, command, preloaded, fd, reached>>

\* getFD: the descriptor is read from the environment until it is not negative.
getFD == IF fd < 0 THEN LOGGER ELSE fd

\* Where text written to descriptor f goes: nowhere if it is not open.
Target(f) == IF f \in Fds THEN table[f] ELSE NoFile

\* dprintf(getFD(), ...), which sets errno when the descriptor is not open.
Dprintf(t) ==
    /\ fd' = getFD
    /\ reached' = reached \cup {Target(getFD)}
    /\ errno' = IF Target(getFD) = NoFile THEN [errno EXCEPT ![t] = "EBADF"] ELSE errno
    /\ UNCHANGED <<shell, command, preloaded, table, names>>

LogText(t) ==
    /\ At(t, "line") \/ At(t, "head") \/ At(t, "tail")
    /\ Continue(t, call[t])
    /\ Dprintf(t)

\* i < result compares a size_t with an ssize_t: a result of -1 is 2^64 - 1.
AsSize(r) == r % 2^SizeBits

\* The bytes of the buffer that the loop over the data prints.
LoggedBytes(nbyte, result) ==
    {i \in 0..LogLimit - 1 : i < nbyte /\ i < AsSize(result)}

\* The loop that prints the data, one dprintf per byte, as one step: between two
\* of its bytes another thread does nothing it cannot do before or after them.
LogData(t) ==
    /\ At(t, "data")
    /\ Continue(t, call[t])
    /\ \/ LoggedBytes(call[t].nbyte, call[t].res) # {} /\ Dprintf(t)
       \/ /\ LoggedBytes(call[t].nbyte, call[t].res) = {}
          /\ UNCHANGED <<shell, command, preloaded, table, names, fd, errno, reached>>

\* The caller looks at errno and goes on.
Return(t) ==
    /\ command = "running"
    /\ call[t].op # "none" /\ call[t].todo = <<>>
    /\ call' = [call EXCEPT ![t] = Idle]
    /\ errno' = [errno EXCEPT ![t] = "none"]
    /\ UNCHANGED <<shell, command, preloaded, table, names, fd, reached>>

\* The command ends, with threads in the middle of anything.
Exit == command = "running" /\ Ends

Wrapper(t) ==
    \/ getAbsPath(t) \/ FD2name(t) \/ RealCall(t)
    \/ LogText(t) \/ LogData(t) \/ Return(t)

Launcher == opt_p \/ (\E arg \in OArgs : opt_o(arg)) \/ give_up \/ fork \/ exec \/ poll

Over == launcher \in {"done", "failed"} /\ UNCHANGED vars

Next ==
    \/ Launcher
    \/ \E t \in Threads : Invoke(t) \/ Wrapper(t)
    \/ Exit
    \/ Over

Spec == Init /\ [][Next]_vars

\* The launcher's loop is busy: it is always ready to run, and the child gets
\* to its exec.
Fairness == WF_vars(exec) /\ WF_vars(poll)

FairSpec == Spec /\ Fairness

-----------------------------------------------------------------------------
(* Properties. *)

\* Where the log goes: to the file of the last -o, nowhere if that could not be
\* opened, and to stderr without -o.
Sink == IF o_fd >= 0 THEN LogFile ELSE IF LOGGER < 0 THEN NoFile ELSE Tty

\* All log text gets to stderr, and none of it into a file of the command,
\* whatever the command closes and opens.  Checked without -o.
LogArrives == reached \subseteq {Sink}

\* As long as the command has not closed the descriptor of -o, log text goes where the
\* launcher's options sent it: through setenv, exec and the descriptor that
\* logger.so keeps in fd.  After an -o that cannot be opened it is lost, as in
\* the code, but never gets into another file.
LogStays ==
    [][(o_fd >= 0 => table[o_fd] = LogFile) => reached' \ reached \subseteq {Sink}]_vars

\* No log text ends up in a file of the command.
NoSpill == reached \cap Inodes = {}

\* A wrapper around a call that failed leaves its errno to the caller.  This is
\* claimed of the calls that are named before they are made: the others look
\* a name up afterwards, and a lookup that fails overwrites errno.
ErrnoKept ==
    \A t \in Threads :
        (/\ call[t].op \in {"chmod", "chown", "remove", "close", "fclose"}
         /\ call[t].todo = <<>> /\ call[t].res = -1)
            => errno[t] = call[t].err

\* The line of a call that succeeded names the file it was about: names are
\* looked up while the file is still there.
SuccessNamed ==
    \A t \in Threads :
        (/\ call[t].op \in Ops \ TmpOps
         /\ call[t].todo = <<>> /\ call[t].err = "none")
            => /\ call[t].name \notin {"untouched", "empty"}
               /\ call[t].op = "rename" => call[t].toname # "untouched"

\* When the command has ended the launcher ends too.
LauncherEnds == (command = "zombie") ~> (launcher = "done")
=============================================================================
