-------------------------------- MODULE Lsof --------------------------------
(***************************************************************************)
(* The open file lister of hw1 (hw1.cpp): it walks through /proc with one  *)
(* system call after the other while the processes it looks at go on, open *)
(* and close descriptors, and exit.  One step of the lister is one system  *)
(* call and what the code does with its result.                            *)
(*                                                                         *)
(* struct info is a local of the loop in main that is never cleared: it is *)
(* one variable here, so that a field that is not set shows what an        *)
(* earlier entry has left.                                                 *)
(*                                                                         *)
(* External to src/: /proc, the user data base and the other processes.    *)
(***************************************************************************)
EXTENDS Integers, Sequences, FiniteSets, FiniteSetsExt

CONSTANTS
    Proc,        \* Proc[pid]: what does not change, see LsofAssumption
    Fds0,        \* Fds0[pid]: its descriptors when the lister starts
    FdNumbers,
    File,        \* File[f]: inode number, type and the words of the path
    Deleted0,    \* the files that are deleted when the lister starts
    Options,     \* the command lines
    Modes,       \* the modes of descriptors that processes open
    Bits,        \* width of int
    MaxOpen,     \* how many descriptors the lister may have besides /proc
    MaxChanges   \* bound: how often the other processes do something

Pids == DOMAIN Proc
Files == DOMAIN File
NoFile == "no_file"
Types == {"REG", "CHR", "DIR", "FIFO", "SOCK", "unknown"}
Word == STRING

\* A regular expression: whether it compiles and the words it finds.
Regex == [any : BOOLEAN, valid : BOOLEAN, words : SUBSET Word]

Closed == [file |-> NoFile, mode |-> "closed"]

\* A descriptor is open for reading, writing, both or neither.
Descriptor == {Closed} \cup [file : Files, mode : {"r", "w", "u", "none"}]

ASSUME LsofAssumption ==
    /\ Pids \subseteq Nat \ {0} /\ IsFiniteSet(Pids)
    /\ \A p \in Pids :
         /\ Proc[p].user # "" /\ Proc[p].readable \in BOOLEAN
         /\ Proc[p].comm \in Seq(Word) \ {<<>>}
         /\ {Proc[p].cwd, Proc[p].root} \subseteq Files
         /\ Proc[p].exe \in Files \cup {NoFile}
         /\ Proc[p].maps \in Seq(Files)
    /\ FdNumbers \subseteq Nat /\ Modes \subseteq {"r", "w", "u", "none"}
    /\ Fds0 \in [Pids -> [FdNumbers -> Descriptor]]
    /\ NoFile \notin Files
    /\ \A f \in Files :
         File[f].ino \in Nat /\ File[f].type \in Types /\ File[f].path \in Seq(Word) \ {<<>>}
    /\ Deleted0 \subseteq Files
    /\ Bits \in Nat \ {0} /\ MaxOpen \in Nat /\ MaxChanges \in Nat

VARIABLES
    (* the lister *)
    pc,       \* the system call it makes next
    opt,      \* its command line
    info,     \* struct info
    pids,     \* the entries of /proc not read yet
    here,     \* whether chdir to the process's directory has worked
    fdnames,  \* the entries of its fd directory not read yet
    open,     \* descriptors in use besides /proc
    out,      \* the lines printed
    (* the other processes *)
    alive, fds, deleted,
    changes,  \* how often they have done something
    touched   \* history: the processes whose lines have changed meanwhile

lister == <<pc, opt, info, pids, here, fdnames, open, out>>
world == <<alive, fds, deleted, changes, touched>>
vars == <<lister, world>>

Steps == {"getopt", "opendir", "readdir", "stat", "chdir", "fopen", "fscanf",
          "cwd", "cwd_link", "root", "root_link", "exe", "exe_link", "maps", "fd",
          "chdir_fd", "readdir_fd", "readlink", "stat_fd", "lstat_fd", "fclose"}

TypeOK ==
    /\ pc \in Steps \cup {"done", "failed"}
    /\ pids \subseteq Pids /\ here \in BOOLEAN /\ fdnames \subseteq FdNumbers
    /\ open \in 0..MaxOpen
    /\ info.cur \in Pids \cup {0} /\ info.type \in Types \cup {"none"}
    /\ alive \subseteq Pids /\ touched \subseteq Pids /\ deleted \subseteq Files
    /\ changes \in 0..MaxChanges

Init ==
    /\ pc = "getopt"
    /\ opt \in Options
    /\ info = [cur |-> 0, pid |-> 0, comm |-> <<>>, user |-> "none", fd |-> "none",
               num |-> -1, type |-> "none", node |-> 0, name |-> <<>>]
    /\ pids = {} /\ here = FALSE /\ fdnames = {} /\ open = 0 /\ out = {}
    /\ alive = Pids /\ fds = Fds0 /\ deleted = Deleted0
    /\ changes = 0 /\ touched = {}

-----------------------------------------------------------------------------
(* What the files and links of /proc show. *)

\* An inode number in an int.
AsInt(ino) == ((ino + 2 ^ (Bits - 1)) % 2 ^ Bits) - 2 ^ (Bits - 1)

LinkName(f) == IF f \in deleted THEN File[f].path \o <<"(deleted)">> ELSE File[f].path

\* fscanf reads a word; the code drops its first and its last character, which
\* are the parentheses only when the name has no space.
ScannedComm(comm) == IF Len(comm) = 1 THEN comm ELSE <<"cut_off">>

\* What print_pinfo prints of struct info.
Line(i) == [pid |-> i.pid, comm |-> i.comm, user |-> i.user, fd |-> i.fd,
            num |-> i.num, type |-> i.type,
            node |-> IF i.type = "unknown" THEN -1 ELSE i.node, name |-> i.name]

Finds(regex, words) == regex.any \/ \E k \in DOMAIN words : words[k] \in regex.words

\* print_pinfo: the filters in the order of the code.  An expression that does
\* not compile ends the program, once a line gets that far.
Filtered(i) == opt.type # "any" /\ opt.type # i.type
Aborts(i) ==
    /\ ~Filtered(i)
    /\ ~opt.comm.valid \/ (Finds(opt.comm, i.comm) /\ ~opt.file.valid)
Passes(i) ==
    ~Filtered(i) /\ ~Aborts(i) /\ Finds(opt.comm, i.comm) /\ Finds(opt.file, i.name)

print_pinfo(i, next) ==
    /\ info' = i
    /\ out' = IF Passes(i) THEN out \cup {Line(i)} ELSE out
    /\ pc' = IF Aborts(i) THEN "failed" ELSE next

-----------------------------------------------------------------------------
(* main *)

\* The command line: unknown options and leftover arguments, then the type.
getopt ==
    /\ pc = "getopt"
    /\ pc' = IF opt.usage \/ opt.type \notin Types \cup {"any"} THEN "failed" ELSE "opendir"
    /\ UNCHANGED <<opt, info, pids, here, fdnames, open, out, world>>

\* The entries come from the kernel in one go.
opendir ==
    /\ pc = "opendir"
    /\ pids' = alive
    /\ pc' = "readdir"
    /\ UNCHANGED <<opt, info, here, fdnames, open, out, world>>

\* Faulty variant: the entry is read again.
readdir_Again ==
    /\ pc = "readdir"
    /\ IF pids = {} THEN pc' = "done" /\ UNCHANGED info
                    ELSE pc' = "stat" /\ info' = [info EXCEPT !.cur = Min(pids)]
    /\ UNCHANGED <<opt, pids, here, fdnames, open, out, world>>

readdir ==
    /\ pc = "readdir"
    /\ \/ /\ pids = {}
          /\ pc' = "done"
          /\ UNCHANGED <<info, pids>>
       \/ /\ pids # {}
          /\ info' = [info EXCEPT !.cur = Min(pids)]
          /\ pids' = pids \ {Min(pids)}
          /\ pc' = "stat"
    /\ UNCHANGED <<opt, here, fdnames, open, out, world>>

-----------------------------------------------------------------------------
(* readInfo *)

cur == info.cur
Lives == cur \in alive
Room == open < MaxOpen

\* getUserName leaves the name alone when the user is not known.
getUserName(i) == IF Proc[cur].user = "none" THEN i ELSE [i EXCEPT !.user = Proc[cur].user]

stat_pid ==
    /\ pc = "stat"
    /\ IF Lives THEN info' = getUserName(info) /\ pc' = "chdir"
                ELSE UNCHANGED info /\ pc' = "readdir"
    /\ UNCHANGED <<opt, pids, here, fdnames, open, out, world>>

\* Faulty variant: the lister never gets into the directory.
chdir_Stays ==
    /\ pc = "chdir"
    /\ here' = FALSE
    /\ pc' = "fopen"
    /\ UNCHANGED <<opt, info, pids, fdnames, open, out, world>>

\* The result is not looked at: when the process is gone the lister stays in /proc.
chdir ==
    /\ pc = "chdir"
    /\ here' = Lives
    /\ pc' = "fopen"
    /\ UNCHANGED <<opt, info, pids, fdnames, open, out, world>>

\* In /proc, stat is the file of the whole system.
fopen_stat ==
    /\ pc = "fopen"
    /\ IF Room /\ (here => Lives)
       THEN open' = open + 1 /\ pc' = "fscanf"
       ELSE UNCHANGED open /\ pc' = "readdir"
    /\ UNCHANGED <<opt, info, pids, here, fdnames, out, world>>

fscanf ==
    /\ pc = "fscanf"
    /\ IF here /\ Lives
       THEN /\ info' = [info EXCEPT !.pid = cur, !.comm = ScannedComm(Proc[cur].comm)]
            /\ pc' = "cwd"
       ELSE UNCHANGED info /\ pc' = "failed"
    /\ UNCHANGED <<opt, pids, here, fdnames, open, out, world>>

\* Faulty variant: the stream is left open.
fclose_Never ==
    /\ pc = "fclose"
    /\ pc' = "readdir"
    /\ UNCHANGED <<opt, info, pids, here, fdnames, open, out, world>>

\* Faulty variant: the directory is closed as well, although opendir may have failed.
fclose_DirToo ==
    /\ pc = "fclose"
    /\ open' = open - 2
    /\ pc' = "readdir"
    /\ UNCHANGED <<opt, info, pids, here, fdnames, out, world>>

fclose ==
    /\ pc = "fclose"
    /\ open' = open - 1
    /\ pc' = "readdir"
    /\ UNCHANGED <<opt, info, pids, here, fdnames, out, world>>

-----------------------------------------------------------------------------
(* getMeta, for cwd, root and exe *)

Link(mode) ==
    CASE mode = "cwd" -> Proc[cur].cwd
      [] mode = "root" -> Proc[cur].root
      [] mode = "exe" -> Proc[cur].exe

\* The name of the entry and what is done after it.
Entry == [cwd |-> "cwd", root |-> "rtd", exe |-> "txt"]
After == [cwd |-> "root", root |-> "exe", exe |-> "maps"]
Opened == [cwd |-> "cwd_link", root |-> "root_link", exe |-> "exe_link"]

AsEntry(i, mode) == [i EXCEPT !.fd = Entry[mode], !.num = -1]

\* The name that stands for what could not be read.
Refused(what) == <<what, "(Permission denied)">>

\* Faulty variant: the fields of a denied entry are not set.
Denied_Stale(i, what) == i

Denied(i, what) == [i EXCEPT !.node = -1, !.type = "unknown", !.name = Refused(what)]

\* stat: an error other than EACCES leaves the fields as they are.
getMeta_stat(mode) ==
    /\ pc = mode
    /\ \/ /\ Lives /\ Proc[cur].readable /\ Link(mode) # NoFile
          /\ pc' = Opened[mode]
          /\ UNCHANGED <<info, out>>
       \/ /\ Lives /\ ~Proc[cur].readable
          /\ print_pinfo(AsEntry(Denied(info, mode), mode), After[mode])
       \/ /\ ~Lives \/ (Proc[cur].readable /\ Link(mode) = NoFile)
          /\ print_pinfo(AsEntry(info, mode), After[mode])
    /\ UNCHANGED <<opt, pids, here, fdnames, open, world>>

getMeta_readlink(mode) ==
    /\ pc = Opened[mode]
    /\ \/ /\ Lives
          /\ LET f == Link(mode)
             IN  print_pinfo(AsEntry([info EXCEPT !.node = AsInt(File[f].ino),
                                                  !.type = File[f].type,
                                                  !.name = LinkName(f)], mode),
                             After[mode])
       \/ /\ ~Lives
          /\ pc' = "failed" /\ UNCHANGED <<info, out>>
    /\ UNCHANGED <<opt, pids, here, fdnames, open, world>>
-----------------------------------------------------------------------------
(* readMem *)

maps == Proc[cur].maps
Node(k) == AsInt(File[maps[k]].ino)

\* dict starts with the inode that the txt entry has left.
InDict(k) == Node(k) = info.node \/ \E j \in 1..(k - 1) : Node(j) = Node(k)

\* strtok gives the first word of the path; "(deleted)" is looked for in that.
MemEntry(k) ==
    LET name == <<LinkName(maps[k])[1]>>
    IN  [info EXCEPT !.fd = IF name[1] = "(deleted)" THEN "DEL" ELSE "mem",
                     !.num = -1, !.type = "REG", !.node = Node(k), !.name = name]

\* All lines of a process pass the test of the command or none does.
readMem ==
    /\ pc = "maps"
    /\ LET shown == IF Lives /\ Proc[cur].readable /\ Room
                    THEN {k \in DOMAIN maps : Node(k) # 0 /\ ~InDict(k)} ELSE {}
       IN  /\ info' = IF shown = {} THEN [info EXCEPT !.type = "REG"]
                      ELSE MemEntry(Max(shown))
           /\ out' = out \cup {Line(MemEntry(k)) : k \in {m \in shown : Passes(MemEntry(m))}}
           /\ pc' = IF \E k \in shown : Aborts(MemEntry(k)) THEN "failed" ELSE "fd"
    /\ UNCHANGED <<opt, pids, here, fdnames, open, world>>

-----------------------------------------------------------------------------
(* readFd *)

Fd(n) == fds[cur][n]
IsOpen(n) == Lives /\ Fd(n) # Closed
fdname == Min(fdnames)

\* Any failure is shown as a denied permission; the directory is never closed.
readFd_opendir ==
    /\ pc = "fd"
    /\ \/ /\ Lives /\ Proc[cur].readable /\ Room
          /\ open' = open + 1
          /\ pc' = "chdir_fd"
          /\ UNCHANGED <<info, out>>
       \/ /\ ~(Lives /\ Proc[cur].readable /\ Room)
          /\ print_pinfo([info EXCEPT !.fd = "NOFD", !.num = -1, !.type = "none",
                                      !.node = -1, !.name = Refused("fd")],
                         "fclose")
          /\ UNCHANGED open
    /\ UNCHANGED <<opt, pids, here, fdnames, world>>

readFd_chdir ==
    /\ pc = "chdir_fd"
    /\ pc' = IF Lives THEN "readdir_fd" ELSE "failed"
    /\ fdnames' = {}
    /\ UNCHANGED <<opt, info, pids, here, open, out, world>>

\* The first readdir takes all entries from the kernel.
readFd_readdir ==
    /\ pc = "readdir_fd"
    /\ fdnames' = {n \in FdNumbers : IsOpen(n)}
    /\ pc' = IF fdnames' = {} THEN "fclose" ELSE "readlink"
    /\ UNCHANGED <<opt, info, pids, here, open, out, world>>

readFd_readlink ==
    /\ pc = "readlink"
    /\ IF IsOpen(fdname)
       THEN info' = [info EXCEPT !.name = LinkName(Fd(fdname).file)] /\ pc' = "stat_fd"
       ELSE UNCHANGED info /\ pc' = "failed"
    /\ UNCHANGED <<opt, pids, here, fdnames, open, out, world>>

\* The descriptor may be another file by now.  A type the code does not know has
\* no name.
readFd_stat ==
    /\ pc = "stat_fd"
    /\ IF IsOpen(fdname)
       THEN LET f == Fd(fdname).file
            IN  /\ info' = [info EXCEPT !.node = AsInt(File[f].ino), !.fd = "fd",
                                        !.num = fdname, !.type = File[f].type,
                                        !.name = IF File[f].type = "unknown" THEN <<>> ELSE @]
                /\ pc' = "lstat_fd"
       ELSE UNCHANGED info /\ pc' = "fclose"
    /\ UNCHANGED <<opt, pids, here, fdnames, open, out, world>>

WithoutDeleted(name) ==
    IF \E k \in DOMAIN name : name[k] = "(deleted)" THEN SubSeq(name, 1, Len(name) - 1)
    ELSE name

\* The mode of the link is that of the descriptor; one that can be neither read
\* nor written ends the program.
readFd_lstat ==
    /\ pc = "lstat_fd"
    /\ \/ /\ IsOpen(fdname) /\ Fd(fdname).mode # "none"
          /\ print_pinfo([info EXCEPT !.fd = Fd(fdname).mode,
                                      !.name = WithoutDeleted(@)],
                         IF fdnames = {fdname} THEN "fclose" ELSE "readlink")
          /\ fdnames' = fdnames \ {fdname}
       \/ /\ IsOpen(fdname) /\ Fd(fdname).mode = "none"
          /\ pc' = "failed" /\ UNCHANGED <<info, out, fdnames>>
       \/ /\ ~IsOpen(fdname)
          /\ pc' = "fclose" /\ UNCHANGED <<info, out, fdnames>>
    /\ UNCHANGED <<opt, pids, here, open, world>>

-----------------------------------------------------------------------------
(* The other processes. *)

Change(p) ==
    /\ pc \notin {"done", "failed"}
    /\ changes < MaxChanges /\ changes' = changes + 1
    /\ p \in alive
    /\ UNCHANGED lister

Exit(p) ==
    /\ Change(p)
    /\ alive' = alive \ {p}
    /\ touched' = touched \cup {p}
    /\ UNCHANGED <<fds, deleted>>

CloseFd(p, n) ==
    /\ Change(p) /\ fds[p][n] # Closed
    /\ fds' = [fds EXCEPT ![p][n] = Closed]
    /\ touched' = touched \cup {p}
    /\ UNCHANGED <<alive, deleted>>

OpenFd(p, n, f, m) ==
    /\ Change(p) /\ fds[p][n] = Closed
    /\ fds' = [fds EXCEPT ![p][n] = [file |-> f, mode |-> m]]
    /\ touched' = touched \cup {p}
    /\ UNCHANGED <<alive, deleted>>

\* The processes that use file f.
Users(f) ==
    {p \in Pids : \/ f \in {Proc[p].cwd, Proc[p].root, Proc[p].exe}
                  \/ \E k \in DOMAIN Proc[p].maps : Proc[p].maps[k] = f
                  \/ \E n \in FdNumbers : fds[p][n].file = f}

Unlink(p, f) ==
    /\ Change(p) /\ f \in Files \ deleted
    /\ deleted' = deleted \cup {f}
    /\ touched' = touched \cup Users(f)
    /\ UNCHANGED <<alive, fds>>

Lister ==
    \/ getopt \/ opendir \/ readdir
    \/ stat_pid \/ chdir \/ fopen_stat \/ fscanf \/ fclose
    \/ \E mode \in {"cwd", "root", "exe"} : getMeta_stat(mode) \/ getMeta_readlink(mode)
    \/ readMem
    \/ readFd_opendir \/ readFd_chdir \/ readFd_readdir
    \/ readFd_readlink \/ readFd_stat \/ readFd_lstat

Others ==
    \E p \in Pids :
        \/ Exit(p)
        \/ \E n \in FdNumbers : CloseFd(p, n)
        \/ \E n \in FdNumbers, f \in Files, m \in Modes : OpenFd(p, n, f, m)
        \/ \E f \in Files : Unlink(p, f)

Finished == pc \in {"done", "failed"} /\ UNCHANGED vars

Next == Lister \/ Others \/ Finished

Spec == Init /\ [][Next]_vars /\ WF_vars(Lister)

-----------------------------------------------------------------------------
(* What the lines should be. *)

BaseLine(p, fd, num, type, node, name) ==
    [pid |-> p, comm |-> Proc[p].comm, user |-> Proc[p].user, fd |-> fd, num |-> num,
     type |-> type, node |-> node, name |-> name]

FileLine(p, fd, f) == BaseLine(p, fd, -1, File[f].type, File[f].ino, LinkName(f))

DeniedLine(p, fd, what) == BaseLine(p, fd, -1, "unknown", -1, Refused(what))

Mapped(p) == {Proc[p].maps[k] : k \in DOMAIN Proc[p].maps} \ {Proc[p].exe}

MemLine(p, f) == BaseLine(p, IF f \in deleted THEN "DEL" ELSE "mem", -1, "REG",
                          File[f].ino, File[f].path)

FdLine(p, n) ==
    LET f == fds[p][n].file
        known == File[f].type # "unknown"
    IN  BaseLine(p, fds[p][n].mode, n, File[f].type, IF known THEN File[f].ino ELSE -1,
                 IF known THEN File[f].path ELSE <<>>)

\* The lines of process p as it is: each of its files once.
Listing(p) ==
    IF Proc[p].readable
    THEN {FileLine(p, "cwd", Proc[p].cwd), FileLine(p, "rtd", Proc[p].root)}
         \cup {FileLine(p, "txt", f) : f \in {Proc[p].exe} \ {NoFile}}
         \cup {MemLine(p, f) : f \in {g \in Mapped(p) : File[g].ino # 0}}
         \cup {FdLine(p, n) : n \in {m \in FdNumbers : fds[p][m] # Closed}}
    ELSE {DeniedLine(p, "cwd", "cwd"), DeniedLine(p, "rtd", "root"), DeniedLine(p, "txt", "exe"),
          BaseLine(p, "NOFD", -1, "none", -1, Refused("fd"))}

\* The lines that the options ask for.
Asked(l) ==
    /\ opt.type \in {"any", l.type}
    /\ Finds(opt.comm, l.comm) /\ Finds(opt.file, l.name)

Steady == Pids \ touched

\* Whatever the other processes do while the lister runs, the lines of a process
\* that stays as it is are right: nothing in them comes from another process,
\* from an earlier entry in struct info or from a descriptor that was used again.
NoWrongLine == \A l \in out : l.pid \in Steady => l \in Listing(l.pid) /\ Asked(l)

\* When the lister gets to its end it has shown every asked line of every process
\* that stayed as it is: the descriptors that readFd leaves open, one for each
\* process, have not used up those that a later process needs.
NothingMissing ==
    pc = "done" => \A p \in Steady : {l \in Listing(p) : Asked(l)} \subseteq out

\* The lister gives up only for its options or when a process has changed.
FailsForAReason ==
    pc = "failed" =>
        \/ touched # {}
        \/ opt.usage \/ opt.type \notin Types \cup {"any"}
        \/ ~opt.comm.valid \/ ~opt.file.valid

\* A file that is mapped and deleted is shown as DEL, without the word
\* "(deleted)", as the branch of readMem for it says.
DeletedMarked ==
    \A p \in Steady : pc = "done" =>
        \A f \in Mapped(p) \cap deleted : \E l \in out : l.pid = p /\ l.fd = "DEL"

\* The lister comes to an end, whatever the other processes do.
ListerEnds == <>(pc \in {"done", "failed"})
=============================================================================
