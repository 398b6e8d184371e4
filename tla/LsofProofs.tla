----------------------------- MODULE LsofProofs -----------------------------
(***************************************************************************)
(* What the listing of hw1 is worth, proved for any number of processes,   *)
(* descriptors, files and changes while the lister runs: it gives up only  *)
(* for a reason, and the lines of the processes that stay as they are are  *)
(* right and complete, under the conditions that are stated here.          *)
(***************************************************************************)
EXTENDS Lsof, FiniteSetTheorems, WellFoundedInduction, TLAPS

-----------------------------------------------------------------------------
(* Where the lister is. *)

Links == {"cwd", "cwd_link", "root", "root_link", "exe", "exe_link"}
Reading == {"readlink", "stat_fd", "lstat_fd"}

\* The stream that fopen_stat has opened is open.
Scanning == Links \cup Reading \cup {"fscanf", "maps", "fd", "chdir_fd", "readdir_fd", "fclose"}

\* info.cur is the process that is looked at.
Looking == Scanning \cup {"stat", "chdir", "fopen"}

-----------------------------------------------------------------------------
(* Types. *)

Fields == {"cur", "pid", "comm", "user", "fd", "num", "type", "node", "name"}

\* i is a record with the fields of struct info.
IsInfo(i) == i = [x \in Fields |-> i[x]]

TInv ==
    /\ TypeOK
    /\ IsInfo(info)
    /\ fds \in [Pids -> [FdNumbers -> Descriptor]]
    /\ pc \in Looking => info.cur \in Pids
    /\ pc \in Scanning => open > 0
    /\ pc \in Reading => fdnames # {}
    /\ pc = "exe_link" => Proc[info.cur].exe # NoFile

\* The bounds that the arithmetic needs.
LEMMA Limits ==
    /\ MaxOpen \in Nat /\ MaxChanges \in Nat
    /\ Pids \subseteq Nat \ {0} /\ IsFiniteSet(Pids) /\ FdNumbers \subseteq Nat
BY LsofAssumption

\* Every set of naturals has a least element, which is the one Min chooses.
LEMMA MinIn ==
    ASSUME NEW T, T \subseteq Nat, T # {}
    PROVE  Min(T) \in T /\ \A y \in T : Min(T) <= y
<1> DEFINE R == OpToRel(<, Nat)
<1>1. IsWellFoundedOn(R, Nat)
  BY NatLessThanWellFounded
<1>2. \A x, y \in Nat : x < y => <<x, y>> \in R
  BY DEF OpToRel
<1> HIDE DEF R
<1>3. PICK x \in T : \A y \in T : ~(<<y, x>> \in R)
  BY <1>1, WFMin
<1>4. x \in Nat /\ \A y \in T : y \in Nat /\ ~(y < x)
  BY <1>2, <1>3
<1>5. \A y \in T : x <= y
  BY <1>4
<1> QED BY <1>3, <1>5 DEF Min

\* Where the lister goes from each place, in terms of the sets above.
LEMMA Places ==
    /\ Reading \subseteq Scanning /\ Scanning \subseteq Looking /\ Looking \subseteq Steps
    /\ {"getopt", "opendir", "readdir", "done", "failed"} \cap Looking = {}
    /\ {"stat", "chdir", "fopen"} \subseteq Looking \ Scanning
    /\ Links \cup {"fscanf", "maps", "fd", "chdir_fd", "readdir_fd", "fclose"}
           \subseteq Scanning \ Reading
    /\ Links = {"cwd", "cwd_link", "root", "root_link", "exe", "exe_link"}
    /\ Reading = {"readlink", "stat_fd", "lstat_fd"}
    /\ {"getopt", "opendir", "readdir"} \subseteq Steps
BY DEF Looking, Scanning, Links, Reading, Steps

\* What the links and descriptors of processes point to are files.
LEMMA FileTypes ==
    ASSUME TInv, info.cur \in Pids
    PROVE  /\ \A mode \in {"cwd", "root", "exe"} : Link(mode) # NoFile => Link(mode) \in Files
           /\ \A n \in FdNumbers : IsOpen(n) => Fd(n).file \in Files
<1>1. Link("cwd") \in Files /\ Link("root") \in Files /\ Link("exe") \in Files \cup {NoFile}
  BY LsofAssumption DEF Link, cur
<1>2. \A n \in FdNumbers : Fd(n) # Closed => Fd(n).file \in Files
  BY DEF TInv, Fd, cur, Descriptor
<1> QED BY <1>1, <1>2 DEF IsOpen

\* A step of the lister keeps the types when what it leaves in struct info is one.
LEMMA TypesKept ==
    ASSUME TInv, IsInfo(info'), info'.cur \in Pids \cup {0}, info'.type \in Types \cup {"none"},
           pc' \in Steps \cup {"done", "failed"}, pids' \subseteq Pids, here' \in BOOLEAN,
           fdnames' \subseteq FdNumbers, open' \in 0..MaxOpen,
           pc' \in Looking => info'.cur \in Pids,
           pc' \in Scanning => open' > 0,
           pc' \in Reading => fdnames' # {},
           pc' = "exe_link" => Proc[info'.cur].exe # NoFile,
           UNCHANGED world
    PROVE  TInv'
BY DEF TInv, TypeOK, world

LEMMA TypesOf ==
    ASSUME TInv
    PROVE  /\ IsInfo(info) /\ info.cur \in Pids \cup {0} /\ info.type \in Types \cup {"none"}
           /\ pc \in Steps \cup {"done", "failed"} /\ pids \subseteq Pids /\ here \in BOOLEAN
           /\ fdnames \subseteq FdNumbers /\ open \in 0..MaxOpen /\ alive \subseteq Pids
           /\ pc \in Looking => info.cur \in Pids
           /\ pc \in Scanning => open > 0
           /\ pc \in Reading => fdnames # {}
           /\ pc = "exe_link" => Proc[info.cur].exe # NoFile
BY DEF TInv, TypeOK

LEMMA WalkTypes ==
    ASSUME TInv, getopt \/ opendir \/ readdir \/ stat_pid \/ chdir \/ fopen_stat \/ fclose
    PROVE  TInv'
<1>1. CASE getopt
  BY <1>1, TypesOf, TypesKept, Places DEF getopt
<1>2. CASE opendir
  BY <1>2, TypesOf, TypesKept, Places DEF opendir
<1>3. CASE readdir
  <2>1. pids # {} => Min(pids) \in Pids
    BY TypesOf, MinIn, Limits
  <2> DEFINE i == [info EXCEPT !.cur = Min(pids)]
  <2>2. IsInfo(i) /\ i.cur = Min(pids) /\ i.type = info.type
    BY TypesOf DEF IsInfo, Fields
  <2>3. \/ UNCHANGED <<info, pids>> /\ pc' = "done"
        \/ pids # {} /\ info' = i /\ pids' \subseteq pids /\ pc' = "stat"
    BY <1>3 DEF readdir
  <2> HIDE DEF i
  <2>4. UNCHANGED <<here, fdnames, open, world>>
    BY <1>3 DEF readdir
  <2> QED BY <2>1, <2>2, <2>3, <2>4, TypesOf, TypesKept, Places
<1>4. CASE stat_pid
  <2>1. \A u : LET i == [info EXCEPT !.user = u]
               IN  IsInfo(i) /\ i.cur = info.cur /\ i.type = info.type
    BY TypesOf DEF IsInfo, Fields
  <2>2. IsInfo(info') /\ info'.cur = info.cur /\ info'.type = info.type
    BY <1>4, <2>1, TypesOf DEF stat_pid, getUserName
  <2> QED BY <1>4, <2>2, TypesOf, TypesKept, Places DEF stat_pid
<1>5. CASE chdir
  <2>1. Lives \in BOOLEAN
    BY DEF Lives
  <2> QED BY <1>5, <2>1, TypesOf, TypesKept, Places DEF chdir
<1>6. CASE fopen_stat
  <2>1. open' \in 0..MaxOpen /\ (pc' = "fscanf" => open' > 0)
    BY <1>6, TypesOf, Limits DEF fopen_stat, Room
  <2> QED BY <1>6, <2>1, TypesOf, TypesKept, Places DEF fopen_stat
<1>7. CASE fclose
  <2>0. open > 0 /\ open' = open - 1
    BY <1>7, TypesOf, Places DEF fclose
  <2>a. open \in 0..MaxOpen /\ MaxOpen \in Nat
    BY TypesOf, Limits
  <2>1. open' \in 0..MaxOpen
    BY <2>0, <2>a
  <2> QED BY <1>7, <2>1, TypesOf, TypesKept, Places DEF fclose
<1> QED BY <1>1, <1>2, <1>3, <1>4, <1>5, <1>6, <1>7

LEMMA ScanTypes ==
    ASSUME TInv, fscanf \/ readMem \/ readFd_opendir \/ readFd_chdir
    PROVE  TInv' /\ info'.cur = info.cur
<1>0. "REG" \in Types
  BY DEF Types
<1>1. CASE fscanf
  <2> DEFINE i == [info EXCEPT !.pid = cur, !.comm = ScannedComm(Proc[cur].comm)]
  <2>1. IsInfo(i) /\ i.cur = info.cur /\ i.type = info.type
    BY TypesOf DEF IsInfo, Fields
  <2>2. IsInfo(info') /\ info'.cur = info.cur /\ info'.type = info.type
    BY <1>1, <2>1, TypesOf DEF fscanf
  <2> QED BY <1>1, <2>2, TypesOf, TypesKept, Places DEF fscanf
<1>2. CASE readMem
  <2>1. \A k : IsInfo(MemEntry(k)) /\ MemEntry(k).cur = info.cur /\ MemEntry(k).type = "REG"
    BY TypesOf DEF MemEntry, IsInfo, Fields
  <2>2. LET i == [info EXCEPT !.type = "REG"]
        IN  IsInfo(i) /\ i.cur = info.cur /\ i.type = "REG"
    BY TypesOf DEF IsInfo, Fields
  <2>3. IsInfo(info') /\ info'.cur = info.cur /\ info'.type = "REG" /\ pc' \in {"failed", "fd"}
    BY <1>2, <2>1, <2>2 DEF readMem
  <2>4. UNCHANGED <<pids, here, fdnames, open, world>> /\ pc = "maps"
    BY <1>2 DEF readMem
  <2> QED BY <2>3, <2>4, <1>0, TypesOf, TypesKept, Places
<1>3. CASE readFd_opendir
  <2>1. \A w : LET i == [info EXCEPT !.fd = "NOFD", !.num = -1, !.type = "none",
                                     !.node = -1, !.name = w]
               IN  IsInfo(i) /\ i.cur = info.cur /\ i.type = "none"
    BY TypesOf DEF IsInfo, Fields
  <2>2. /\ IsInfo(info') /\ info'.cur = info.cur /\ info'.type \in Types \cup {"none"}
        /\ pc' \in {"chdir_fd", "fclose", "failed"}
    BY <1>3, <2>1, TypesOf DEF readFd_opendir, print_pinfo
  <2>3. open' \in 0..MaxOpen /\ open' > 0
    <3>1. open > 0 /\ (open' = open \/ (open < MaxOpen /\ open' = open + 1))
      BY <1>3, TypesOf, Places DEF readFd_opendir, Room
    <3>2. open \in 0..MaxOpen /\ MaxOpen \in Nat
      BY TypesOf, Limits
    <3> QED BY <3>1, <3>2
  <2>4. UNCHANGED <<pids, here, fdnames, world>> /\ pc = "fd"
    BY <1>3 DEF readFd_opendir
  <2> QED BY <2>2, <2>3, <2>4, TypesOf, TypesKept, Places
<1>4. CASE readFd_chdir
  BY <1>4, TypesOf, TypesKept, Places DEF readFd_chdir
<1> QED BY <1>1, <1>2, <1>3, <1>4

LEMMA MetaPlaces ==
    ASSUME NEW mode \in {"cwd", "root", "exe"}
    PROVE  /\ mode \in Scanning \ Reading /\ Opened[mode] \in Scanning \ Reading
           /\ After[mode] \in Scanning \ Reading
           /\ mode # "exe_link" /\ After[mode] # "exe_link"
           /\ Opened[mode] = "exe_link" <=> mode = "exe"
           /\ Opened[mode] # After[mode] /\ Opened[mode] # "failed"
<1>1. /\ Opened["cwd"] = "cwd_link" /\ Opened["root"] = "root_link" /\ Opened["exe"] = "exe_link"
      /\ After["cwd"] = "root" /\ After["root"] = "exe" /\ After["exe"] = "maps"
  BY DEF Opened, After
<1>2. mode = "cwd" \/ mode = "root" \/ mode = "exe"
  OBVIOUS
<1> QED BY <1>1, <1>2, Places

\* What getMeta_stat and getMeta_readlink do, for each of the three links.
LEMMA MetaTypes ==
    ASSUME TInv, NEW mode \in {"cwd", "root", "exe"},
           getMeta_stat(mode) \/ getMeta_readlink(mode)
    PROVE  /\ TInv' /\ info'.cur = info.cur
           /\ pc' \in {"failed", Opened[mode], After[mode]}
<1>1. /\ mode \in Scanning /\ Opened[mode] \in Scanning \ Reading
      /\ After[mode] \in Scanning \ Reading
      /\ mode # "exe_link" /\ After[mode] # "exe_link"
      /\ Opened[mode] = "exe_link" <=> mode = "exe"
      /\ Opened[mode] # After[mode] /\ Opened[mode] # "failed"
  BY MetaPlaces
<1>2. info.cur \in Pids /\ open > 0
  BY <1>1, TypesOf, Places DEF getMeta_stat, getMeta_readlink
<1>3. \A i : IsInfo(i) => LET j == AsEntry(i, mode)
                         IN  IsInfo(j) /\ j.cur = i.cur /\ j.type = i.type
  BY DEF AsEntry, IsInfo, Fields
<1>4. LET j == Denied(info, mode) IN IsInfo(j) /\ j.cur = info.cur /\ j.type = "unknown"
  BY TypesOf DEF Denied, IsInfo, Fields
<1>6. /\ IsInfo(info') /\ info'.cur = info.cur /\ info'.type \in Types \cup {"none"}
      /\ pc' \in {"failed", Opened[mode], After[mode]}
  <2>0. IsInfo(info) /\ info.type \in Types \cup {"none"} /\ "unknown" \in Types
    BY TypesOf DEF Types
  <2>1. CASE UNCHANGED info /\ pc' \in {"failed", Opened[mode]}
    BY <2>0, <2>1
  <2>2. CASE print_pinfo(AsEntry(Denied(info, mode), mode), After[mode])
    BY <2>0, <2>2, <1>3, <1>4 DEF print_pinfo
  <2>3. CASE print_pinfo(AsEntry(info, mode), After[mode])
    BY <2>0, <2>3, <1>3 DEF print_pinfo
  <2>4. CASE getMeta_readlink(mode) /\ Lives /\ Link(mode) # NoFile
    <3> DEFINE f == Link(mode)
               i == [info EXCEPT !.node = AsInt(File[f].ino), !.type = File[f].type,
                                 !.name = LinkName(f)]
    <3>1. print_pinfo(AsEntry(i, mode), After[mode])
      BY <2>4 DEF getMeta_readlink
    <3>2. File[f].type \in Types
      BY <1>2, <2>4, FileTypes, LsofAssumption
    <3>3. IsInfo(i) /\ i.cur = info.cur /\ i.type = File[f].type
      BY <2>0 DEF IsInfo, Fields
    <3> HIDE DEF i, f
    <3> QED BY <3>1, <3>2, <3>3, <1>3 DEF print_pinfo
  <2>5. getMeta_readlink(mode) => Link(mode) # NoFile
    <3>1. Link("cwd") # NoFile /\ Link("root") # NoFile
      BY <1>2, LsofAssumption DEF Link, cur
    <3>2. getMeta_readlink("exe") => Link("exe") # NoFile
      BY <1>1, TypesOf DEF getMeta_readlink, Link, cur, Opened
    <3>3. mode = "cwd" \/ mode = "root" \/ mode = "exe"
      OBVIOUS
    <3> QED BY <3>1, <3>2, <3>3
  <2> QED BY <2>1, <2>2, <2>3, <2>4, <2>5 DEF getMeta_stat, getMeta_readlink
<1>8. pc' = "exe_link" => Proc[info'.cur].exe # NoFile
  <2>1. getMeta_stat(mode) /\ pc' = Opened[mode] => Link(mode) # NoFile
    BY <1>1 DEF getMeta_stat, print_pinfo
  <2> QED BY <2>1, <1>1, <1>6 DEF getMeta_readlink, print_pinfo, Link, cur
<1>7. UNCHANGED <<pids, here, fdnames, open, world>>
  BY DEF getMeta_stat, getMeta_readlink
<1> QED BY <1>1, <1>2, <1>6, <1>7, <1>8, TypesOf, TypesKept, Places

LEMMA FdTypes ==
    ASSUME TInv, readFd_readdir \/ readFd_readlink \/ readFd_stat \/ readFd_lstat
    PROVE  TInv' /\ info'.cur = info.cur
<1>0. IsInfo(info) /\ info.type \in Types \cup {"none"} /\ info.cur \in Pids
  BY TypesOf, Places DEF readFd_readdir, readFd_readlink, readFd_stat, readFd_lstat
<1>1. CASE readFd_readdir
  <2>1. fdnames' \subseteq FdNumbers /\ (pc' = "readlink" => fdnames' # {}) /\ pc' \in {"fclose", "readlink"}
    BY <1>1 DEF readFd_readdir
  <2>2. UNCHANGED <<info, pids, here, open, world>> /\ pc = "readdir_fd"
    BY <1>1 DEF readFd_readdir
  <2> QED BY <2>1, <2>2, TypesOf, TypesKept, Places
<1>2. CASE readFd_readlink
  <2> DEFINE i == [info EXCEPT !.name = LinkName(Fd(fdname).file)]
  <2>1. IsInfo(i) /\ i.cur = info.cur /\ i.type = info.type
    BY <1>0 DEF IsInfo, Fields
  <2>2. /\ IsInfo(info') /\ info'.cur = info.cur /\ info'.type = info.type
        /\ pc' \in {"stat_fd", "failed"}
    BY <1>0, <1>2, <2>1 DEF readFd_readlink
  <2>3. UNCHANGED <<pids, here, fdnames, open, world>> /\ pc = "readlink"
    BY <1>2 DEF readFd_readlink
  <2> QED BY <2>2, <2>3, TypesOf, TypesKept, Places
<1>3. CASE readFd_stat
  <2> DEFINE f == Fd(fdname).file
             i == [info EXCEPT !.node = AsInt(File[f].ino), !.fd = "fd",
                               !.num = fdname, !.type = File[f].type,
                               !.name = IF File[f].type = "unknown" THEN <<>> ELSE @]
  <2>1. IsInfo(i) /\ i.cur = info.cur /\ i.type = File[f].type
    BY <1>0 DEF IsInfo, Fields
  <2>2. fdname \in FdNumbers
    BY <1>3, MinIn, TypesOf, Limits, Places DEF readFd_stat, fdname
  <2>3. IsOpen(fdname) => File[f].type \in Types
    BY <1>0, <2>2, FileTypes, LsofAssumption
  <2>4. \/ IsOpen(fdname) /\ info' = i /\ pc' = "lstat_fd"
        \/ UNCHANGED info /\ pc' = "fclose"
    BY <1>3 DEF readFd_stat
  <2>5. UNCHANGED <<pids, here, fdnames, open, world>> /\ pc = "stat_fd"
    BY <1>3 DEF readFd_stat
  <2> HIDE DEF i, f
  <2> QED BY <1>0, <2>1, <2>3, <2>4, <2>5, TypesOf, TypesKept, Places
<1>4. CASE readFd_lstat
  <2> DEFINE i == [info EXCEPT !.fd = Fd(fdname).mode, !.name = WithoutDeleted(@)]
  <2>1. IsInfo(i) /\ i.cur = info.cur /\ i.type = info.type
    BY <1>0 DEF IsInfo, Fields
  <2>2. \/ info' = i /\ pc' \in {"failed", "fclose"} /\ fdnames' \subseteq fdnames
        \/ info' = i /\ pc' = "readlink" /\ fdnames' = fdnames \ {fdname} /\ fdnames # {fdname}
        \/ UNCHANGED <<info, fdnames>> /\ pc' \in {"failed", "fclose"}
    BY <1>4 DEF readFd_lstat, print_pinfo
  <2>3. UNCHANGED <<pids, here, open, world>> /\ pc = "lstat_fd"
    BY <1>4 DEF readFd_lstat
  <2>4. fdnames # {} /\ fdnames # {fdname} => fdnames \ {fdname} # {}
    OBVIOUS
  <2> HIDE DEF i
  <2> QED BY <1>0, <2>1, <2>2, <2>3, <2>4, TypesOf, TypesKept, Places
<1> QED BY <1>1, <1>2, <1>3, <1>4

LEMMA OthersTypes ==
    ASSUME TInv, Others
    PROVE  TInv' /\ UNCHANGED lister
<1>1. PICK p \in Pids :
          \/ Exit(p)
          \/ \E n \in FdNumbers : CloseFd(p, n)
          \/ \E n \in FdNumbers, f \in Files, m \in Modes : OpenFd(p, n, f, m)
          \/ \E f \in Files : Unlink(p, f)
  BY DEF Others
<1>2. Change(p)
  BY <1>1 DEF Exit, CloseFd, OpenFd, Unlink
<1>3. UNCHANGED lister /\ changes' \in 0..MaxChanges
  <2>1. changes \in 0..MaxChanges /\ MaxChanges \in Nat
    BY Limits DEF TInv, TypeOK
  <2> QED BY <1>2, <2>1 DEF Change
<1>4. fds' \in [Pids -> [FdNumbers -> Descriptor]]
  <2>1. CASE UNCHANGED fds
    BY <2>1 DEF TInv
  <2>2. ASSUME NEW n \in FdNumbers, NEW d \in Descriptor, fds' = [fds EXCEPT ![p][n] = d]
        PROVE  fds' \in [Pids -> [FdNumbers -> Descriptor]]
    BY <2>2 DEF TInv
  <2>3. Closed \in Descriptor
    BY DEF Descriptor
  <2>4. \A f \in Files, m \in Modes : [file |-> f, mode |-> m] \in Descriptor
    BY LsofAssumption DEF Descriptor
  <2> QED BY <1>1, <2>1, <2>2, <2>3, <2>4 DEF Exit, CloseFd, OpenFd, Unlink
<1>5. alive' \subseteq Pids /\ touched' \subseteq Pids /\ deleted' \subseteq Files
  BY <1>1 DEF Exit, CloseFd, OpenFd, Unlink, Users, TInv, TypeOK
<1> QED BY <1>3, <1>4, <1>5 DEF TInv, TypeOK, lister

LEMMA InitTypes ==
    ASSUME Init
    PROVE  TInv
<1>1. IsInfo(info) /\ info.cur = 0 /\ info.type = "none"
  BY DEF Init, IsInfo, Fields
<1>2. TypeOK
  <2>1. 0 \in 0..MaxOpen /\ 0 \in 0..MaxChanges
    BY Limits
  <2>2. Deleted0 \subseteq Files
    BY LsofAssumption
  <2> QED BY <1>1, <2>1, <2>2 DEF Init, TypeOK, Steps
<1> QED BY <1>1, <1>2, LsofAssumption, Places DEF Init, TInv

\* Every step keeps the types; one of the lister that starts and ends at a process
\* is about one process, except when readdir goes to the next.
LEMMA TypeStep ==
    ASSUME TInv, [Next]_vars
    PROVE  TInv'
<1>1. CASE UNCHANGED vars \/ Finished
  BY <1>1 DEF Finished, vars, lister, world, TInv, TypeOK
<1>2. CASE Others
  BY <1>2, OthersTypes
<1>3. CASE Lister
  BY <1>3, WalkTypes, ScanTypes, MetaTypes, FdTypes DEF Lister
<1> QED BY <1>1, <1>2, <1>3 DEF Next

\* The types of the lister and the processes: it never has more descriptors than it
\* may have, and never closes one it does not have, however many processes there are
\* and whatever they do.
THEOREM TypeCorrect == Spec => []TypeOK
<1>1. Init => TInv
  BY InitTypes
<1>2. TInv /\ [Next]_vars => TInv'
  BY TypeStep
<1>3. TInv => TypeOK
  BY DEF TInv
<1> QED BY <1>1, <1>2, <1>3, PTL DEF Spec

-----------------------------------------------------------------------------
(* Processes that stay as they are. *)

\* The files whose names appear in the lines of process p.
Uses(p) ==
    {Proc[p].cwd, Proc[p].root, Proc[p].exe}
    \cup {Proc[p].maps[k] : k \in DOMAIN Proc[p].maps}
    \cup {Fds0[p][n].file : n \in FdNumbers}

\* They live, with the descriptors they had when the lister started, and none of
\* their files has been deleted since.
Unchanged ==
    \A p \in Pids \ touched :
        /\ p \in alive /\ fds[p] = Fds0[p]
        /\ \A f \in Uses(p) : f \in deleted <=> f \in Deleted0

Inside == Looking \ {"stat", "chdir"}

\* The lister is in the directory of the process, and has seen only descriptors
\* that are open, unless the process has changed.
SInv ==
    /\ Unchanged
    /\ pc \in Inside => here \/ info.cur \in touched
    /\ pc \in Reading /\ info.cur \notin touched =>
           \A n \in fdnames : Fds0[info.cur][n] # Closed

LEMMA OthersSteady ==
    ASSUME TInv, SInv, Others
    PROVE  SInv' /\ touched \subseteq touched'
<1>1. PICK q \in Pids :
          \/ Exit(q)
          \/ \E n \in FdNumbers : CloseFd(q, n)
          \/ \E n \in FdNumbers, f \in Files, m \in Modes : OpenFd(q, n, f, m)
          \/ \E f \in Files : Unlink(q, f)
  BY DEF Others
<1>2. UNCHANGED lister
  BY OthersTypes
<1>3. touched \subseteq touched'
  BY <1>1 DEF Exit, CloseFd, OpenFd, Unlink
<1>4. fds \in [Pids -> [FdNumbers -> Descriptor]]
  BY DEF TInv
<1>5. ASSUME NEW p \in Pids \ touched'
      PROVE  /\ p \in alive' /\ fds'[p] = Fds0[p]
             /\ \A f \in Uses(p) : f \in deleted' <=> f \in Deleted0
  <2>1. /\ p \in alive /\ fds[p] = Fds0[p]
        /\ \A f \in Uses(p) : f \in deleted <=> f \in Deleted0
    BY <1>3, <1>5 DEF SInv, Unchanged
  <2>2. CASE Exit(q)
    BY <1>5, <2>1, <2>2 DEF Exit
  <2>3. ASSUME NEW n \in FdNumbers, CloseFd(q, n)
        PROVE  /\ p \in alive' /\ fds'[p] = Fds0[p]
               /\ \A f \in Uses(p) : f \in deleted' <=> f \in Deleted0
    BY <1>4, <1>5, <2>1, <2>3 DEF CloseFd
  <2>4. ASSUME NEW n \in FdNumbers, NEW f \in Files, NEW m \in Modes, OpenFd(q, n, f, m)
        PROVE  /\ p \in alive' /\ fds'[p] = Fds0[p]
               /\ \A g \in Uses(p) : g \in deleted' <=> g \in Deleted0
    BY <1>4, <1>5, <2>1, <2>4 DEF OpenFd
  <2>5. ASSUME NEW f \in Files, Unlink(q, f)
        PROVE  /\ p \in alive' /\ fds'[p] = Fds0[p]
               /\ \A g \in Uses(p) : g \in deleted' <=> g \in Deleted0
    <3>1. p \notin Users(f)
      BY <1>5, <2>5 DEF Unlink
    <3>2. f \notin Uses(p)
      BY <2>1, <3>1 DEF Users, Uses
    <3> QED BY <2>1, <2>5, <3>2 DEF Unlink
  <2> QED BY <1>1, <2>2, <2>3, <2>4, <2>5
<1> QED BY <1>2, <1>3, <1>5 DEF SInv, Unchanged, lister

\* Among the steps of the lister only chdir sets here, and only readdir goes to
\* another process; none changes the processes.
LEMMA ListerMoves ==
    ASSUME TInv, Lister
    PROVE  /\ UNCHANGED <<opt, world>>
           /\ \/ chdir
              \/ UNCHANGED here /\ (pc' \in Inside => pc \in Inside /\ info'.cur = info.cur)
<1>0. /\ Inside = Scanning \cup {"fopen"}
  BY DEF Inside, Looking, Scanning, Links, Reading
<1>1. CASE getopt \/ opendir \/ readdir \/ stat_pid \/ chdir \/ fopen_stat \/ fclose
  BY <1>0, <1>1, Places DEF getopt, opendir, readdir, stat_pid, chdir, fopen_stat, fclose
<1>2. CASE fscanf \/ readMem \/ readFd_opendir \/ readFd_chdir
  <2>1. pc \in Inside /\ UNCHANGED <<opt, here, world>>
    BY <1>0, <1>2, Places DEF fscanf, readMem, readFd_opendir, readFd_chdir
  <2> QED BY <1>2, <2>1, ScanTypes
<1>3. ASSUME NEW mode \in {"cwd", "root", "exe"}, getMeta_stat(mode) \/ getMeta_readlink(mode)
      PROVE  UNCHANGED <<opt, here, world>> /\ pc \in Inside /\ info'.cur = info.cur
  <2>1. mode \in Scanning /\ Opened[mode] \in Scanning
    BY MetaPlaces
  <2> QED BY <1>0, <1>3, <2>1, MetaTypes DEF getMeta_stat, getMeta_readlink
<1>4. CASE readFd_readdir \/ readFd_readlink \/ readFd_stat \/ readFd_lstat
  <2>1. pc \in Inside /\ UNCHANGED <<opt, here, world>>
    BY <1>0, <1>4, Places DEF readFd_readdir, readFd_readlink, readFd_stat, readFd_lstat
  <2> QED BY <1>4, <2>1, FdTypes
<1> QED BY <1>1, <1>2, <1>3, <1>4 DEF Lister

LEMMA ListerSteady ==
    ASSUME TInv, SInv, Lister
    PROVE  SInv'
<1>1. UNCHANGED world
  BY ListerMoves
<1>2. Unchanged'
  BY <1>1 DEF SInv, Unchanged, world
<1>3. pc' \in Inside => here' \/ info'.cur \in touched'
  <2>1. CASE chdir
    <3>1. info.cur \in Pids
      BY <2>1, TypesOf, Places DEF chdir
    <3> QED BY <1>1, <2>1, <3>1 DEF chdir, Lives, cur, SInv, Unchanged, world
  <2>2. CASE UNCHANGED here /\ (pc' \in Inside => pc \in Inside /\ info'.cur = info.cur)
    BY <1>1, <2>2 DEF SInv, world
  <2> QED BY <2>1, <2>2, ListerMoves
<1>4. ASSUME pc' \in Reading, info'.cur \notin touched'
      PROVE  \A n \in fdnames' : Fds0[info'.cur][n] # Closed
  <2>1. readFd_readdir \/ readFd_readlink \/ readFd_stat \/ readFd_lstat
    <3>1. CASE getopt \/ opendir \/ readdir \/ stat_pid \/ chdir \/ fopen_stat \/ fclose
      BY <1>4, <3>1, Places DEF getopt, opendir, readdir, stat_pid, chdir, fopen_stat, fclose
    <3>2. CASE fscanf \/ readMem \/ readFd_opendir \/ readFd_chdir
      BY <1>4, <3>2, Places DEF fscanf, readMem, readFd_opendir, readFd_chdir, print_pinfo
    <3>3. ASSUME NEW mode \in {"cwd", "root", "exe"},
                 getMeta_stat(mode) \/ getMeta_readlink(mode)
          PROVE  FALSE
      <4>1. pc' \in {"failed", Opened[mode], After[mode]}
        BY <3>3, MetaTypes
      <4> QED BY <1>4, <4>1, MetaPlaces, Places
    <3> QED BY <3>1, <3>2, <3>3 DEF Lister
  <2>2. info'.cur = info.cur
    BY <2>1, FdTypes
  <2>3. CASE readFd_readdir
    <3>1. info.cur \in Pids \ touched
      BY <1>1, <1>4, <2>2, <2>3, TypesOf, Places DEF readFd_readdir, world
    <3>2. fds[info.cur] = Fds0[info.cur]
      BY <3>1 DEF SInv, Unchanged
    <3> QED BY <2>2, <2>3, <3>2 DEF readFd_readdir, IsOpen, Fd, cur
  <2>4. CASE readFd_readlink \/ readFd_stat \/ readFd_lstat
    <3>1. fdnames' \subseteq fdnames /\ pc \in Reading
      BY <2>4, Places DEF readFd_readlink, readFd_stat, readFd_lstat
    <3> QED BY <1>1, <1>4, <2>2, <3>1 DEF SInv, world
  <2> QED BY <2>1, <2>3, <2>4
<1> QED BY <1>2, <1>3, <1>4 DEF SInv

-----------------------------------------------------------------------------
(* Giving up. *)

\* Every descriptor that is open when the lister starts can be read or written.
ReadOrWrite == \A p \in Pids, n \in FdNumbers : Fds0[p][n].mode # "none"

Reason ==
    \/ touched # {}
    \/ opt.usage \/ opt.type \notin Types \cup {"any"}
    \/ ~opt.comm.valid \/ ~opt.file.valid

LEMMA AbortReason ==
    ASSUME NEW i, Aborts(i)
    PROVE  Reason
BY DEF Aborts, Reason

\* A system call fails only on a process that has changed.
LEMMA GoneReason ==
    ASSUME TInv, SInv, pc \in Looking, ~Lives
    PROVE  Reason
BY TypesOf DEF SInv, Unchanged, Lives, cur, Reason

LEMMA FailStep ==
    ASSUME ReadOrWrite, TInv, SInv, Lister, pc' = "failed"
    PROVE  Reason
<1>0. pc \in Reading => fdname \in fdnames /\ fdname \in FdNumbers
  BY TypesOf, MinIn, Limits DEF fdname
<1>1. CASE getopt \/ opendir \/ readdir \/ stat_pid \/ chdir \/ fopen_stat \/ fclose
  BY <1>1 DEF getopt, opendir, readdir, stat_pid, chdir, fopen_stat, fclose, Reason
<1>2. CASE fscanf
  <2>1. pc \in Looking /\ pc \in Inside
    BY <1>2, Places DEF fscanf, Inside
  <2>2. ~here \/ ~Lives
    BY <1>2 DEF fscanf
  <2>3. ~here => Reason
    BY <2>1 DEF SInv, Reason
  <2> QED BY <2>1, <2>2, <2>3, GoneReason
<1>3. CASE readMem
  <2>1. \E k : Aborts(MemEntry(k))
    BY <1>3 DEF readMem
  <2> QED BY <2>1, AbortReason
<1>4. CASE readFd_opendir
  BY <1>4, AbortReason DEF readFd_opendir, print_pinfo
<1>5. CASE readFd_chdir
  <2>1. pc \in Looking /\ ~Lives
    BY <1>5, Places DEF readFd_chdir
  <2> QED BY <2>1, GoneReason
<1>6. ASSUME NEW mode \in {"cwd", "root", "exe"}, getMeta_stat(mode) \/ getMeta_readlink(mode)
      PROVE  Reason
  <2>1. "failed" \notin {Opened[mode], After[mode]} /\ Opened[mode] \in Looking
    BY MetaPlaces, Places
  <2>2. (\E i : Aborts(i)) \/ (pc = Opened[mode] /\ ~Lives)
    BY <1>6, <2>1 DEF getMeta_stat, getMeta_readlink, print_pinfo
  <2> QED BY <2>1, <2>2, AbortReason, GoneReason
<1>7. CASE readFd_readdir \/ readFd_stat
  BY <1>7 DEF readFd_readdir, readFd_stat
<1>8. CASE readFd_readlink \/ readFd_lstat
  <2>1. pc \in Reading /\ pc \in Looking
    BY <1>8, Places DEF readFd_readlink, readFd_lstat
  <2>2. \/ \E i : Aborts(i)
        \/ ~IsOpen(fdname)
        \/ Fd(fdname).mode = "none"
    BY <1>8 DEF readFd_readlink, readFd_lstat, print_pinfo
  <2>3. ASSUME info.cur \notin touched
        PROVE  IsOpen(fdname) /\ Fd(fdname).mode # "none"
    <3>1. info.cur \in Pids \ touched
      BY <2>1, <2>3, TypesOf
    <3>2. info.cur \in alive /\ fds[info.cur] = Fds0[info.cur]
      BY <3>1 DEF SInv, Unchanged
    <3>3. Fds0[info.cur][fdname] # Closed /\ Fds0[info.cur][fdname].mode # "none"
      BY <1>0, <2>1, <3>1 DEF SInv, ReadOrWrite
    <3> QED BY <3>2, <3>3 DEF IsOpen, Lives, Fd, cur
  <2> QED BY <2>2, <2>3, AbortReason DEF Reason
<1> QED BY <1>1, <1>2, <1>3, <1>4, <1>5, <1>6, <1>7, <1>8 DEF Lister

LEMMA InitSteady ==
    ASSUME Init
    PROVE  SInv
BY Places DEF Init, SInv, Unchanged, Inside

LEMMA SteadyStep ==
    ASSUME TInv, SInv, [Next]_vars
    PROVE  SInv'
<1>1. CASE UNCHANGED vars \/ Finished
  BY <1>1 DEF Finished, vars, lister, world, SInv, Unchanged
<1>2. CASE Others
  BY <1>2, OthersSteady
<1>3. CASE Lister
  BY <1>3, ListerSteady
<1> QED BY <1>1, <1>2, <1>3 DEF Next

\* The lister gives up, with one of its calls of exit or in a regular expression
\* that does not compile, only for its options or because a process has changed
\* under its hands: nothing else, such as what an earlier process has left, makes
\* it fail.
THEOREM FailsForAReasonHolds ==
    ASSUME ReadOrWrite
    PROVE  Spec => []FailsForAReason
<1>1. Init => TInv /\ SInv /\ FailsForAReason
  BY InitTypes, InitSteady DEF Init, FailsForAReason
<1>2. TInv /\ SInv /\ FailsForAReason /\ [Next]_vars => (TInv /\ SInv /\ FailsForAReason)'
  <2> SUFFICES ASSUME TInv, SInv, FailsForAReason, [Next]_vars
               PROVE  FailsForAReason'
    BY TypeStep, SteadyStep
  <2>1. CASE UNCHANGED vars \/ Finished
    BY <2>1 DEF Finished, vars, lister, world, FailsForAReason
  <2>2. CASE Others
    <3>1. touched \subseteq touched' /\ UNCHANGED lister
      BY <2>2, OthersSteady, OthersTypes
    <3> QED BY <3>1 DEF FailsForAReason, lister
  <2>3. CASE Lister
    BY <2>3, FailStep, ListerMoves DEF FailsForAReason, Reason, world
  <2> QED BY <2>1, <2>2, <2>3 DEF Next
<1> QED BY <1>1, <1>2, PTL DEF Spec

-----------------------------------------------------------------------------
(* Lines that are right. *)

Readable == {p \in Pids : Proc[p].readable}
InMemory(p) == {Proc[p].exe} \cup {Proc[p].maps[k] : k \in DOMAIN Proc[p].maps}

\* What a listing needs to be right, and no more than that: struct info keeps the
\* user and the fields of the txt entry of an earlier process when this one has none,
\* fscanf and strtok cut names at spaces, an inode number goes through an int and
\* stands for a file, deleted files are known by the word in their name, and readFd
\* leaves a descriptor open for each process it can read.
Conditions ==
    /\ ReadOrWrite
    /\ \A p \in Pids :
         /\ Proc[p].user # "none" /\ Len(Proc[p].comm) = 1
         /\ Proc[p].readable => Proc[p].exe # NoFile
         /\ \A f \in {Proc[p].cwd, Proc[p].root, Proc[p].exe} \ {NoFile} : File[f].type # "unknown"
         /\ \A k \in DOMAIN Proc[p].maps :
                LET f == Proc[p].maps[k]
                IN  Len(File[f].path) = 1 /\ File[f].path[1] # "(deleted)" /\ f \notin Deleted0
         /\ \A f, g \in InMemory(p) \ {NoFile} : File[f].ino = File[g].ino => f = g
         /\ \A n \in FdNumbers :
                Fds0[p][n] # Closed =>
                    LET path == File[Fds0[p][n].file].path
                    IN  \A k \in DOMAIN path : path[k] # "(deleted)"
    /\ \A f \in Files : AsInt(File[f].ino) = File[f].ino
    /\ Cardinality(Readable) < MaxOpen

\* The lines of process p when the lister starts.
Name0(f) == IF f \in Deleted0 THEN File[f].path \o <<"(deleted)">> ELSE File[f].path

LinkOf(p, mode) ==
    CASE mode = "cwd" -> Proc[p].cwd
      [] mode = "root" -> Proc[p].root
      [] mode = "exe" -> Proc[p].exe

EntryLine(p, mode) ==
    LET f == LinkOf(p, mode)
    IN  IF Proc[p].readable
        THEN BaseLine(p, Entry[mode], -1, File[f].type, File[f].ino, Name0(f))
        ELSE DeniedLine(p, Entry[mode], mode)

MemLine0(p, f) == BaseLine(p, "mem", -1, "REG", File[f].ino, File[f].path)

MemLines(p) ==
    IF Proc[p].readable THEN {MemLine0(p, f) : f \in {g \in Mapped(p) : File[g].ino # 0}} ELSE {}

FdLine0(p, n) ==
    LET f == Fds0[p][n].file
        known == File[f].type # "unknown"
    IN  BaseLine(p, Fds0[p][n].mode, n, File[f].type, IF known THEN File[f].ino ELSE -1,
                 IF known THEN File[f].path ELSE <<>>)

NoFdLine(p) == BaseLine(p, "NOFD", -1, "none", -1, Refused("fd"))

FdLines(p) ==
    IF Proc[p].readable THEN {FdLine0(p, n) : n \in {m \in FdNumbers : Fds0[p][m] # Closed}}
    ELSE {NoFdLine(p)}

Listing0(p) ==
    {EntryLine(p, "cwd"), EntryLine(p, "root"), EntryLine(p, "exe")} \cup MemLines(p) \cup FdLines(p)

-----------------------------------------------------------------------------
(* The inductive invariant. *)

\* Descriptors are left for the processes that are still to come: open counts one for
\* each readable process that was looked at, and the stream of the current one.
Waiting == Cardinality(pids \cap Readable)
Total == Cardinality(Readable)
ThisOne == IF info.cur \in Readable THEN 1 ELSE 0

RoomLeft ==
    /\ pc \in {"getopt", "opendir"} => open = 0
    /\ pc = "readdir" => open + Waiting <= Total
    /\ pc \in Looking \ Scanning => open + Waiting + ThisOne <= Total
    /\ pc \in Links \cup {"fscanf", "maps", "fd"} => open + Waiting + ThisOne <= Total + 1
    /\ pc \in Reading \cup {"chdir_fd", "readdir_fd", "fclose"} => open + Waiting <= Total + 1

\* struct info holds what belongs to the current process, and to the entry that the
\* lister is at.
OwnFields ==
    /\ pc \in Looking \ {"stat"} => info.user = Proc[info.cur].user
    /\ pc \in Scanning \ {"fscanf"} => info.pid = info.cur /\ info.comm = Proc[info.cur].comm
    /\ pc \in {"cwd_link", "root_link", "exe_link"} => info.cur \in Readable

EntryFields ==
    info.cur \notin touched =>
        /\ pc = "maps" /\ info.cur \in Readable => info.node = File[Proc[info.cur].exe].ino
        /\ pc = "stat_fd" => info.name = Name0(Fds0[info.cur][fdname].file)
        /\ pc = "lstat_fd" =>
               LET f == Fds0[info.cur][fdname].file
               IN  /\ info.num = fdname /\ info.type = File[f].type /\ info.node = File[f].ino
                   /\ info.name = IF File[f].type = "unknown" THEN <<>> ELSE Name0(f)

\* The lines printed are right, and none is missing of the processes that were
\* looked at.
Right == \A l \in out : l.pid \in Pids \ touched => l \in Listing0(l.pid) /\ Asked(l)

Shown(l) == Asked(l) => l \in out

Complete ==
    /\ pc = "done" => pids = {}
    /\ pc \in Looking \cup {"readdir", "done"} =>
           \A p \in Pids \ (touched \cup pids) :
               (pc \in Looking /\ p = info.cur) \/ \A l \in Listing0(p) : Shown(l)

AfterCwd == Scanning \ {"fscanf", "cwd", "cwd_link"}
AfterRoot == AfterCwd \ {"root", "root_link"}
AfterExe == AfterRoot \ {"exe", "exe_link"}
AfterMaps == AfterExe \ {"maps"}

\* The lines of the current process, as far as the lister has got.
Progress ==
    info.cur \notin touched =>
        /\ pc \in AfterCwd => Shown(EntryLine(info.cur, "cwd"))
        /\ pc \in AfterRoot => Shown(EntryLine(info.cur, "root"))
        /\ pc \in AfterExe => Shown(EntryLine(info.cur, "exe"))
        /\ pc \in AfterMaps => \A l \in MemLines(info.cur) : Shown(l)
        /\ pc \in Reading =>
               \A n \in FdNumbers \ fdnames :
                   Fds0[info.cur][n] # Closed => Shown(FdLine0(info.cur, n))
        /\ pc \in Reading \cup {"chdir_fd", "readdir_fd"} => info.cur \in Readable
        /\ pc = "fclose" => \A l \in FdLines(info.cur) : Shown(l)

LInv == RoomLeft /\ OwnFields /\ EntryFields /\ Right /\ Complete /\ Progress

-----------------------------------------------------------------------------
(* Lines. *)

\* The files of a process are files, and its flags Boolean.
LEMMA ProcTypes ==
    ASSUME NEW p \in Pids
    PROVE  /\ Proc[p].readable \in BOOLEAN
           /\ Proc[p].cwd \in Files /\ Proc[p].root \in Files
           /\ Proc[p].exe \in Files \cup {NoFile} /\ NoFile \notin Files
           /\ Proc[p].maps \in Seq(Files)
           /\ \A n \in FdNumbers : Fds0[p][n] \in Descriptor
BY LsofAssumption

\* The name of a file of a process that stays as it is does not change.
LEMMA NameSame ==
    ASSUME SInv, NEW p \in Pids \ touched, NEW f \in Uses(p)
    PROVE  LinkName(f) = Name0(f) /\ (f \in deleted <=> f \in Deleted0)
BY DEF SInv, Unchanged, LinkName, Name0

\* The lines of such a process are those it had when the lister started.
LEMMA ListingSame ==
    ASSUME Conditions, SInv, NEW p \in Pids \ touched
    PROVE  Listing(p) = Listing0(p)
<1>0. fds[p] = Fds0[p]
  BY DEF SInv, Unchanged
<1>1. CASE Proc[p].readable
  <2>1. Entry["cwd"] = "cwd" /\ Entry["root"] = "rtd" /\ Entry["exe"] = "txt"
    BY DEF Entry
  <2>2. /\ LinkOf(p, "cwd") = Proc[p].cwd /\ LinkOf(p, "root") = Proc[p].root
        /\ LinkOf(p, "exe") = Proc[p].exe
    BY DEF LinkOf
  <2>3. {Proc[p].cwd, Proc[p].root, Proc[p].exe} \subseteq Uses(p)
    BY DEF Uses
  <2>4. \A f \in Uses(p) : LinkName(f) = Name0(f)
    BY NameSame
  <2>5. /\ FileLine(p, "cwd", Proc[p].cwd) = EntryLine(p, "cwd")
        /\ FileLine(p, "rtd", Proc[p].root) = EntryLine(p, "root")
        /\ FileLine(p, "txt", Proc[p].exe) = EntryLine(p, "exe")
    BY <1>1, <2>1, <2>2, <2>3, <2>4 DEF FileLine, EntryLine
  <2>6. Proc[p].exe # NoFile
    BY <1>1 DEF Conditions
  <2>7. {FileLine(p, "txt", f) : f \in {Proc[p].exe} \ {NoFile}} = {EntryLine(p, "exe")}
    BY <2>5, <2>6
  <2>8. {MemLine(p, f) : f \in {g \in Mapped(p) : File[g].ino # 0}} = MemLines(p)
    <3>1. ASSUME NEW f \in Mapped(p)
          PROVE  MemLine(p, f) = MemLine0(p, f)
      <4>1. f \in Uses(p) /\ f \notin Deleted0
        BY <3>1 DEF Mapped, Uses, Conditions
      <4> QED BY <4>1, NameSame DEF MemLine, MemLine0
    <3> QED BY <1>1, <3>1 DEF MemLines
  <2>9. {FdLine(p, n) : n \in {m \in FdNumbers : fds[p][m] # Closed}} = FdLines(p)
    BY <1>0, <1>1 DEF FdLine, FdLine0, FdLines
  <2> QED BY <1>1, <2>5, <2>7, <2>8, <2>9 DEF Listing, Listing0
<1>2. CASE ~Proc[p].readable
  <2>1. Entry["cwd"] = "cwd" /\ Entry["root"] = "rtd" /\ Entry["exe"] = "txt"
    BY DEF Entry
  <2>2. /\ EntryLine(p, "cwd") = DeniedLine(p, "cwd", "cwd")
        /\ EntryLine(p, "root") = DeniedLine(p, "rtd", "root")
        /\ EntryLine(p, "exe") = DeniedLine(p, "txt", "exe")
    BY <1>2, <2>1 DEF EntryLine
  <2> QED BY <1>2, <2>2 DEF Listing, Listing0, MemLines, FdLines, NoFdLine
<1> QED BY <1>1, <1>2

\* Line l is shown after the step.
NowShown(l) == Asked(l) => l \in out'

LEMMA ShownKept ==
    ASSUME UNCHANGED opt, out \subseteq out'
    PROVE  /\ \A l : Asked(l)' <=> Asked(l)
           /\ \A l : (Shown(l) => NowShown(l)) /\ (NowShown(l) => Shown(l)')
BY DEF Asked, Shown, NowShown

\* The filters of print_pinfo let through the lines that are asked for.
LEMMA PassesIsAsked ==
    ASSUME NEW i
    PROVE  /\ Passes(i) => Asked(Line(i))
           /\ Asked(Line(i)) /\ ~Aborts(i) => Passes(i)
           /\ Line(i).pid = i.pid
<1>1. Line(i).type = i.type /\ Line(i).comm = i.comm /\ Line(i).name = i.name /\ Line(i).pid = i.pid
  BY DEF Line
<1> QED BY <1>1 DEF Passes, Asked, Filtered

\* A line that is printed leaves the listing right when it is a line of its process,
\* and is shown unless the program ends there.
LEMMA PrintRight ==
    ASSUME Right, UNCHANGED <<opt, touched>>, NEW i, NEW next, next # "failed",
           print_pinfo(i, next),
           i.pid \in Pids \ touched => Line(i) \in Listing0(i.pid)
    PROVE  /\ Right' /\ out \subseteq out' /\ info' = i
           /\ pc' = next => NowShown(Line(i))
<1>1. out' \subseteq out \cup {Line(i)} /\ out \subseteq out' /\ info' = i
  BY DEF print_pinfo
<1>2. Line(i) \in out' => Line(i) \in out \/ Asked(Line(i))
  BY PassesIsAsked DEF print_pinfo
<1>3. \A l : Asked(l)' <=> Asked(l)
  BY <1>1, ShownKept
<1>4. Right'
  <2> SUFFICES ASSUME NEW l \in out', l.pid \in Pids \ touched
               PROVE  l \in Listing0(l.pid) /\ Asked(l)
    BY <1>3 DEF Right
  <2>1. CASE l \in out
    BY <2>1 DEF Right
  <2>2. CASE l \notin out
    BY <1>1, <1>2, <2>2, PassesIsAsked
  <2> QED BY <2>1, <2>2
<1>5. pc' = next => NowShown(Line(i))
  <2>1. pc' = next => ~Aborts(i)
    BY DEF print_pinfo
  <2>2. pc' = next /\ Asked(Line(i)) => Line(i) \in out'
    BY <2>1, PassesIsAsked DEF print_pinfo
  <2> QED BY <2>2 DEF NowShown
<1> QED BY <1>1, <1>4, <1>5

-----------------------------------------------------------------------------
(* The descriptors that are left. *)

LEMMA Sums ==
    ASSUME NEW o \in Nat, NEW p \in Nat, NEW w \in Nat, NEW v \in Nat, NEW t \in Nat, NEW m \in Nat
    PROVE  /\ o = 0 /\ w <= m => o + w <= m
           /\ w = v + t /\ o + w <= m => o + v + t <= m
           /\ o + w + t <= m => o + w <= m /\ o + w + t <= m + 1 /\ (p = o + 1 => p + w + t <= m + 1)
OBVIOUS

LEMMA Counts ==
    ASSUME NEW S, S \subseteq Pids
    PROVE  /\ IsFiniteSet(S \cap Readable) /\ Cardinality(S \cap Readable) \in Nat
           /\ Total \in Nat /\ Cardinality(S \cap Readable) <= Total
<1>1. IsFiniteSet(Readable)
  BY Limits, FS_Subset DEF Readable
<1>2. IsFiniteSet(S \cap Readable) /\ Cardinality(S \cap Readable) <= Cardinality(Readable)
  BY <1>1, FS_Subset
<1> QED BY <1>1, <1>2, FS_CardinalityType DEF Total

\* Taking the next entry of /proc.
LEMMA NextEntry ==
    ASSUME NEW S, S \subseteq Pids, NEW p \in S
    PROVE  Cardinality(S \cap Readable)
               = Cardinality((S \ {p}) \cap Readable) + (IF p \in Readable THEN 1 ELSE 0)
<1>1. /\ IsFiniteSet(S \cap Readable) /\ Cardinality(S \cap Readable) \in Nat
      /\ Cardinality((S \ {p}) \cap Readable) \in Nat
  BY Counts
<1>2. CASE p \in Readable
  <2> DEFINE A == S \cap Readable
             B == (S \ {p}) \cap Readable
  <2>1. B = A \ {p} /\ p \in A
    BY <1>2
  <2>2. IsFiniteSet(A) /\ Cardinality(A) \in Nat
    BY <1>1
  <2> HIDE DEF A, B
  <2>3. Cardinality(B) = Cardinality(A) - 1
    BY <2>1, <2>2, FS_RemoveElement
  <2>4. Cardinality(A) = Cardinality(B) + 1
    BY <2>2, <2>3
  <2> QED BY <1>2, <2>4 DEF A, B
<1>3. CASE p \notin Readable
  <2>1. (S \ {p}) \cap Readable = S \cap Readable
    BY <1>3
  <2> QED BY <1>1, <1>3, <2>1
<1> QED BY <1>2, <1>3

LEMMA WalkRoom ==
    ASSUME TInv, RoomLeft, getopt \/ opendir \/ readdir \/ stat_pid \/ chdir \/ fopen_stat \/ fclose
    PROVE  RoomLeft'
<1>0. /\ Waiting \in Nat /\ Total \in Nat /\ Waiting' \in Nat /\ Waiting' <= Total
      /\ open \in Nat /\ open' \in Nat
  <2>1. TInv'
    BY WalkTypes
  <2>2. pids \subseteq Pids /\ pids' \subseteq Pids
    BY <2>1 DEF TInv, TypeOK
  <2>a. MaxOpen \in Nat /\ open \in 0..MaxOpen /\ open' \in 0..MaxOpen
    BY <2>1, Limits DEF TInv, TypeOK
  <2>3. open \in Nat /\ open' \in Nat
    BY <2>a
  <2> QED BY <2>2, <2>3, Counts DEF Waiting
<1>a. ThisOne \in Nat /\ ThisOne' \in Nat
  BY DEF ThisOne
<1>1. CASE getopt
  BY <1>1, Places DEF getopt, RoomLeft
<1>2. CASE opendir
  <2>1. pc' = "readdir" /\ open' = 0
    BY <1>2 DEF opendir, RoomLeft
  <2>2. open' + Waiting' <= Total
    BY <1>0, <2>1, Sums
  <2> QED BY <2>1, <2>2, Places DEF RoomLeft
<1>3. CASE readdir
  <2>1. CASE pc' = "done"
    BY <2>1, Places DEF RoomLeft
  <2>2. CASE pc' # "done"
    <3>1. /\ pids # {} /\ info'.cur = Min(pids) /\ pids' = pids \ {Min(pids)} /\ pc' = "stat"
          /\ open' = open /\ open + Waiting <= Total
      BY <1>3, <2>2 DEF readdir, RoomLeft, TInv, IsInfo, Fields
    <3>2. Min(pids) \in pids /\ pids \subseteq Pids
      BY <3>1, MinIn, TypesOf, Limits
    <3>3. Waiting = Waiting' + ThisOne'
      BY <3>1, <3>2, NextEntry DEF Waiting, ThisOne
    <3>4. open' + Waiting' + ThisOne' <= Total
      BY <1>0, <1>a, <3>1, <3>3, Sums
    <3> QED BY <3>1, <3>4, Places DEF RoomLeft
  <2> QED BY <2>1, <2>2
<1>4. CASE stat_pid \/ chdir
  <2>1. /\ UNCHANGED <<open, pids>> /\ pc \in Looking \ Scanning
        /\ pc' \in {"chdir", "fopen", "readdir"}
    BY <1>4, Places DEF stat_pid, chdir
  <2>2. ThisOne' = ThisOne /\ Waiting' = Waiting
    BY <1>4, <2>1 DEF stat_pid, chdir, getUserName, ThisOne, Waiting, TInv, IsInfo, Fields
  <2>a. open + Waiting + ThisOne <= Total
    BY <2>1 DEF RoomLeft
  <2>3. open' + Waiting' + ThisOne' <= Total /\ open' + Waiting' <= Total
    BY <1>0, <1>a, <2>1, <2>2, <2>a
  <2> QED BY <2>1, <2>3, Places DEF RoomLeft
<1>5. CASE fopen_stat
  <2>1. /\ UNCHANGED <<info, pids>> /\ pc \in Looking \ Scanning
        /\ \/ pc' = "fscanf" /\ open' = open + 1
           \/ pc' = "readdir" /\ open' = open
    BY <1>5, Places DEF fopen_stat
  <2>2. ThisOne' = ThisOne /\ Waiting' = Waiting
    BY <2>1 DEF ThisOne, Waiting
  <2>a. open + Waiting + ThisOne <= Total
    BY <2>1 DEF RoomLeft
  <2>b. open' = open + 1 \/ open' = open
    BY <2>1
  <2>c. open' + Waiting' + ThisOne' <= Total + 1
    BY <1>0, <1>a, <2>2, <2>a, <2>b, Sums
  <2>d. open' = open => open' + Waiting' <= Total
    BY <1>0, <1>a, <2>2, <2>a
  <2>3. /\ pc' = "fscanf" => open' + Waiting' + ThisOne' <= Total + 1
        /\ pc' = "readdir" => open' + Waiting' <= Total
    BY <2>1, <2>c, <2>d
  <2> QED BY <2>1, <2>3, Places DEF RoomLeft
<1>6. CASE fclose
  <2>1. pc' = "readdir" /\ open' = open - 1 /\ open + Waiting <= Total + 1 /\ UNCHANGED pids
    BY <1>6 DEF fclose, RoomLeft
  <2>2. open' + Waiting' <= Total
    BY <1>0, <2>1 DEF Waiting
  <2> QED BY <2>1, <2>2, Places DEF RoomLeft
<1> QED BY <1>1, <1>2, <1>3, <1>4, <1>5, <1>6

\* Steps between the links, and within the descriptors, take no descriptor.
LEMMA InnerRoom ==
    ASSUME TInv, RoomLeft, UNCHANGED <<open, pids>>, info'.cur = info.cur,
           \/ /\ pc \in Links \cup {"fscanf", "maps", "fd"}
              /\ pc' \in Links \cup {"fscanf", "maps", "fd", "failed", "fclose"}
           \/ /\ pc \in Reading \cup {"chdir_fd", "readdir_fd"}
              /\ pc' \in Reading \cup {"chdir_fd", "readdir_fd", "fclose", "failed"}
    PROVE  RoomLeft'
<1>0. /\ Waiting \in Nat /\ Total \in Nat /\ open \in Nat
      /\ ThisOne \in Nat /\ ThisOne' = ThisOne /\ Waiting' = Waiting
  <2>1. pids \subseteq Pids
    BY TypesOf
  <2>a. MaxOpen \in Nat /\ open \in 0..MaxOpen
    BY Limits, TypesOf
  <2>2. open \in Nat
    BY <2>a
  <2> QED BY <2>1, <2>2, Counts DEF Waiting, ThisOne
<1>1. CASE pc \in Links \cup {"fscanf", "maps", "fd"}
  <2>1. open + Waiting + ThisOne <= Total + 1
    BY <1>1 DEF RoomLeft
  <2>2. open' + Waiting' + ThisOne' <= Total + 1 /\ open' + Waiting' <= Total + 1
    BY <1>0, <2>1
  <2>3. pc' \in Links \cup {"fscanf", "maps", "fd", "failed", "fclose"}
    BY <1>1, Places
  <2> QED BY <2>2, <2>3, Places DEF RoomLeft
<1>2. CASE pc \in Reading \cup {"chdir_fd", "readdir_fd"}
  <2>1. open' + Waiting' <= Total + 1
    BY <1>0, <1>2 DEF RoomLeft
  <2>2. pc' \in Reading \cup {"chdir_fd", "readdir_fd", "fclose", "failed"}
    BY <1>2, Places
  <2> QED BY <2>1, <2>2, Places DEF RoomLeft
<1> QED BY <1>1, <1>2

\* Opening the directory of descriptors takes the one that was counted for the process.
LEMMA FdRoom ==
    ASSUME TInv, RoomLeft, readFd_opendir
    PROVE  RoomLeft'
<1>1. info'.cur = info.cur /\ UNCHANGED pids /\ pc = "fd" /\ info.cur \in Pids
  BY ScanTypes, TypesOf, Places DEF readFd_opendir
<1>2. CASE UNCHANGED open
  <2>1. pc' \in {"fclose", "failed"}
    <3>1. open \in 0..MaxOpen /\ MaxOpen \in Nat
      BY TypesOf, Limits
    <3>2. open' # open + 1
      BY <1>2, <3>1
    <3> QED BY <3>2 DEF readFd_opendir, print_pinfo
  <2> QED BY <1>1, <1>2, <2>1, InnerRoom
<1>3. CASE open' # open
  <2>1. pc' = "chdir_fd" /\ open' = open + 1 /\ ThisOne = 1
    BY <1>1, <1>3 DEF readFd_opendir, ThisOne, Readable, cur
  <2>2. open + Waiting + ThisOne <= Total + 1 /\ Waiting' = Waiting
    BY <1>1 DEF RoomLeft, Waiting
  <2>3. open \in 0..MaxOpen /\ MaxOpen \in Nat /\ Waiting \in Nat /\ Total \in Nat
    BY TypesOf, Limits, Counts DEF Waiting
  <2>4. open' + Waiting' <= Total + 1
    BY <2>1, <2>2, <2>3
  <2> QED BY <2>1, <2>4, Places DEF RoomLeft
<1> QED BY <1>2, <1>3

\* The places of the lister between two steps of a process.
LEMMA InnerMoves ==
    ASSUME TInv, \/ fscanf \/ readMem \/ readFd_chdir
                 \/ readFd_readdir \/ readFd_readlink \/ readFd_stat \/ readFd_lstat
                 \/ \E mode \in {"cwd", "root", "exe"} :
                        getMeta_stat(mode) \/ getMeta_readlink(mode)
    PROVE  /\ UNCHANGED <<open, pids>> /\ info'.cur = info.cur
           /\ \/ /\ pc \in Links \cup {"fscanf", "maps", "fd"}
                 /\ pc' \in Links \cup {"fscanf", "maps", "fd", "failed", "fclose"}
              \/ /\ pc \in Reading \cup {"chdir_fd", "readdir_fd"}
                 /\ pc' \in Reading \cup {"chdir_fd", "readdir_fd", "fclose", "failed"}
<1>1. CASE fscanf \/ readMem \/ readFd_chdir
  <2>1. info'.cur = info.cur
    BY <1>1, ScanTypes
  <2> QED BY <1>1, <2>1, Places DEF fscanf, readMem, readFd_chdir
<1>2. CASE readFd_readdir \/ readFd_readlink \/ readFd_stat \/ readFd_lstat
  <2>1. info'.cur = info.cur
    BY <1>2, FdTypes
  <2> QED BY <1>2, <2>1, Places
          DEF readFd_readdir, readFd_readlink, readFd_stat, readFd_lstat, print_pinfo
<1>3. ASSUME NEW mode \in {"cwd", "root", "exe"}, getMeta_stat(mode) \/ getMeta_readlink(mode)
      PROVE  /\ UNCHANGED <<open, pids>> /\ info'.cur = info.cur
             /\ pc \in Links /\ pc' \in Links \cup {"maps", "failed"}
  <2>1. info'.cur = info.cur /\ pc' \in {"failed", Opened[mode], After[mode]}
    BY <1>3, MetaTypes
  <2>2. mode \in Links /\ Opened[mode] \in Links /\ After[mode] \in Links \cup {"maps"}
    BY Places DEF Opened, After
  <2> QED BY <1>3, <2>1, <2>2 DEF getMeta_stat, getMeta_readlink
<1> QED BY <1>1, <1>2, <1>3

LEMMA RoomStep ==
    ASSUME TInv, RoomLeft, Lister
    PROVE  RoomLeft'
BY WalkRoom, FdRoom, InnerMoves, InnerRoom DEF Lister

\* Where a descriptor is needed there is one.
LEMMA RoomThere ==
    ASSUME Conditions, TInv, RoomLeft
    PROVE  /\ pc = "fopen" => Room
           /\ pc \in {"maps", "fd"} /\ info.cur \in Readable => Room
<1>1. open \in 0..MaxOpen /\ MaxOpen \in Nat /\ Waiting \in Nat /\ Total \in Nat /\ Total < MaxOpen
  BY TypesOf, Limits, Counts DEF Waiting, Total, Conditions
<1>2. ThisOne \in Nat /\ (info.cur \in Readable => ThisOne = 1)
  BY DEF ThisOne
<1>3. pc = "fopen" => open + Waiting + ThisOne <= Total
  BY Places DEF RoomLeft
<1>4. pc \in {"maps", "fd"} => open + Waiting + ThisOne <= Total + 1
  BY DEF RoomLeft
<1>5. open + Waiting + ThisOne <= Total => open < MaxOpen
  BY <1>1, <1>2
<1>6. open + Waiting + ThisOne <= Total + 1 /\ ThisOne = 1 => open < MaxOpen
  BY <1>1, <1>2
<1> QED BY <1>2, <1>3, <1>4, <1>5, <1>6 DEF Room

-----------------------------------------------------------------------------
(* What struct info holds. *)

\* i is about the same process as struct info.
Kept(i) == i.cur = info.cur /\ i.pid = info.pid /\ i.comm = info.comm /\ i.user = info.user

LEMMA EntryKept ==
    ASSUME NEW i, IsInfo(i), NEW mode
    PROVE  LET j == AsEntry(i, mode)
           IN  /\ j.cur = i.cur /\ j.pid = i.pid /\ j.comm = i.comm /\ j.user = i.user
               /\ j.fd = Entry[mode] /\ j.num = -1
               /\ j.type = i.type /\ j.node = i.node /\ j.name = i.name
BY DEF AsEntry, IsInfo, Fields

\* What a step for cwd, root or exe prints is the line of that entry.
LEMMA MetaLine ==
    ASSUME Conditions, TInv, SInv, OwnFields, NEW mode \in {"cwd", "root", "exe"},
           getMeta_stat(mode) \/ getMeta_readlink(mode)
    PROVE  \/ pc' = "failed" /\ UNCHANGED <<info, out>>
           \/ /\ pc' = Opened[mode] /\ UNCHANGED <<info, out>> /\ info.cur \in Readable
           \/ \E i : /\ print_pinfo(i, After[mode]) /\ Kept(i)
                     /\ info.cur \notin touched =>
                          /\ Line(i) = EntryLine(info.cur, mode)
                          /\ info.cur \in Readable => i.node = File[LinkOf(info.cur, mode)].ino
<1> DEFINE Good == \E i : /\ print_pinfo(i, After[mode]) /\ Kept(i)
                          /\ info.cur \notin touched =>
                               /\ Line(i) = EntryLine(info.cur, mode)
                               /\ info.cur \in Readable => i.node = File[LinkOf(info.cur, mode)].ino
<1>0. mode \in Scanning \ Reading /\ Opened[mode] \in Scanning \ Reading /\ mode # "fscanf" /\ Opened[mode] # "fscanf"
      /\ mode # "stat" /\ Opened[mode] # "stat"
  BY MetaPlaces DEF Opened, Scanning, Links, Reading
<1>1. /\ info.cur \in Pids /\ IsInfo(info) /\ info.user = Proc[info.cur].user
      /\ info.pid = info.cur /\ info.comm = Proc[info.cur].comm
  BY <1>0, TypesOf, Places DEF getMeta_stat, getMeta_readlink, OwnFields
<1>2. info.cur \notin touched => Lives
  BY <1>1 DEF SInv, Unchanged, Lives, cur
<1>3. Link(mode) = LinkOf(info.cur, mode)
  BY DEF Link, LinkOf, cur
<1>4. CASE Lives /\ ~Proc[cur].readable /\ print_pinfo(AsEntry(Denied(info, mode), mode), After[mode])
  <2> DEFINE d == Denied(info, mode)
             i == AsEntry(d, mode)
  <2>1. IsInfo(d) /\ Kept(d) /\ d.type = "unknown" /\ d.node = -1 /\ d.name = Refused(mode)
    BY <1>1 DEF Denied, IsInfo, Fields, Kept
  <2> HIDE DEF d
  <2>2. Kept(i) /\ i.fd = Entry[mode] /\ i.num = -1 /\ i.type = "unknown" /\ i.node = -1 /\ i.name = Refused(mode)
    BY <2>1, EntryKept DEF Kept
  <2>3. print_pinfo(i, After[mode])
    BY <1>4 DEF d
  <2> HIDE DEF i
  <2>4. Line(i) = EntryLine(info.cur, mode) /\ info.cur \notin Readable
    BY <1>1, <1>4, <2>2 DEF Line, EntryLine, DeniedLine, BaseLine, Kept, Readable, cur
  <2>5. Good
    BY <2>2, <2>3, <2>4
  <2> QED BY <2>5
<1>5. CASE /\ ~Lives \/ (Proc[cur].readable /\ Link(mode) = NoFile)
           /\ print_pinfo(AsEntry(info, mode), After[mode])
  <2>1. Kept(AsEntry(info, mode))
    BY <1>1, EntryKept DEF Kept
  <2>2. Proc[cur].readable => Link(mode) # NoFile
    BY <1>1, <1>3, ProcTypes DEF Conditions, LinkOf, cur
  <2>3. info.cur \in touched
    BY <1>2, <1>5, <2>2
  <2>4. Good
    BY <1>5, <2>1, <2>3
  <2> QED BY <2>4
<1>6. CASE getMeta_readlink(mode) /\ Lives
  <2> DEFINE f == Link(mode)
             d == [info EXCEPT !.node = AsInt(File[f].ino), !.type = File[f].type, !.name = LinkName(f)]
             i == AsEntry(d, mode)
  <2>1. print_pinfo(i, After[mode]) /\ pc = Opened[mode]
    BY <1>6 DEF getMeta_readlink
  <2>2. IsInfo(d) /\ Kept(d) /\ d.type = File[f].type /\ d.node = AsInt(File[f].ino) /\ d.name = LinkName(f)
    BY <1>1 DEF IsInfo, Fields, Kept
  <2> HIDE DEF d
  <2>3. /\ Kept(i) /\ i.fd = Entry[mode] /\ i.num = -1 /\ i.type = File[f].type
        /\ i.node = AsInt(File[f].ino) /\ i.name = LinkName(f)
    BY <2>2, EntryKept DEF Kept
  <2>4. info.cur \in Readable
    BY <2>1 DEF OwnFields, Opened
  <2>5. f \in Files /\ f \in Uses(info.cur) /\ File[f].type # "unknown"
    <3>1. f \in {Proc[info.cur].cwd, Proc[info.cur].root, Proc[info.cur].exe} /\ f # NoFile
      BY <1>1, <1>3, <2>4, ProcTypes DEF Conditions, LinkOf, Readable
    <3> QED BY <1>1, <3>1, ProcTypes DEF Conditions, Uses
  <2>6. AsInt(File[f].ino) = File[f].ino
    BY <2>5 DEF Conditions
  <2>7. info.cur \notin touched => LinkName(f) = Name0(f)
    BY <1>1, <2>5, NameSame
  <2>8. f = LinkOf(info.cur, mode)
    BY <1>3
  <2> HIDE DEF i, f
  <2>9. info.cur \notin touched => Line(i) = EntryLine(info.cur, mode)
    BY <1>1, <2>3, <2>4, <2>5, <2>6, <2>7, <2>8 DEF Line, EntryLine, BaseLine, Kept, Readable
  <2>10. Good
    BY <2>1, <2>3, <2>6, <2>8, <2>9
  <2> QED BY <2>10
<1>7. getMeta_readlink(mode) /\ ~Lives => pc' = "failed" /\ UNCHANGED <<info, out>>
  BY DEF getMeta_readlink
<1>8. getMeta_stat(mode) /\ Lives /\ Proc[cur].readable /\ Link(mode) # NoFile
          => pc' = Opened[mode] /\ UNCHANGED <<info, out>> /\ info.cur \in Readable
  BY <1>1 DEF getMeta_stat, Readable, cur
<1>9. getMeta_stat(mode) =>
        \/ Lives /\ Proc[cur].readable /\ Link(mode) # NoFile
        \/ Lives /\ ~Proc[cur].readable /\ print_pinfo(AsEntry(Denied(info, mode), mode), After[mode])
        \/ /\ ~Lives \/ (Proc[cur].readable /\ Link(mode) = NoFile)
           /\ print_pinfo(AsEntry(info, mode), After[mode])
  BY DEF getMeta_stat
<1> QED BY <1>4, <1>5, <1>6, <1>7, <1>8, <1>9

LEMMA OneWord ==
    ASSUME NEW S, NEW path \in Seq(S), Len(path) = 1
    PROVE  <<path[1]>> = path
OBVIOUS

LEMMA MemKept ==
    ASSUME TInv, NEW k
    PROVE  Kept(MemEntry(k)) /\ Kept([info EXCEPT !.type = "REG"])
BY TypesOf DEF MemEntry, IsInfo, Fields, Kept

\* The entry of a mapped file is its line.
LEMMA MemEntryLine ==
    ASSUME Conditions, TInv, SInv, info.cur \in Pids \ touched,
           info.pid = info.cur, info.comm = Proc[info.cur].comm, info.user = Proc[info.cur].user,
           NEW k \in DOMAIN maps
    PROVE  /\ maps[k] \in Files /\ maps[k] \in InMemory(info.cur) /\ Node(k) = File[maps[k]].ino
           /\ Line(MemEntry(k)) = MemLine0(info.cur, maps[k])
<1> DEFINE f == maps[k]
           path == File[f].path
<1>1. /\ maps = Proc[info.cur].maps /\ maps \in Seq(Files)
  BY ProcTypes DEF maps, cur
<1>2. f \in Files
  BY <1>1
<1>3. f \in Uses(info.cur) /\ f \in InMemory(info.cur)
  BY <1>1 DEF Uses, InMemory
<1>4. Len(path) = 1 /\ path[1] # "(deleted)" /\ f \notin Deleted0
  BY <1>1 DEF Conditions
<1>5. path \in Seq(Word) /\ AsInt(File[f].ino) = File[f].ino
  BY <1>2, LsofAssumption DEF Conditions
<1>6. LinkName(f) = path
  BY <1>3, <1>4, NameSame DEF Name0
<1>7. Node(k) = File[f].ino
  BY <1>5 DEF Node
<1> DEFINE i == MemEntry(k)
<1>8. /\ i.fd = "mem" /\ i.num = -1 /\ i.type = "REG" /\ i.node = File[f].ino /\ i.name = <<path[1]>>
  <2>1. IsInfo(info)
    BY TypesOf
  <2> HIDE DEF path, f
  <2>2. <<path[1]>>[1] # "(deleted)"
    BY <1>4
  <2> DEFINE name == <<LinkName(maps[k])[1]>>
  <2>3. name = <<path[1]>> /\ name[1] # "(deleted)"
    BY <1>6, <2>2 DEF f
  <2> HIDE DEF name
  <2>4. i = [info EXCEPT !.fd = IF name[1] = "(deleted)" THEN "DEL" ELSE "mem",
                         !.num = -1, !.type = "REG", !.node = Node(k), !.name = name]
    BY DEF MemEntry, name
  <2> QED BY <1>7, <2>1, <2>3, <2>4 DEF IsInfo, Fields
<1>9. i.pid = info.cur /\ i.comm = Proc[info.cur].comm /\ i.user = Proc[info.cur].user
  BY MemKept DEF Kept
<1>10. i.name = path
  BY <1>4, <1>5, <1>8, OneWord
<1> HIDE DEF i, path
<1>11. Line(i) = MemLine0(info.cur, f)
  BY <1>8, <1>9, <1>10 DEF Line, MemLine0, BaseLine, path
<1> QED BY <1>2, <1>3, <1>7, <1>11 DEF i

\* readMem shows each mapped file once, except the one that the txt entry has shown.
LEMMA MemShown ==
    ASSUME Conditions, TInv, SInv, RoomLeft, OwnFields, EntryFields, Right, readMem
    PROVE  /\ Right' /\ out \subseteq out' /\ Kept(info') /\ pc' \in {"fd", "failed"}
           /\ pc' = "fd" /\ info.cur \notin touched => \A l \in MemLines(info.cur) : NowShown(l)
<1> DEFINE shown == IF Lives /\ Proc[cur].readable /\ Room
                    THEN {k \in DOMAIN maps : Node(k) # 0 /\ ~InDict(k)} ELSE {}
<1>1. /\ out' = out \cup {Line(MemEntry(k)) : k \in {m \in shown : Passes(MemEntry(m))}}
      /\ pc' = IF \E k \in shown : Aborts(MemEntry(k)) THEN "failed" ELSE "fd"
      /\ info' \in {MemEntry(Max(shown)), [info EXCEPT !.type = "REG"]}
      /\ UNCHANGED <<opt, touched>> /\ pc = "maps"
  BY DEF readMem, world
<1>2. Kept(info')
  BY <1>1, MemKept
<1>3. /\ info.cur \in Pids /\ info.user = Proc[info.cur].user
      /\ info.pid = info.cur /\ info.comm = Proc[info.cur].comm
  <2>1. "maps" \in Scanning \ {"fscanf"} /\ "maps" \in Looking \ {"stat"}
    BY Places
  <2> QED BY <1>1, <2>1, TypesOf DEF OwnFields
<1>4. out \subseteq out' /\ \A l : Asked(l)' <=> Asked(l)
  BY <1>1, ShownKept
<1>5. CASE info.cur \in touched
  <2>1. \A k : Line(MemEntry(k)).pid = info.cur
    BY <1>3, MemKept, PassesIsAsked DEF Kept
  <2>2. Right'
    BY <1>1, <1>4, <1>5, <2>1 DEF Right
  <2> HIDE DEF shown
  <2> QED BY <1>1, <1>2, <1>4, <1>5, <2>2
<1>6. CASE info.cur \notin touched
  <2>1. \A k \in DOMAIN maps :
            /\ maps[k] \in Files /\ maps[k] \in InMemory(info.cur) /\ Node(k) = File[maps[k]].ino
            /\ Line(MemEntry(k)) = MemLine0(info.cur, maps[k])
    BY <1>3, <1>6, MemEntryLine
  <2>2. info.cur \in Readable =>
           /\ info.node = File[Proc[info.cur].exe].ino
           /\ Proc[info.cur].exe \in InMemory(info.cur) \ {NoFile}
    BY <1>1, <1>3, <1>6 DEF EntryFields, InMemory, Conditions, Readable
  <2>3. \A f, g \in InMemory(info.cur) \ {NoFile} : File[f].ino = File[g].ino => f = g
    BY <1>3 DEF Conditions
  <2>4. shown # {} => info.cur \in Readable
    BY <1>3 DEF Readable, cur
  <2>5. info.cur \in Readable => shown = {k \in DOMAIN maps : Node(k) # 0 /\ ~InDict(k)}
    BY <1>1, <1>3, <1>6, RoomThere DEF Readable, cur, SInv, Unchanged, Lives
  <2>6. maps = Proc[info.cur].maps /\ maps \in Seq(Files) /\ NoFile \notin Files
    BY <1>3, ProcTypes DEF maps, cur
  <2>7. shown \subseteq DOMAIN maps /\ \A k \in shown : Node(k) # 0 /\ ~InDict(k)
    OBVIOUS
  <2> HIDE DEF shown
  <2>8. \A k \in shown : Line(MemEntry(k)) \in MemLines(info.cur)
    <3> SUFFICES ASSUME NEW k \in shown
                 PROVE  Line(MemEntry(k)) \in MemLines(info.cur)
      OBVIOUS
    <3>1. info.cur \in Readable /\ k \in DOMAIN maps /\ Node(k) # 0 /\ Node(k) # info.node
      BY <2>4, <2>7 DEF InDict
    <3>2. maps[k] # Proc[info.cur].exe /\ File[maps[k]].ino # 0
      BY <2>1, <2>2, <3>1
    <3>3. maps[k] \in Mapped(info.cur)
      BY <2>6, <3>1, <3>2 DEF Mapped
    <3> QED BY <2>1, <3>1, <3>2, <3>3 DEF MemLines, Readable
  <2>9. Right'
    <3>1. \A l : l.pid = info.cur /\ l \in MemLines(info.cur) => l \in Listing0(l.pid)
      BY DEF Listing0
    <3>2. \A k : Line(MemEntry(k)).pid = info.cur
      BY <1>3, MemKept, PassesIsAsked DEF Kept
    <3>3. \A l \in out' : l \in out \/ (l \in Listing0(l.pid) /\ Asked(l))
      BY <1>1, <2>8, <3>1, <3>2, PassesIsAsked
    <3> QED BY <1>1, <1>4, <3>3 DEF Right
  <2>10. ASSUME pc' = "fd", NEW l \in MemLines(info.cur)
         PROVE  NowShown(l)
    <3>1. info.cur \in Readable
      BY <1>3, <2>10 DEF MemLines, Readable
    <3>2. PICK f \in Mapped(info.cur) : File[f].ino # 0 /\ l = MemLine0(info.cur, f)
      BY <2>10 DEF MemLines
    <3> DEFINE K == {k \in DOMAIN maps : maps[k] = f}
    <3>3. K # {} /\ K \subseteq Nat /\ f # Proc[info.cur].exe
      BY <2>6, <3>2 DEF Mapped
    <3> DEFINE k == Min(K)
    <3>4. k \in K /\ \A j \in K : k <= j
      BY <3>3, MinIn
    <3> HIDE DEF k
    <3>5. k \in DOMAIN maps /\ maps[k] = f /\ k \in Nat
      BY <3>3, <3>4
    <3>6. f \in InMemory(info.cur) \ {NoFile} /\ Node(k) = File[f].ino
      BY <2>1, <2>6, <3>5
    <3>7. Node(k) # info.node
      BY <2>2, <2>3, <3>1, <3>3, <3>6
    <3>8. ASSUME NEW j \in 1..(k - 1)
          PROVE  Node(j) # Node(k)
      <4>1. j \in DOMAIN maps /\ j < k /\ j \in Nat
        BY <2>6, <3>5, <3>8
      <4>2. j \notin K
        BY <3>4, <3>5, <4>1
      <4>3. maps[j] # f /\ maps[j] \in InMemory(info.cur) \ {NoFile} /\ Node(j) = File[maps[j]].ino
        BY <2>1, <2>6, <4>1, <4>2
      <4> QED BY <2>3, <3>6, <4>3
    <3>9. k \in shown
      BY <2>5, <3>1, <3>2, <3>5, <3>6, <3>7, <3>8 DEF InDict
    <3>10. ~Aborts(MemEntry(k)) /\ l = Line(MemEntry(k))
      BY <1>1, <2>1, <2>10, <3>2, <3>5, <3>9
    <3>11. Asked(l) => l \in out'
      BY <1>1, <3>9, <3>10, PassesIsAsked
    <3> QED BY <3>11 DEF NowShown
  <2> QED BY <1>1, <1>2, <1>4, <2>9, <2>10
<1> QED BY <1>5, <1>6

\* A process that stays as it is lives, with its descriptors; a name read from the
\* fd directory is one of them.
LEMMA SteadyFds ==
    ASSUME TInv, SInv, pc \in Looking, info.cur \notin touched
    PROVE  /\ info.cur \in Pids \ touched /\ Lives
           /\ \A n \in FdNumbers : Fd(n) = Fds0[info.cur][n]
           /\ pc \in Reading => /\ fdname \in fdnames /\ fdname \in FdNumbers
                                /\ Fds0[info.cur][fdname] # Closed /\ IsOpen(fdname)
<1>1. info.cur \in Pids \ touched
  BY TypesOf
<1>2. Lives /\ fds[info.cur] = Fds0[info.cur]
  BY <1>1 DEF SInv, Unchanged, Lives, cur
<1>3. pc \in Reading => fdname \in fdnames /\ fdname \in FdNumbers
  BY TypesOf, MinIn, Limits DEF fdname
<1> QED BY <1>1, <1>2, <1>3 DEF SInv, Fd, IsOpen, cur

LEMMA OwnOnes ==
    ASSUME TInv, OwnFields, pc \in Scanning \ {"fscanf"}
    PROVE  /\ info.cur \in Pids /\ IsInfo(info) /\ info.user = Proc[info.cur].user
           /\ info.pid = info.cur /\ info.comm = Proc[info.cur].comm
<1>1. pc \in Looking \ {"stat"}
  BY Places
<1> QED BY <1>1, TypesOf DEF OwnFields

\* The word (deleted) goes away, and with it nothing else.
LEMMA WordDropped ==
    ASSUME NEW S, NEW path \in Seq(S), NEW w \in S
    PROVE  LET name == path \o <<w>>
           IN  /\ SubSeq(name, 1, Len(name) - 1) = path
               /\ Len(name) \in DOMAIN name /\ name[Len(name)] = w
OBVIOUS

LEMMA NameBack ==
    ASSUME NEW f \in Files, \A k \in DOMAIN File[f].path : File[f].path[k] # "(deleted)"
    PROVE  WithoutDeleted(Name0(f)) = File[f].path /\ WithoutDeleted(<<>>) = <<>>
<1>a. WithoutDeleted(<<>>) = <<>>
  BY DEF WithoutDeleted
<1> SUFFICES WithoutDeleted(Name0(f)) = File[f].path
  BY <1>a
<1> DEFINE path == File[f].path
           S == Word \cup {"(deleted)"}
<1>1. path \in Seq(S)
  <2>1. path \in Seq(Word)
    BY LsofAssumption
  <2> HIDE DEF path
  <2> QED BY <2>1
<1>2. "(deleted)" \in S
  OBVIOUS
<1> HIDE DEF S
<1>3. CASE f \in Deleted0
  <2> DEFINE name == path \o <<"(deleted)">>
  <2>1. /\ SubSeq(name, 1, Len(name) - 1) = path
        /\ Len(name) \in DOMAIN name /\ name[Len(name)] = "(deleted)"
    BY <1>1, <1>2, WordDropped
  <2>2. Name0(f) = name
    BY <1>3 DEF Name0
  <2> HIDE DEF name
  <2> QED BY <2>1, <2>2 DEF WithoutDeleted
<1>4. CASE f \notin Deleted0
  BY <1>4 DEF WithoutDeleted, Name0
<1> QED BY <1>3, <1>4

\* readFd shows that it is denied what it cannot open, and only that.
LEMMA FdDirShown ==
    ASSUME Conditions, TInv, SInv, RoomLeft, OwnFields, Right, readFd_opendir
    PROVE  /\ Right' /\ out \subseteq out' /\ Kept(info')
           /\ \/ pc' = "failed"
              \/ pc' = "chdir_fd" /\ info.cur \in Readable
              \/ pc' = "fclose" /\ (info.cur \notin touched => \A l \in FdLines(info.cur) : NowShown(l))
<1>0. pc = "fd" /\ UNCHANGED <<opt, touched>>
  BY DEF readFd_opendir, world
<1>1. /\ info.cur \in Pids /\ IsInfo(info) /\ info.user = Proc[info.cur].user
      /\ info.pid = info.cur /\ info.comm = Proc[info.cur].comm
  BY <1>0, OwnOnes, Places
<1>2. CASE /\ Lives /\ Proc[cur].readable /\ pc' = "chdir_fd" /\ UNCHANGED <<info, out>>
  <2>1. info.cur \in Readable
    BY <1>1, <1>2 DEF Readable, cur
  <2> QED BY <1>0, <1>2, <2>1 DEF Right, Kept, Asked
<1> DEFINE i == [info EXCEPT !.fd = "NOFD", !.num = -1, !.type = "none",
                             !.node = -1, !.name = Refused("fd")]
<1>3. CASE ~(Lives /\ Proc[cur].readable /\ Room) /\ print_pinfo(i, "fclose")
  <2>1. /\ Kept(i) /\ i.fd = "NOFD" /\ i.num = -1 /\ i.type = "none" /\ i.node = -1
        /\ i.name = Refused("fd")
    BY <1>1 DEF IsInfo, Fields, Kept
  <2>a. print_pinfo(i, "fclose")
    BY <1>3
  <2> HIDE DEF i
  <2>2. Line(i) = NoFdLine(info.cur) /\ i.pid = info.cur
    BY <1>1, <2>1 DEF Line, NoFdLine, BaseLine, Kept
  <2>3. info.cur \notin touched => ~Proc[info.cur].readable
    <3>1. "fd" \in Looking
      BY Places
    <3>2. info.cur \notin touched => Lives
      BY <1>0, <3>1, SteadyFds
    <3>3. Proc[info.cur].readable => Room
      BY <1>0, <1>1, RoomThere DEF Readable
    <3> QED BY <1>3, <3>2, <3>3 DEF cur
  <2>4. info.cur \notin touched => FdLines(info.cur) = {Line(i)}
    BY <2>2, <2>3 DEF FdLines
  <2>5. i.pid \in Pids \ touched => Line(i) \in Listing0(i.pid)
    BY <2>2, <2>4 DEF Listing0
  <2>6. Right' /\ out \subseteq out' /\ info' = i /\ (pc' = "fclose" => NowShown(Line(i)))
    BY <1>0, <2>a, <2>5, PrintRight
  <2>7. pc' \in {"failed", "fclose"}
    BY <2>a DEF print_pinfo
  <2>8. pc' = "fclose" => (info.cur \notin touched => \A l \in FdLines(info.cur) : NowShown(l))
    BY <2>4, <2>6
  <2> QED BY <2>1, <2>6, <2>7, <2>8
<1> HIDE DEF i
<1> QED BY <1>2, <1>3 DEF readFd_opendir, i

\* What is printed for a descriptor is its line.
LEMMA FdShown ==
    ASSUME Conditions, TInv, SInv, OwnFields, EntryFields, Right, Progress, readFd_lstat
    PROVE  /\ Right' /\ out \subseteq out' /\ Kept(info')
           /\ info.cur \notin touched =>
                \/ pc' = "failed"
                \/ /\ pc' = IF fdnames = {fdname} THEN "fclose" ELSE "readlink"
                   /\ fdnames' = fdnames \ {fdname}
                   /\ NowShown(FdLine0(info.cur, fdname))
<1>0. pc = "lstat_fd" /\ UNCHANGED <<opt, touched>> /\ pc \in Looking /\ pc \in Reading
  BY Places DEF readFd_lstat, world
<1>1. /\ info.cur \in Pids /\ IsInfo(info) /\ info.user = Proc[info.cur].user
      /\ info.pid = info.cur /\ info.comm = Proc[info.cur].comm
  BY <1>0, OwnOnes, Places
<1>2. CASE UNCHANGED <<info, out>> /\ (~IsOpen(fdname) \/ pc' = "failed")
  BY <1>0, <1>2, SteadyFds DEF Right, Kept, Asked
<1> DEFINE i == [info EXCEPT !.fd = Fd(fdname).mode, !.name = WithoutDeleted(@)]
           next == IF fdnames = {fdname} THEN "fclose" ELSE "readlink"
<1>3. CASE print_pinfo(i, next) /\ fdnames' = fdnames \ {fdname}
  <2>1. /\ Kept(i) /\ i.fd = Fd(fdname).mode /\ i.num = info.num /\ i.type = info.type
        /\ i.node = info.node /\ i.name = WithoutDeleted(info.name)
    BY <1>1 DEF IsInfo, Fields, Kept
  <2>2. print_pinfo(i, next) /\ next # "failed"
    BY <1>3
  <2> HIDE DEF i, next
  <2>3. info.cur \notin touched => Line(i) = FdLine0(info.cur, fdname)
    <3> SUFFICES ASSUME info.cur \notin touched
                 PROVE  Line(i) = FdLine0(info.cur, fdname)
      OBVIOUS
    <3> DEFINE d == Fds0[info.cur][fdname]
               f == d.file
    <3>1. /\ fdname \in FdNumbers /\ d # Closed /\ Fd(fdname) = d
      BY <1>0, SteadyFds
    <3>2. f \in Files
      BY <1>1, <3>1, ProcTypes DEF Descriptor
    <3>3. \A k \in DOMAIN File[f].path : File[f].path[k] # "(deleted)"
      BY <1>1, <3>1 DEF Conditions
    <3>4. WithoutDeleted(Name0(f)) = File[f].path /\ WithoutDeleted(<<>>) = <<>>
      BY <3>2, <3>3, NameBack
    <3>5. /\ info.num = fdname /\ info.type = File[f].type /\ info.node = File[f].ino
          /\ info.name = IF File[f].type = "unknown" THEN <<>> ELSE Name0(f)
      BY <1>0 DEF EntryFields
    <3>6. i.name = IF File[f].type # "unknown" THEN File[f].path ELSE <<>>
      BY <2>1, <3>4, <3>5
    <3>7. i.fd = d.mode
      BY <2>1, <3>1
    <3> HIDE DEF d, f
    <3>8. Line(i) = BaseLine(info.cur, d.mode, fdname, File[f].type,
                             IF File[f].type # "unknown" THEN File[f].ino ELSE -1,
                             IF File[f].type # "unknown" THEN File[f].path ELSE <<>>)
      BY <1>1, <2>1, <3>5, <3>6, <3>7 DEF Line, BaseLine, Kept
    <3> QED BY <3>8 DEF FdLine0, d, f
  <2>4. i.pid = info.cur
    BY <1>1, <2>1 DEF Kept
  <2>5. info.cur \notin touched => FdLine0(info.cur, fdname) \in FdLines(info.cur)
    BY <1>0, SteadyFds DEF FdLines, Progress, Readable
  <2>6. i.pid \in Pids \ touched => Line(i) \in Listing0(i.pid)
    BY <2>3, <2>4, <2>5 DEF Listing0
  <2>7. Right' /\ out \subseteq out' /\ info' = i /\ (pc' = next => NowShown(Line(i)))
    BY <1>0, <2>2, <2>6, PrintRight
  <2>8. pc' \in {"failed", next}
    BY <2>2 DEF print_pinfo
  <2>9. info.cur \notin touched /\ pc' = next => NowShown(FdLine0(info.cur, fdname))
    BY <2>3, <2>7
  <2> QED BY <1>3, <2>1, <2>7, <2>8, <2>9 DEF next
<1> HIDE DEF i, next
<1> QED BY <1>2, <1>3 DEF readFd_lstat, i, next

-----------------------------------------------------------------------------
(* The steps at a process, from cwd to its last descriptor. *)

Inner ==
    \/ readMem \/ readFd_opendir \/ readFd_chdir
    \/ readFd_readdir \/ readFd_readlink \/ readFd_stat \/ readFd_lstat
    \/ \E mode \in {"cwd", "root", "exe"} : getMeta_stat(mode) \/ getMeta_readlink(mode)

LEMMA QuietSteps ==
    ASSUME TInv, Right, readFd_chdir \/ readFd_readdir \/ readFd_readlink \/ readFd_stat
    PROVE  Right' /\ UNCHANGED out /\ Kept(info')
<1>1. UNCHANGED <<out, opt, touched>>
  BY DEF readFd_chdir, readFd_readdir, readFd_readlink, readFd_stat, world
<1>2. Right'
  BY <1>1 DEF Right, Asked
<1>3. CASE readFd_chdir \/ readFd_readdir
  BY <1>1, <1>2, <1>3 DEF readFd_chdir, readFd_readdir, Kept
<1>4. CASE readFd_readlink
  <2>1. IsInfo(info)
    BY TypesOf
  <2>2. \A w : Kept([info EXCEPT !.name = w])
    BY <2>1 DEF IsInfo, Fields, Kept
  <2>3. Kept(info')
    BY <1>4, <2>2 DEF readFd_readlink, Kept
  <2> QED BY <1>1, <1>2, <2>3
<1>5. CASE readFd_stat
  <2>1. IsInfo(info)
    BY TypesOf
  <2> DEFINE f == Fd(fdname).file
             i == [info EXCEPT !.node = AsInt(File[f].ino), !.fd = "fd",
                               !.num = fdname, !.type = File[f].type,
                               !.name = IF File[f].type = "unknown" THEN <<>> ELSE @]
  <2>2. Kept(i)
    BY <2>1 DEF IsInfo, Fields, Kept
  <2>3. info' = i \/ info' = info
    BY <1>5 DEF readFd_stat
  <2> HIDE DEF i
  <2>4. Kept(info')
    BY <2>2, <2>3 DEF Kept
  <2> QED BY <1>1, <1>2, <2>4
<1> QED BY <1>3, <1>4, <1>5

\* Such a step prints lines that are right and keeps what struct info says of the process.
LEMMA InnerEffect ==
    ASSUME Conditions, TInv, SInv, LInv, Inner
    PROVE  /\ Right' /\ out \subseteq out' /\ Kept(info')
           /\ UNCHANGED <<opt, world, pids>>
           /\ pc \in Scanning \ {"fscanf"}
           /\ pc' \in (Scanning \ {"fscanf"}) \cup {"failed"}
<1>0. RoomLeft /\ OwnFields /\ EntryFields /\ Right /\ Progress
  BY DEF LInv
<1>1. CASE readMem
  BY <1>0, <1>1, MemShown, Places DEF readMem
<1>2. CASE readFd_opendir
  <2>1. UNCHANGED <<opt, world, pids>> /\ pc = "fd" /\ pc' \in {"chdir_fd", "fclose", "failed"}
    BY <1>2 DEF readFd_opendir, print_pinfo
  <2> QED BY <1>0, <1>2, <2>1, FdDirShown, Places
<1>3. CASE readFd_chdir \/ readFd_readdir \/ readFd_readlink \/ readFd_stat
  <2>1. /\ UNCHANGED <<opt, world, pids>> /\ pc \in Scanning \ {"fscanf"}
        /\ pc' \in (Scanning \ {"fscanf"}) \cup {"failed"}
    BY <1>3, Places DEF readFd_chdir, readFd_readdir, readFd_readlink, readFd_stat
  <2> QED BY <1>0, <1>3, <2>1, QuietSteps
<1>4. CASE readFd_lstat
  <2>1. /\ UNCHANGED <<opt, world, pids>> /\ pc \in Scanning \ {"fscanf"}
        /\ pc' \in (Scanning \ {"fscanf"}) \cup {"failed"}
    BY <1>4, Places DEF readFd_lstat, print_pinfo
  <2> QED BY <1>0, <1>4, <2>1, FdShown
<1>5. ASSUME NEW mode \in {"cwd", "root", "exe"}, getMeta_stat(mode) \/ getMeta_readlink(mode)
      PROVE  /\ Right' /\ out \subseteq out' /\ Kept(info')
             /\ UNCHANGED <<opt, world, pids>>
             /\ pc \in Scanning \ {"fscanf"}
             /\ pc' \in (Scanning \ {"fscanf"}) \cup {"failed"}
  <2>1. UNCHANGED <<opt, world, pids>> /\ UNCHANGED touched /\ pc \in {mode, Opened[mode]}
    BY <1>5 DEF getMeta_stat, getMeta_readlink, world
  <2>2. {mode, Opened[mode], After[mode]} \subseteq Scanning \ {"fscanf"} /\ After[mode] # "failed"
    BY Places DEF Opened, After
  <2>3. pc' \in {"failed", Opened[mode], After[mode]}
    BY <1>5, MetaTypes
  <2>4. CASE UNCHANGED <<info, out>>
    <3>1. Right'
      BY <1>0, <2>1, <2>4 DEF Right, Asked
    <3> QED BY <2>1, <2>2, <2>3, <2>4, <3>1 DEF Kept
  <2>5. ASSUME NEW i, print_pinfo(i, After[mode]), Kept(i),
               info.cur \notin touched => Line(i) = EntryLine(info.cur, mode)
        PROVE  Right' /\ out \subseteq out' /\ Kept(info')
    <3>1. i.pid = info.cur
      BY <1>0, <2>1, <2>2, <2>5, OwnOnes DEF Kept
    <3>2. EntryLine(info.cur, mode) \in Listing0(info.cur)
      <4>1. mode = "cwd" \/ mode = "root" \/ mode = "exe"
        OBVIOUS
      <4> QED BY <4>1 DEF Listing0
    <3>3. i.pid \in Pids \ touched => Line(i) \in Listing0(i.pid)
      BY <2>5, <3>1, <3>2
    <3>4. Right' /\ out \subseteq out' /\ info' = i
      BY <1>0, <2>1, <2>2, <2>5, <3>3, PrintRight
    <3> QED BY <2>5, <3>4 DEF Kept
  <2> QED BY <1>0, <1>5, <2>1, <2>2, <2>3, <2>4, <2>5, MetaLine
<1> QED BY <1>1, <1>2, <1>3, <1>4, <1>5 DEF Inner

LEMMA InnerOwn ==
    ASSUME Conditions, TInv, SInv, LInv, Inner
    PROVE  OwnFields'
<1>0. OwnFields /\ UNCHANGED <<opt, world>> /\ Kept(info')
      /\ pc \in Scanning \ {"fscanf"} /\ pc' \in (Scanning \ {"fscanf"}) \cup {"failed"}
  BY InnerEffect DEF LInv
<1>1. /\ info.user = Proc[info.cur].user
      /\ info.pid = info.cur /\ info.comm = Proc[info.cur].comm
  BY <1>0, OwnOnes
<1>2. pc' \in {"cwd_link", "root_link", "exe_link"} => info'.cur \in Readable
  <2>1. CASE \/ readMem \/ readFd_opendir \/ readFd_chdir
             \/ readFd_readdir \/ readFd_readlink \/ readFd_stat \/ readFd_lstat
    BY <2>1 DEF readMem, readFd_opendir, readFd_chdir,
               readFd_readdir, readFd_readlink, readFd_stat, readFd_lstat, print_pinfo
  <2>2. ASSUME NEW mode \in {"cwd", "root", "exe"}, getMeta_stat(mode) \/ getMeta_readlink(mode),
               pc' \in {"cwd_link", "root_link", "exe_link"}
        PROVE  info'.cur \in Readable
    <3>1. After[mode] \notin {"cwd_link", "root_link", "exe_link", "failed"}
      BY DEF After
    <3>2. pc' = Opened[mode] /\ UNCHANGED <<info, out>> /\ info.cur \in Readable
      BY <1>0, <2>2, <3>1, MetaLine DEF print_pinfo
    <3> QED BY <3>2
  <2> QED BY <2>1, <2>2 DEF Inner
<1>3. /\ info'.user = Proc[info'.cur].user
      /\ info'.pid = info'.cur /\ info'.comm = Proc[info'.cur].comm
  BY <1>0, <1>1 DEF Kept
<1> QED BY <1>2, <1>3 DEF OwnFields

LEMMA InnerEntry ==
    ASSUME Conditions, TInv, SInv, LInv, Inner
    PROVE  EntryFields'
<1>0. OwnFields /\ EntryFields /\ UNCHANGED <<opt, world>> /\ UNCHANGED touched /\ Kept(info')
      /\ pc \in Scanning
  BY InnerEffect DEF LInv, world
<1> SUFFICES ASSUME info.cur \notin touched
             PROVE  EntryFields'
  BY <1>0 DEF EntryFields, Kept
<1>1. /\ info.cur \in Pids \ touched /\ info'.cur = info.cur
      /\ \A n \in FdNumbers : Fd(n) = Fds0[info.cur][n]
      /\ pc \in Reading => /\ fdname \in FdNumbers
                           /\ Fds0[info.cur][fdname] # Closed /\ IsOpen(fdname)
  BY <1>0, SteadyFds, Places DEF Kept
<1>2. CASE readMem \/ readFd_opendir \/ readFd_chdir \/ readFd_readdir \/ readFd_lstat
  <2>1. pc' \notin {"maps", "stat_fd", "lstat_fd"}
    BY <1>2 DEF readMem, readFd_opendir, readFd_chdir, readFd_readdir, readFd_lstat, print_pinfo
  <2> QED BY <2>1 DEF EntryFields
<1>3. CASE readFd_readlink
  <2> DEFINE f == Fds0[info.cur][fdname].file
  <2>1. IsInfo(info) /\ pc \in Reading /\ UNCHANGED fdnames
    BY <1>3, TypesOf, Places DEF readFd_readlink
  <2>2. pc' = "stat_fd" /\ info' = [info EXCEPT !.name = LinkName(f)]
    BY <1>1, <1>3, <2>1 DEF readFd_readlink
  <2>3. f \in Uses(info.cur)
    BY <1>1, <2>1 DEF Uses
  <2>4. LinkName(f) = Name0(f)
    BY <1>1, <2>3, NameSame
  <2> HIDE DEF f
  <2>5. info'.name = Name0(f)
    BY <2>1, <2>2, <2>4 DEF IsInfo, Fields
  <2>6. fdname' = fdname
    BY <2>1 DEF fdname
  <2> QED BY <1>1, <2>2, <2>5, <2>6 DEF EntryFields, f
<1>4. CASE readFd_stat
  <2> DEFINE f == Fds0[info.cur][fdname].file
  <2>1. IsInfo(info) /\ pc \in Reading /\ UNCHANGED fdnames /\ info.name = Name0(f)
    BY <1>0, <1>4, TypesOf, Places DEF readFd_stat, EntryFields
  <2>2. pc' = "lstat_fd"
        /\ info' = [info EXCEPT !.node = AsInt(File[f].ino), !.fd = "fd",
                                !.num = fdname, !.type = File[f].type,
                                !.name = IF File[f].type = "unknown" THEN <<>> ELSE @]
    BY <1>1, <1>4, <2>1 DEF readFd_stat
  <2>3. f \in Files
    BY <1>1, <2>1, ProcTypes DEF Descriptor
  <2>4. AsInt(File[f].ino) = File[f].ino
    BY <2>3 DEF Conditions
  <2>5. fdname' = fdname
    BY <2>1 DEF fdname
  <2> HIDE DEF f
  <2>6. /\ info'.num = fdname /\ info'.type = File[f].type /\ info'.node = File[f].ino
        /\ info'.name = IF File[f].type = "unknown" THEN <<>> ELSE Name0(f)
    BY <2>1, <2>2, <2>4 DEF IsInfo, Fields
  <2> QED BY <1>1, <2>2, <2>5, <2>6 DEF EntryFields, f
<1>5. ASSUME NEW mode \in {"cwd", "root", "exe"}, getMeta_stat(mode) \/ getMeta_readlink(mode)
      PROVE  EntryFields'
  <2>1. pc' \in {"failed", Opened[mode], After[mode]}
    BY <1>5, MetaTypes
  <2>2. /\ Opened[mode] \notin {"maps", "stat_fd", "lstat_fd"}
        /\ After[mode] \notin {"stat_fd", "lstat_fd"} /\ (After[mode] = "maps" => mode = "exe")
    BY DEF Opened, After
  <2>3. pc' = "maps" /\ info.cur \in Readable => info'.node = File[Proc[info.cur].exe].ino
    <3> SUFFICES ASSUME pc' = "maps", info.cur \in Readable
                 PROVE  info'.node = File[Proc[info.cur].exe].ino
      OBVIOUS
    <3>1. mode = "exe"
      BY <2>1, <2>2
    <3>2. LinkOf(info.cur, "exe") = Proc[info.cur].exe
      BY DEF LinkOf
    <3>3. \E i : /\ info' = i
                 /\ i.node = File[LinkOf(info.cur, mode)].ino
      BY <1>0, <1>5, <2>2, MetaLine DEF print_pinfo
    <3> QED BY <3>1, <3>2, <3>3
  <2> QED BY <1>0, <1>1, <2>1, <2>2, <2>3 DEF EntryFields
<1> QED BY <1>2, <1>3, <1>4, <1>5 DEF Inner

-----------------------------------------------------------------------------
(* How far the listing of a process has got. *)

LEMMA AfterPlaces ==
    /\ AfterMaps = Reading \cup {"fd", "chdir_fd", "readdir_fd", "fclose"}
    /\ AfterExe = AfterMaps \cup {"maps"}
    /\ AfterRoot = AfterExe \cup {"exe", "exe_link"}
    /\ AfterCwd = AfterRoot \cup {"root", "root_link"}
    /\ {"getopt", "opendir", "readdir", "done", "failed", "stat", "chdir", "fopen", "fscanf",
        "cwd", "cwd_link"} \cap AfterCwd = {}
    /\ AfterCwd \subseteq Looking
BY DEF AfterMaps, AfterExe, AfterRoot, AfterCwd, Scanning, Links, Reading, Looking

\* Progress after the step, for the process that was looked at before it.
NowProgress ==
    /\ pc' \in AfterCwd => NowShown(EntryLine(info.cur, "cwd"))
    /\ pc' \in AfterRoot => NowShown(EntryLine(info.cur, "root"))
    /\ pc' \in AfterExe => NowShown(EntryLine(info.cur, "exe"))
    /\ pc' \in AfterMaps => \A l \in MemLines(info.cur) : NowShown(l)
    /\ pc' \in Reading =>
           \A n \in FdNumbers \ fdnames' :
               Fds0[info.cur][n] # Closed => NowShown(FdLine0(info.cur, n))
    /\ pc' \in Reading \cup {"chdir_fd", "readdir_fd"} => info.cur \in Readable
    /\ pc' = "fclose" => \A l \in FdLines(info.cur) : NowShown(l)

LEMMA ProgressNext ==
    ASSUME UNCHANGED <<opt, touched>>, info'.cur = info.cur, info.cur \notin touched => NowProgress
    PROVE  Progress'
<1>1. \A l : NowShown(l) <=> (Asked(l)' => l \in out')
  BY DEF NowShown, Asked
<1> QED BY <1>1 DEF Progress, NowProgress, Shown

LEMMA ProgressNone ==
    ASSUME pc' \notin AfterCwd
    PROVE  Progress'
BY AfterPlaces DEF Progress

\* What is shown stays shown.
LEMMA Carried ==
    ASSUME Progress, info.cur \notin touched, UNCHANGED opt, out \subseteq out'
    PROVE  /\ pc \in AfterCwd => NowShown(EntryLine(info.cur, "cwd"))
           /\ pc \in AfterRoot => NowShown(EntryLine(info.cur, "root"))
           /\ pc \in AfterExe => NowShown(EntryLine(info.cur, "exe"))
           /\ pc \in AfterMaps => \A l \in MemLines(info.cur) : NowShown(l)
           /\ pc \in Reading =>
                  \A n \in FdNumbers \ fdnames :
                      Fds0[info.cur][n] # Closed => NowShown(FdLine0(info.cur, n))
           /\ pc \in Reading \cup {"chdir_fd", "readdir_fd"} => info.cur \in Readable
BY ShownKept DEF Progress

LEMMA MetaProgress ==
    ASSUME Conditions, TInv, SInv, LInv, NEW mode \in {"cwd", "root", "exe"},
           getMeta_stat(mode) \/ getMeta_readlink(mode), info.cur \notin touched
    PROVE  NowProgress
<1>0. OwnFields /\ Progress /\ UNCHANGED opt /\ UNCHANGED touched /\ out \subseteq out'
  <2>1. Inner
    BY DEF Inner
  <2> QED BY <2>1, InnerEffect DEF LInv, world
<1>1. pc \in {mode, Opened[mode]}
  BY DEF getMeta_stat, getMeta_readlink
<1>2. pc' \in {"failed", Opened[mode], After[mode]}
  BY MetaTypes
<1>3. pc' = After[mode] => NowShown(EntryLine(info.cur, mode))
  <2>1. After[mode] # Opened[mode] /\ After[mode] # "failed"
    BY MetaPlaces, Places
  <2>2. ASSUME pc' = After[mode], NEW i, print_pinfo(i, After[mode]), Kept(i),
               Line(i) = EntryLine(info.cur, mode)
        PROVE  NowShown(EntryLine(info.cur, mode))
    <3>1. ~Aborts(i)
      BY <2>1, <2>2 DEF print_pinfo
    <3>2. Asked(Line(i)) => Line(i) \in out'
      BY <2>2, <3>1, PassesIsAsked DEF print_pinfo
    <3> QED BY <2>2, <3>2 DEF NowShown
  <2> QED BY <1>0, <2>1, <2>2, MetaLine
<1>4. /\ Opened["cwd"] = "cwd_link" /\ Opened["root"] = "root_link" /\ Opened["exe"] = "exe_link"
      /\ After["cwd"] = "root" /\ After["root"] = "exe" /\ After["exe"] = "maps"
  BY DEF Opened, After
<1>5. CASE mode = "cwd"
  <2>1. pc' \in {"failed", "cwd_link", "root"} /\ (pc' = "root" => NowShown(EntryLine(info.cur, "cwd")))
    BY <1>2, <1>3, <1>4, <1>5
  <2> QED BY <2>1, AfterPlaces, Places DEF NowProgress
<1>6. CASE mode = "root"
  <2>1. pc' \in {"failed", "root_link", "exe"} /\ (pc' = "exe" => NowShown(EntryLine(info.cur, "root")))
    BY <1>2, <1>3, <1>4, <1>6
  <2>2. pc \in AfterCwd
    BY <1>1, <1>4, <1>6, AfterPlaces
  <2> QED BY <1>0, <2>1, <2>2, AfterPlaces, Places, Carried DEF NowProgress
<1>7. CASE mode = "exe"
  <2>1. pc' \in {"failed", "exe_link", "maps"} /\ (pc' = "maps" => NowShown(EntryLine(info.cur, "exe")))
    BY <1>2, <1>3, <1>4, <1>7
  <2>2. pc \in AfterCwd /\ pc \in AfterRoot
    BY <1>1, <1>4, <1>7, AfterPlaces
  <2> QED BY <1>0, <2>1, <2>2, AfterPlaces, Places, Carried DEF NowProgress
<1> QED BY <1>5, <1>6, <1>7

LEMMA InnerProgress ==
    ASSUME Conditions, TInv, SInv, LInv, Inner
    PROVE  Progress'
<1>0. /\ OwnFields /\ Progress /\ RoomLeft /\ EntryFields /\ Right
      /\ UNCHANGED opt /\ UNCHANGED touched /\ out \subseteq out' /\ info'.cur = info.cur
      /\ pc \in Scanning
  BY InnerEffect DEF LInv, world, Kept
<1> SUFFICES ASSUME info.cur \notin touched
             PROVE  NowProgress
  BY <1>0, ProgressNext
<1>1. /\ info.cur \in Pids \ touched /\ Lives
      /\ \A n \in FdNumbers : Fd(n) = Fds0[info.cur][n]
      /\ pc \in Reading => /\ fdname \in fdnames /\ fdname \in FdNumbers
                           /\ Fds0[info.cur][fdname] # Closed /\ IsOpen(fdname)
  BY <1>0, SteadyFds, Places
<1>2. /\ pc \in AfterCwd => NowShown(EntryLine(info.cur, "cwd"))
      /\ pc \in AfterRoot => NowShown(EntryLine(info.cur, "root"))
      /\ pc \in AfterExe => NowShown(EntryLine(info.cur, "exe"))
      /\ pc \in AfterMaps => \A l \in MemLines(info.cur) : NowShown(l)
      /\ pc \in Reading =>
             \A n \in FdNumbers \ fdnames :
                 Fds0[info.cur][n] # Closed => NowShown(FdLine0(info.cur, n))
      /\ pc \in Reading \cup {"chdir_fd", "readdir_fd"} => info.cur \in Readable
  BY <1>0, Carried
<1>3. CASE readMem
  <2>1. /\ pc = "maps" /\ pc' \in {"fd", "failed"}
        /\ pc' = "fd" => \A l \in MemLines(info.cur) : NowShown(l)
    BY <1>0, <1>3, MemShown DEF readMem
  <2> QED BY <1>2, <2>1, AfterPlaces, Places DEF NowProgress
<1>4. CASE readFd_opendir
  <2>1. /\ pc = "fd"
        /\ \/ pc' = "failed"
           \/ pc' = "chdir_fd" /\ info.cur \in Readable
           \/ pc' = "fclose" /\ \A l \in FdLines(info.cur) : NowShown(l)
    BY <1>0, <1>4, FdDirShown DEF readFd_opendir
  <2> QED BY <1>2, <2>1, AfterPlaces, Places DEF NowProgress
<1>5. CASE readFd_chdir
  <2>1. pc = "chdir_fd" /\ pc' \in {"readdir_fd", "failed"}
    BY <1>5 DEF readFd_chdir
  <2> QED BY <1>2, <2>1, AfterPlaces, Places DEF NowProgress
<1>6. CASE readFd_readdir
  <2>1. /\ pc = "readdir_fd" /\ fdnames' = {n \in FdNumbers : IsOpen(n)}
        /\ (pc' = "fclose" /\ fdnames' = {}) \/ pc' = "readlink"
    BY <1>6 DEF readFd_readdir
  <2>2. \A n \in FdNumbers : n \in fdnames' <=> Fds0[info.cur][n] # Closed
    BY <1>1, <2>1 DEF IsOpen
  <2>3. info.cur \in Readable /\ pc \in AfterMaps
    BY <1>2, <2>1, AfterPlaces
  <2>4. pc' = "fclose" => FdLines(info.cur) = {}
    BY <2>1, <2>2, <2>3 DEF FdLines, Readable
  <2> QED BY <1>2, <2>1, <2>2, <2>3, <2>4, AfterPlaces, Places DEF NowProgress
<1>7. CASE readFd_readlink \/ readFd_stat
  <2>1. pc \in Reading /\ pc' \in Reading \cup {"failed"} /\ UNCHANGED fdnames
    BY <1>1, <1>7, Places DEF readFd_readlink, readFd_stat
  <2> QED BY <1>2, <2>1, AfterPlaces, Places DEF NowProgress
<1>8. CASE readFd_lstat
  <2>1. pc \in Reading /\ pc \in AfterMaps /\ info.cur \in Readable
    BY <1>2, <1>8, AfterPlaces, Places DEF readFd_lstat
  <2>2. \/ pc' = "failed"
        \/ /\ pc' = IF fdnames = {fdname} THEN "fclose" ELSE "readlink"
           /\ fdnames' = fdnames \ {fdname}
           /\ NowShown(FdLine0(info.cur, fdname))
    BY <1>0, <1>8, FdShown
  <2>3. pc' # "failed" => \A n \in FdNumbers \ fdnames' :
                              Fds0[info.cur][n] # Closed => NowShown(FdLine0(info.cur, n))
    BY <1>2, <2>1, <2>2
  <2>4. pc' = "fclose" => \A l \in FdLines(info.cur) : NowShown(l)
    <3>1. pc' = "fclose" => fdnames' = {}
      BY <2>2
    <3> QED BY <2>1, <2>3, <3>1 DEF FdLines, Readable
  <2>5. pc' \in {"failed", "fclose", "readlink"}
    BY <2>2
  <2> QED BY <1>2, <2>1, <2>3, <2>4, <2>5, AfterPlaces, Places DEF NowProgress
<1>9. ASSUME NEW mode \in {"cwd", "root", "exe"}, getMeta_stat(mode) \/ getMeta_readlink(mode)
      PROVE  NowProgress
  BY <1>9, MetaProgress
<1> QED BY <1>3, <1>4, <1>5, <1>6, <1>7, <1>8, <1>9 DEF Inner

LEMMA InnerComplete ==
    ASSUME Conditions, TInv, SInv, LInv, Inner
    PROVE  Complete'
<1>0. /\ Complete /\ UNCHANGED <<opt, pids>> /\ UNCHANGED touched /\ out \subseteq out'
      /\ info'.cur = info.cur /\ pc \in Looking /\ pc' \in Looking \cup {"failed"}
  BY InnerEffect, Places DEF LInv, world, Kept
<1>1. \A l : Shown(l) => Shown(l)'
  BY <1>0, ShownKept
<1>2. "failed" \notin Looking \cup {"readdir", "done"} /\ "done" \notin Looking
  BY Places
<1> QED BY <1>0, <1>1, <1>2 DEF Complete

-----------------------------------------------------------------------------
(* The steps from one process to the next. *)

Walk == getopt \/ opendir \/ readdir \/ stat_pid \/ chdir \/ fopen_stat \/ fscanf \/ fclose

LEMMA WalkEffect ==
    ASSUME Right, Walk
    PROVE  /\ Right' /\ UNCHANGED <<opt, out, touched>> /\ pc' \notin AfterCwd
           /\ pc' \notin {"maps", "stat_fd", "lstat_fd", "cwd_link", "root_link", "exe_link"}
<1>1. UNCHANGED <<opt, out, touched>>
  BY DEF Walk, getopt, opendir, readdir, stat_pid, chdir, fopen_stat, fscanf, fclose, world
<1>2. pc' \in {"opendir", "readdir", "done", "failed", "stat", "chdir", "fopen", "fscanf", "cwd"}
  BY DEF Walk, getopt, opendir, readdir, stat_pid, chdir, fopen_stat, fscanf, fclose
<1> QED BY <1>1, <1>2, AfterPlaces DEF Right, Asked

LEMMA WalkOwn ==
    ASSUME Conditions, TInv, OwnFields, Right, Walk
    PROVE  OwnFields'
<1>0. pc' \notin {"cwd_link", "root_link", "exe_link"}
  BY WalkEffect
<1>1. CASE getopt \/ opendir \/ readdir \/ fclose
  <2>1. pc' \notin Looking \ {"stat"}
    BY <1>1, Places DEF getopt, opendir, readdir, fclose
  <2> QED BY <2>1, <1>0, Places DEF OwnFields
<1>2. CASE stat_pid
  <2>1. pc' \in {"chdir", "readdir"} /\ info.cur \in Pids /\ IsInfo(info)
    BY <1>2, TypesOf, Places DEF stat_pid
  <2>2. pc' = "chdir" => info' = [info EXCEPT !.user = Proc[info.cur].user]
    BY <1>2, <2>1 DEF stat_pid, getUserName, cur, Conditions
  <2>3. pc' = "chdir" => info'.user = Proc[info'.cur].user
    BY <2>1, <2>2 DEF IsInfo, Fields
  <2> QED BY <2>1, <2>3, Places DEF OwnFields
<1>3. CASE chdir \/ fopen_stat
  <2>1. UNCHANGED info /\ pc \in Looking \ {"stat"} /\ pc' \in {"fopen", "fscanf", "readdir"}
    BY <1>3, Places DEF chdir, fopen_stat
  <2> QED BY <2>1, Places DEF OwnFields
<1>4. CASE fscanf
  <2>1. pc = "fscanf" /\ pc' \in {"cwd", "failed"} /\ info.cur \in Pids /\ IsInfo(info)
    BY <1>4, TypesOf, Places DEF fscanf
  <2>2. info.user = Proc[info.cur].user
    BY <2>1, Places DEF OwnFields
  <2>3. ScannedComm(Proc[info.cur].comm) = Proc[info.cur].comm
    BY <2>1 DEF ScannedComm, Conditions
  <2>4. pc' = "cwd" =>
          info' = [info EXCEPT !.pid = info.cur, !.comm = Proc[info.cur].comm]
    BY <1>4, <2>3 DEF fscanf, cur
  <2>5. pc' = "cwd" => /\ info'.user = Proc[info'.cur].user
                       /\ info'.pid = info'.cur /\ info'.comm = Proc[info'.cur].comm
    BY <2>1, <2>2, <2>4 DEF IsInfo, Fields
  <2> QED BY <2>1, <2>5, Places DEF OwnFields
<1> QED BY <1>1, <1>2, <1>3, <1>4 DEF Walk

\* The lister leaves a process that stays as it is only when all its lines are shown.
LEMMA WalkComplete ==
    ASSUME Conditions, TInv, SInv, LInv, Walk
    PROVE  Complete'
<1>0. /\ Complete /\ Progress /\ RoomLeft /\ UNCHANGED <<opt, out, touched>>
  BY WalkEffect DEF LInv
<1>1. \A l : Shown(l) => Shown(l)'
  BY <1>0, ShownKept
<1>2. CASE getopt
  <2>1. pc' \notin Looking \cup {"readdir", "done"}
    BY <1>2, Places DEF getopt
  <2> QED BY <2>1 DEF Complete
<1>3. CASE opendir
  <2>1. pc' = "readdir" /\ \A p \in Pids \ touched : p \in pids'
    BY <1>3 DEF opendir, SInv, Unchanged
  <2> QED BY <1>0, <2>1 DEF Complete
<1>4. CASE readdir
  <2>1. \A p \in Pids \ (touched \cup pids) : \A l \in Listing0(p) : Shown(l)
    BY <1>0, <1>4, Places DEF readdir, Complete
  <2>2. CASE pids = {}
    BY <1>0, <1>1, <1>4, <2>1, <2>2 DEF readdir, Complete
  <2>3. CASE pids # {}
    <3>1. pids' = pids \ {Min(pids)} /\ pc' = "stat" /\ info'.cur = Min(pids)
      BY <1>4, <2>3, TypesOf DEF readdir, IsInfo, Fields
    <3>2. pc' \in Looking
      BY <3>1, Places
    <3> QED BY <1>0, <1>1, <2>1, <3>1, <3>2 DEF Complete
  <2> QED BY <2>2, <2>3
<1>5. CASE chdir \/ fscanf
  <2>1. /\ pc \in Looking /\ pc' \in Looking \cup {"failed"} /\ UNCHANGED pids
        /\ "failed" \notin Looking \cup {"readdir", "done"} /\ "done" \notin Looking
    BY <1>5, Places DEF chdir, fscanf
  <2>2. info'.cur = info.cur
    BY <1>5, ScanTypes DEF chdir
  <2> QED BY <1>0, <1>1, <2>1, <2>2 DEF Complete
<1>6. CASE stat_pid \/ fopen_stat
  <2>1. pc \in Looking /\ UNCHANGED pids /\ pc' \in {"chdir", "fscanf", "readdir"}
    BY <1>6, Places DEF stat_pid, fopen_stat
  <2>2. info'.cur = info.cur
    BY <1>6, TypesOf DEF stat_pid, fopen_stat, getUserName, IsInfo, Fields
  <2>3. pc' = "readdir" => info.cur \in touched
    <3>1. info.cur \notin touched => Lives
      BY <2>1, SteadyFds
    <3>2. pc = "fopen" => Room
      BY <1>0, RoomThere
    <3> QED BY <1>6, <3>1, <3>2 DEF stat_pid, fopen_stat
  <2>4. {"chdir", "fscanf"} \subseteq Looking
    BY Places
  <2> QED BY <1>0, <1>1, <2>1, <2>2, <2>3, <2>4 DEF Complete
<1>7. CASE fclose
  <2>1. pc = "fclose" /\ pc' = "readdir" /\ UNCHANGED pids /\ UNCHANGED info
        /\ pc \in Looking
    BY <1>7, Places DEF fclose
  <2>2. info.cur \notin touched => \A l \in Listing0(info.cur) : Shown(l)
    BY <1>0, <2>1, AfterPlaces DEF Progress, Listing0
  <2> QED BY <1>0, <1>1, <2>1, <2>2 DEF Complete
<1> QED BY <1>2, <1>3, <1>4, <1>5, <1>6, <1>7 DEF Walk

-----------------------------------------------------------------------------
(* The listing is right and complete. *)

LEMMA InitLines ==
    ASSUME Init
    PROVE  LInv
<1>1. pc = "getopt" /\ out = {} /\ open = 0
  BY DEF Init
<1>2. RoomLeft /\ OwnFields /\ EntryFields
  BY <1>1, Places DEF RoomLeft, OwnFields, EntryFields
<1>3. Right /\ Complete /\ Progress
  BY <1>1, Places, AfterPlaces DEF Right, Complete, Progress
<1> QED BY <1>2, <1>3 DEF LInv

LEMMA OthersLines ==
    ASSUME TInv, SInv, LInv, Others
    PROVE  LInv'
<1>1. UNCHANGED lister /\ touched \subseteq touched'
  BY OthersTypes, OthersSteady
<1>2. UNCHANGED <<pc, opt, info, pids, fdnames, open, out>>
  BY <1>1 DEF lister
<1>3. RoomLeft' /\ OwnFields'
  BY <1>2 DEF LInv, RoomLeft, OwnFields, Waiting, ThisOne
<1>4. EntryFields'
  BY <1>1, <1>2 DEF LInv, EntryFields, fdname
<1>5. Right' /\ Complete' /\ Progress'
  BY <1>1, <1>2 DEF LInv, Right, Complete, Progress, Shown, Asked
<1> QED BY <1>3, <1>4, <1>5 DEF LInv

LEMMA LinesStep ==
    ASSUME Conditions, TInv, SInv, LInv, [Next]_vars
    PROVE  LInv'
<1>1. CASE UNCHANGED vars \/ Finished
  <2>1. UNCHANGED <<pc, opt, info, pids, fdnames, open, out, touched>>
    BY <1>1 DEF Finished, vars, lister, world
  <2> QED BY <2>1 DEF LInv, RoomLeft, OwnFields, Waiting, ThisOne, EntryFields, fdname,
                      Right, Complete, Progress, Shown, Asked
<1>2. CASE Others
  BY <1>2, OthersLines
<1>3. CASE Lister
  <2>1. RoomLeft'
    BY <1>3, RoomStep DEF LInv
  <2>2. CASE Walk
    <3>1. Right' /\ OwnFields' /\ Complete'
      BY <2>2, WalkEffect, WalkOwn, WalkComplete DEF LInv
    <3>2. Progress' /\ EntryFields'
      BY <2>2, WalkEffect, ProgressNone DEF LInv, EntryFields
    <3> QED BY <2>1, <3>1, <3>2 DEF LInv
  <2>3. CASE Inner
    BY <2>1, <2>3, InnerEffect, InnerOwn, InnerEntry, InnerProgress, InnerComplete DEF LInv
  <2> QED BY <1>3, <2>2, <2>3 DEF Lister, Walk, Inner
<1> QED BY <1>1, <1>2, <1>3 DEF Next

LEMMA Lines ==
    ASSUME Conditions
    PROVE  Spec => [](TInv /\ SInv /\ LInv)
<1>1. Init => TInv /\ SInv /\ LInv
  BY InitTypes, InitSteady, InitLines
<1>2. TInv /\ SInv /\ LInv /\ [Next]_vars => (TInv /\ SInv /\ LInv)'
  BY TypeStep, SteadyStep, LinesStep
<1> QED BY <1>1, <1>2, PTL DEF Spec

\* However the steps of the lister and of the other processes interleave, and
\* whatever the options, every line of a process that stays as it is is one of its
\* lines and one that was asked for: nothing in it is left from another process or
\* from an earlier entry in struct info.
THEOREM NoWrongLineHolds ==
    ASSUME Conditions
    PROVE  Spec => []NoWrongLine
<1>1. TInv /\ SInv /\ LInv => NoWrongLine
  <2> SUFFICES ASSUME SInv, Right
               PROVE  NoWrongLine
    BY DEF LInv
  <2>1. \A p \in Pids \ touched : Listing(p) = Listing0(p)
    BY ListingSame
  <2> QED BY <2>1 DEF NoWrongLine, Right, Steady
<1> QED BY <1>1, Lines, PTL

\* When the lister gets to its end, every asked line of every process that stayed
\* as it is has been printed: no early return of readInfo, no entry that readMem
\* takes for shown and no descriptor that is left open has cost one.
THEOREM NothingMissingHolds ==
    ASSUME Conditions
    PROVE  Spec => []NothingMissing
<1>1. TInv /\ SInv /\ LInv => NothingMissing
  <2> SUFFICES ASSUME SInv, LInv, pc = "done", NEW p \in Pids \ touched, TInv
               PROVE  {l \in Listing(p) : Asked(l)} \subseteq out
    BY DEF NothingMissing, Steady
  <2>1. Listing(p) = Listing0(p)
    BY ListingSame
  <2>2. \A l \in Listing0(p) : Shown(l)
    BY Places DEF LInv, Complete
  <2> QED BY <2>1, <2>2 DEF Shown
<1> QED BY <1>1, Lines, PTL
=============================================================================
