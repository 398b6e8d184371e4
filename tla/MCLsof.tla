------------------------------- MODULE MCLsof -------------------------------
(* Three processes: two whose files can be read, one of another user. *)
EXTENDS Lsof, TLC

AFile(ino, type, path) == [ino |-> ino, type |-> type, path |-> path]

MCFile ==
    [dir  |-> AFile(1, "DIR", <<"/">>),
     exe  |-> AFile(2, "REG", <<"/exe">>),
     lib  |-> AFile(3, "REG", <<"/lib">>),
     log  |-> AFile(4, "REG", <<"/my", "log">>),
     tty  |-> AFile(5, "CHR", <<"/tty">>),
     anon |-> AFile(6, "unknown", <<"anon">>)]

AProc(user, readable, segments) ==
    [user |-> user, comm |-> IF readable THEN <<"sh">> ELSE <<"init">>,
     readable |-> readable, cwd |-> "dir", root |-> "dir", exe |-> "exe",
     maps |-> segments]

MCProc ==
    (1 :> AProc("u", TRUE, <<"exe", "lib", "exe", "lib">>))
    @@ (2 :> AProc("root", FALSE, <<"exe">>))
    @@ (3 :> AProc("v", TRUE, <<"lib">>))

AnFd(f, m) == [file |-> f, mode |-> m]

MCFds0 ==
    (1 :> (0 :> AnFd("tty", "u") @@ 1 :> AnFd("log", "w")))
    @@ (2 :> (0 :> AnFd("tty", "u") @@ 1 :> Closed))
    @@ (3 :> (0 :> Closed @@ 1 :> AnFd("anon", "r")))

AnyRegex == [any |-> TRUE, valid |-> TRUE, words |-> {}]
BadRegex == [any |-> FALSE, valid |-> FALSE, words |-> {}]
RegexOf(words) == [any |-> FALSE, valid |-> TRUE, words |-> words]

Opts(usage, type, comm, file) == [usage |-> usage, type |-> type, comm |-> comm, file |-> file]

MCOptions ==
    {Opts(FALSE, "any", AnyRegex, AnyRegex), Opts(TRUE, "any", AnyRegex, AnyRegex),
     Opts(FALSE, "BLK", AnyRegex, AnyRegex), Opts(FALSE, "CHR", AnyRegex, RegexOf({"/tty"})),
     Opts(FALSE, "REG", RegexOf({"sh"}), BadRegex), Opts(FALSE, "any", BadRegex, AnyRegex)}

MCOptionsAll == {Opts(FALSE, "any", AnyRegex, AnyRegex)}

MCDeletedProc == 1 :> AProc("u", TRUE, <<"exe", "lib">>)
MCDeletedFds == 1 :> (0 :> AnFd("tty", "u") @@ 1 :> AnFd("log", "w"))
=============================================================================
