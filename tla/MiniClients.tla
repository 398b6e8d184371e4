---------------------------- MODULE MiniClients ----------------------------
(***************************************************************************)
(* The programs of hw3 as sequences of library calls for module LibMini,   *)
(* and a few more that make the calls these programs do not make.          *)
(***************************************************************************)
EXTENDS LibMini

Do(op) == [op |-> op]
Empty(set) == [op |-> "sigemptyset", set |-> set]
Add(set, sig) == [op |-> "sigaddset", set |-> set, sig |-> sig]
Del(set, sig) == [op |-> "sigdelset", set |-> set, sig |-> sig]
IsMember(set, sig) == [op |-> "sigismember", set |-> set, sig |-> sig]
ProcMask(how, set, oldset) ==
    [op |-> "sigprocmask", how |-> how, set |-> set, oldset |-> oldset]
Pending(set) == [op |-> "sigpending", set |-> set]
Signal(sig, handler) == [op |-> "signal", sig |-> sig, handler |-> handler]
Alarm(seconds) == [op |-> "alarm", seconds |-> seconds]
Sleep(seconds) == [op |-> "sleep", seconds |-> seconds]
Write(word) == [op |-> "write", word |-> word]
Plain(op, errors) == [op |-> op, errors |-> errors]
Perr(prefix) == [op |-> "perror", prefix |-> prefix]
IfElse(cond, else) == [op |-> "if", cond |-> cond, else |-> else]
LongJmp(val) == [op |-> "longjmp", val |-> val]

alarm1 == <<Alarm(3), Do("pause")>>

\* What alarm2 and alarm3 do at their end, from instruction n on; the first branch
\* goes straight to the exit that follows the return of main.
Report(n) ==
    <<Pending("s"), IfElse("rax_is_-1", n + 3), Perr(TRUE),
      IsMember("s", SIGALRM), IfElse("rax_not_0", n + 7), Write("pending"), Do("exit"),
      Write("not_pending")>>

alarm2 ==
    <<Empty("s"), Add("s", SIGALRM), ProcMask("SIG_BLOCK", "s", "NULL"),
      Alarm(3), Sleep(5)>> \o Report(6)

alarm3 ==
    <<Empty("s"), Add("s", SIGALRM), ProcMask("SIG_BLOCK", "s", "NULL"),
      Signal(SIGALRM, "SIG_IGN"), Signal(SIGINT, "handler"),
      Alarm(1), Do("pause")>> \o Report(8)

sig1 ==
    <<Signal(SIGQUIT, "sig_quit"), IfElse("rax_is_-1", 4), Perr(TRUE),
      Empty("new"), Add("new", SIGQUIT),
      ProcMask("SIG_BLOCK", "new", "old"), IfElse("rax_is_-1", 9), Perr(TRUE),
      Sleep(5),
      Pending("pend"), IfElse("rax_is_-1", 13), Perr(TRUE),
      IsMember("pend", SIGQUIT), IfElse("rax_not_0", 16), Write("SIGQUIT_pending"),
      ProcMask("SIG_SETMASK", "old", "NULL"), IfElse("rax_is_-1", 19), Perr(TRUE),
      Write("SIGQUIT_unblocked"), Sleep(10), Write("del_SIGQUIT_signal"),
      Del("new", SIGQUIT), IsMember("new", SIGQUIT), IfElse("rax_not_0", 26), Perr(TRUE),
      ProcMask("SIG_BLOCK", "new", "old"), IfElse("rax_is_-1", 29), Perr(TRUE),
      Sleep(5), Write("end"), Do("exit")>>

\* The other branch, for another signal than SIGQUIT, is not reached.
sig_quit == <<Write("handler_catched")>>

jmp1 == <<Do("setjmp"), IfElse("rax_not_0", 4), Do("i++"), IfElse("i_below_10", 6), Do("funs[i]")>>

FUNBODY(m, from) == <<Write(m), LongJmp(from)>>

funs == <<"a", "b", "c", "d", "e", "f", "g", "h", "i", "j">>

write1 == <<Write("Hello"), Write("blank"), Write("world"), Write("!")>>

-----------------------------------------------------------------------------
(* Programs that are not in the repository. *)

\* A call fails and the program tells it, without and with a prefix.
report == <<Plain("plain", {2, 39}), IfElse("rax_is_-1", 4), Perr(FALSE)>>
report_prefix == <<Plain("plain", {2}), IfElse("rax_is_-1", 4), Perr(TRUE)>>

\* The calls no other program makes, with the arguments they refuse.
edges ==
    <<Plain("plain_ptr", {34}), Do("sigfillset"), Empty("NULL"), Add("s", NSIG),
      Del("s", 0), IsMember("s", NSIG), Signal(0, "SIG_IGN"), Empty("s"),
      Add("s", SIGINT), ProcMask("SIG_UNBLOCK", "s", "s"), Do("sigfillset"),
      IsMember("s", SIGINT)>>

\* A pause that SIGALRM ends by a longjmp out of its handler.
timeout == <<Signal(SIGALRM, "jump"), Do("setjmp"), IfElse("rax_not_0", 5), Do("exit"),
             Alarm(1), Do("pause")>>
jump == <<LongJmp(1)>>

ClientCode ==
    [alarm1 |-> alarm1, alarm2 |-> alarm2, alarm3 |-> alarm3, handler |-> <<>>,
     sig1 |-> sig1, sig_quit |-> sig_quit, jmp1 |-> jmp1,
     a |-> FUNBODY("a", 1), b |-> FUNBODY("b", 2), c |-> FUNBODY("c", 3),
     d |-> FUNBODY("d", 4), e |-> FUNBODY("e", 5), f |-> FUNBODY("f", 6),
     g |-> FUNBODY("g", 7), h |-> FUNBODY("h", 8), i |-> FUNBODY("i", 9),
     j |-> FUNBODY("j", 10),
     write1 |-> write1, report |-> report, report_prefix |-> report_prefix,
     edges |-> edges, timeout |-> timeout, jump |-> jump]

-----------------------------------------------------------------------------
(* Properties of the programs. *)

\* What sigpending and sigismember tell alarm2 and alarm3 is so: "pending" is
\* written only while SIGALRM waits, and alarm2, which sleeps for longer than its
\* alarm, never finds it missing.
AlarmAnswers ==
    /\ said = "pending" => SIGALRM \in pending
    /\ main = "alarm2" => said # "not_pending"

\* The value that setjmp returns to jmp1 is the number of the function that jumped,
\* and i has kept its value over the jumps: they agree at the test of i.
JumpsCounted ==
    \A k \in DOMAIN stack : stack[k].fn = "jmp1" /\ stack[k].at = 4 => i = stack[k].rax

\* None of the calls whose result the programs of the repository test ever fails,
\* whatever signals come and whatever handlers do in between: they never get to
\* perror, where the errno of a handler's call might be told as that of main's.
NoPerror == main \notin {"report", "report_prefix"} => told = NotYet

\* A SIGQUIT that sig1 has blocked, or that comes at any later time, is taken
\* from the pending ones before sig1 ends: its oldmask puts back the mask and
\* its second SIG_BLOCK, of the set without SIGQUIT, blocks nothing.
QuitIsTaken ==
    main = "sig1" /\ SIGQUIT \in pending ~> SIGQUIT \notin pending \/ status = "killed"

InPause == Top.call = "blocked" /\ Call.op = "pause"

\* A SIGINT ends the pause of alarm3 for good although signal() asks for
\* SA_RESTART.
PauseEnds == main = "alarm3" /\ InPause /\ SIGINT \in pending ~> status # "running"

\* Every program ends, but for alarm3 when no signal reaches its pause.
ClientsEnd == <>[](status = "running" => main = "alarm3" /\ InPause)
=============================================================================
