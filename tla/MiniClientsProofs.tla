------------------------- MODULE MiniClientsProofs -------------------------
(***************************************************************************)
(* What the programs of hw3 get from libmini, proved for every number of   *)
(* signals that other processes send and every moment at which they come:  *)
(* perror tells the error of the call that failed and is never reached in  *)
(* the programs of the repository, alarm2 and alarm3 are told the truth    *)
(* about SIGALRM, and jmp1 counts its jumps.                               *)
(***************************************************************************)
EXTENDS MiniClients, LibMiniProofs

-----------------------------------------------------------------------------
(* The programs. *)

Reports == {"report", "report_prefix"}
Plains == {"alarm1", "write1", "edges"}

\* The process is one of the programs of module MiniClients, timeout excepted, whose
\* jump out of a handler the run mini_jump is about.
Clients ==
    /\ Code = ClientCode /\ Funs = funs
    /\ Mains \subseteq {"alarm2", "alarm3", "sig1", "jmp1"} \cup Reports \cup Plains
    /\ {SIGINT, SIGQUIT, SIGALRM} \subseteq Signals
    /\ {"s", "new", "old", "pend"} \subseteq SetVars

\* The writes of perror give errors that have an entry in errmsg; only those on
\* sockets and under a disk quota (EDESTADDRREQ, EDQUOT) would not.
WritesTell == WriteErrors \subseteq 1..PERRMSG_MAX

-----------------------------------------------------------------------------
(* The inductive invariant, program by program. *)

\* main is alone on the stack and has no handlers.
Alone ==
    /\ Len(stack) = 1 /\ stack[1].fn = main
    /\ \A s \in Signals : disp[s] = "SIG_DFL"

\* main has made the system call in line n.
Past(n) == stack[1].at > n \/ (stack[1].at = n /\ stack[1].call = "back")

\* Programs that call neither perror nor a function.
PlainInv == Alone /\ told = NotYet /\ said # "pending"

\* A failed call leaves its error in errno up to perror.
Failed == errno = failed /\ failed \in {2, 39} /\ (main = "report_prefix" => failed = 2)

ReportInv ==
    LET f == stack[1]
    IN  /\ Alone /\ said # "pending"
        /\ f.at \in 1..4 /\ f.call # "blocked" /\ (f.call = "back" => f.at = 1)
        /\ f.call = "back" =>
               f.ret \in {1, -2, -39} /\ (main = "report_prefix" => f.ret # -39)
        /\ f.at <= 3 => told = NotYet
        /\ f.at = 2 /\ f.rax = -1 => Failed
        /\ f.at = 3 => Failed
        /\ WritesTell => PerrorTells

\* Since the alarm is for 3 seconds and the sleep for 5, SIGALRM is pending when the
\* sleep ends: at any time of the sleep it is, or two seconds are left behind the alarm.
Alarm2Inv ==
    LET f == stack[1]
    IN  /\ Alone /\ told = NotYet /\ said # "not_pending"
        /\ f.at \in 1..12 /\ f.at # 8
        /\ f.call = "blocked" => f.at = 5
        /\ f.call = "back" => f.at \in {3, 4, 5, 6, 11}
        /\ f.at = 2 => sets["s"] = {}
        /\ f.at = 3 /\ f.call = "no" => sets["s"] = {13}
        /\ Past(3) => SIGALRM \in mask
        /\ f.at \in {3, 6} /\ f.call = "back" => f.ret = 0
        /\ (f.at = 4 /\ f.call = "back") \/ (f.at = 5 /\ f.call = "no") =>
               SIGALRM \in pending \/ timer \in 1..3
        /\ f.at = 5 /\ f.call = "blocked" =>
               SIGALRM \in pending \/ (timer >= 1 /\ timer + 2 <= rem)
        /\ Past(5) => SIGALRM \in pending
        /\ Past(6) /\ f.at <= 9 => 13 \in sets["s"]
        /\ f.at = 7 => f.rax = 0
        /\ f.at = 10 => f.rax # 0
        /\ said = "pending" => f.at >= 11

\* alarm3 ignores SIGALRM, which stays pending as long as it is blocked, and the
\* handler of SIGINT runs and returns with SIGALRM blocked.
Alarm3Frames ==
    \A k \in 2..Len(stack) :
        /\ stack[k].fn = "handler" /\ stack[k].call = "no"
        /\ SIGALRM \in stack[k].mask

Alarm3Inv ==
    LET f == stack[1]
    IN  /\ f.fn = main /\ Alarm3Frames /\ told = NotYet
        /\ \A s \in Signals : disp[s] \in {"SIG_DFL", "SIG_IGN", "handler"}
        /\ Len(stack) > 1 => Past(5)
        /\ (\E s \in Signals : disp[s] = "handler") => Past(5)
        /\ f.at \in 1..16 /\ f.at # 10
        /\ f.call = "blocked" => f.at = 7
        /\ f.call = "back" => f.at \in {3, 4, 5, 6, 7, 8, 13, 15}
        /\ f.at = 2 => sets["s"] = {}
        /\ f.at = 3 /\ f.call = "no" => sets["s"] = {13}
        /\ Past(3) => SIGALRM \in mask
        /\ f.at = 8 /\ f.call = "back" => f.ret = 0
        /\ f.at = 9 => f.rax = 0
        /\ Past(8) /\ f.at <= 11 /\ 13 \in sets["s"] => SIGALRM \in pending
        /\ f.at = 12 /\ f.rax # 0 => SIGALRM \in pending
        /\ f.at \in 13..14 => SIGALRM \in pending
        /\ said = "pending" => f.at \in 13..14

\* The handler of SIGQUIT writes.
Sig1Frames ==
    \A k \in 2..Len(stack) :
        /\ stack[k].fn = "sig_quit" /\ stack[k].call # "blocked"
        /\ stack[k].call = "back" => stack[k].at = 1

\* None of the calls of sig1 fails, with or without a SIGQUIT in between, and SIGQUIT
\* is not in the set that it was deleted from: sig1 reaches no perror.
Sig1Inv ==
    LET f == stack[1]
    IN  /\ f.fn = main /\ told = NotYet /\ said # "pending"
        /\ Sig1Frames
        /\ \A s \in Signals : disp[s] \in {"SIG_DFL", "sig_quit"}
        /\ f.at \in 1..31 /\ f.at \notin {3, 8, 12, 18, 25, 28}
        /\ f.call = "blocked" => f.at \in {9, 20, 29}
        /\ f.call = "back" => f.at \in {1, 6, 9, 10, 15, 16, 19, 20, 21, 26, 29, 30}
        /\ f.at \in {1, 6, 10, 16, 26} /\ f.call = "back" => f.ret = 0
        /\ f.at \in {2, 7, 11, 17, 27} => f.rax = 0
        /\ f.at = 23 => 2 \notin sets["new"]
        /\ f.at = 24 => f.rax = 0

\* jmp1 and the function that it has called.
Jmp1Inv ==
    LET f == stack[1]
    IN  /\ f.fn = main /\ f.call = "no" /\ told = NotYet /\ said # "pending"
        /\ mask = {} /\ \A s \in Signals : disp[s] = "SIG_DFL"
        /\ f.at \in 1..6
        /\ f.at = 1 => i = 0
        /\ f.at > 1 => jb.at = 2 /\ jb.depth = 1 /\ jb.held = {}
        /\ f.at = 2 => (f.rax = 0 /\ i = 0) \/ f.rax = i + 1
        /\ f.at = 3 => f.rax = i + 1
        /\ f.at = 4 => f.rax = i
        /\ f.at = 5 => i < 10
        /\ Len(stack) = 1 \/ (/\ Len(stack) = 2 /\ f.at = 5
                              /\ stack[2].fn = funs[i + 1] /\ stack[2].sig = 0
                              /\ stack[2].at \in 1..2
                              /\ stack[2].call = "back" => stack[2].at = 1)

ClientInv ==
    /\ main \in Plains => PlainInv
    /\ main \in Reports => ReportInv
    /\ main = "alarm2" => Alarm2Inv
    /\ main = "alarm3" => Alarm3Inv
    /\ main = "sig1" => Sig1Inv
    /\ main = "jmp1" => Jmp1Inv

-----------------------------------------------------------------------------
(* The lines of the programs. *)

LEMMA Functions ==
    ASSUME Clients
    PROVE  /\ DOMAIN Code = {"alarm1", "alarm2", "alarm3", "handler", "sig1", "sig_quit",
                             "jmp1", "a", "b", "c", "d", "e", "f", "g", "h", "i", "j",
                             "write1", "report", "report_prefix", "edges", "timeout", "jump"}
           /\ Code["alarm1"] = alarm1 /\ Code["alarm2"] = alarm2 /\ Code["alarm3"] = alarm3
           /\ Code["handler"] = <<>> /\ Code["sig1"] = sig1 /\ Code["sig_quit"] = sig_quit
           /\ Code["jmp1"] = jmp1 /\ Code["write1"] = write1 /\ Code["report"] = report
           /\ Code["report_prefix"] = report_prefix /\ Code["edges"] = edges
           /\ Code["timeout"] = timeout /\ Code["jump"] = jump
BY DEF Clients, ClientCode

\* The functions of the array: the k-th one jumps with k.
LEMMA FunLines ==
    ASSUME Clients, NEW k \in 1..10
    PROVE  /\ funs[k] \in DOMAIN Code
           /\ Code[funs[k]] = FUNBODY(funs[k], k)
           /\ funs[k] \notin {"pending", "jmp1"}
<1>1. Code = ClientCode
  BY DEF Clients
<1>2. /\ Code["a"] = FUNBODY("a", 1) /\ Code["b"] = FUNBODY("b", 2)
      /\ Code["c"] = FUNBODY("c", 3) /\ Code["d"] = FUNBODY("d", 4)
      /\ Code["e"] = FUNBODY("e", 5) /\ Code["f"] = FUNBODY("f", 6)
      /\ Code["g"] = FUNBODY("g", 7) /\ Code["h"] = FUNBODY("h", 8)
      /\ Code["i"] = FUNBODY("i", 9) /\ Code["j"] = FUNBODY("j", 10)
  BY <1>1 DEF ClientCode
<1>3. k \in {1, 2, 3, 4, 5, 6, 7, 8, 9, 10}
  OBVIOUS
<1>4. /\ funs[1] = "a" /\ funs[2] = "b" /\ funs[3] = "c" /\ funs[4] = "d" /\ funs[5] = "e"
      /\ funs[6] = "f" /\ funs[7] = "g" /\ funs[8] = "h" /\ funs[9] = "i" /\ funs[10] = "j"
  BY DEF funs
<1>5. Code[funs[k]] = FUNBODY(funs[k], k)
  BY <1>2, <1>3, <1>4
<1>6. funs[k] \in {"a", "b", "c", "d", "e", "f", "g", "h", "i", "j"}
  BY <1>3, <1>4
<1>7. funs[k] \in DOMAIN Code
  BY <1>6, Functions
<1> QED BY <1>5, <1>6, <1>7

LEMMA Alarm2Lines ==
    /\ Len(alarm2) = 13
    /\ alarm2[1] = Empty("s") /\ alarm2[2] = Add("s", SIGALRM)
    /\ alarm2[3] = ProcMask("SIG_BLOCK", "s", "NULL")
    /\ alarm2[4] = Alarm(3) /\ alarm2[5] = Sleep(5)
    /\ alarm2[6] = Pending("s") /\ alarm2[7] = IfElse("rax_is_-1", 9)
    /\ alarm2[9] = IsMember("s", SIGALRM) /\ alarm2[10] = IfElse("rax_not_0", 13)
    /\ alarm2[11] = Write("pending") /\ alarm2[12] = Do("exit")
    /\ alarm2[13] = Write("not_pending")
    /\ alarm2[8].op = "perror"
<1>1. alarm2[8].op = "perror"
  BY DEF alarm2, Report, Perr
<1> QED BY <1>1 DEF alarm2, Report

LEMMA Alarm3Lines ==
    /\ Len(alarm3) = 15
    /\ alarm3[1] = Empty("s") /\ alarm3[2] = Add("s", SIGALRM)
    /\ alarm3[3] = ProcMask("SIG_BLOCK", "s", "NULL")
    /\ alarm3[4] = Signal(SIGALRM, "SIG_IGN") /\ alarm3[5] = Signal(SIGINT, "handler")
    /\ alarm3[6] = Alarm(1) /\ alarm3[7] = Do("pause")
    /\ alarm3[8] = Pending("s") /\ alarm3[9] = IfElse("rax_is_-1", 11)
    /\ alarm3[11] = IsMember("s", SIGALRM) /\ alarm3[12] = IfElse("rax_not_0", 15)
    /\ alarm3[13] = Write("pending") /\ alarm3[14] = Do("exit")
    /\ alarm3[15] = Write("not_pending")
    /\ alarm3[10].op = "perror"
<1>1. alarm3[10].op = "perror"
  BY DEF alarm3, Report, Perr
<1> QED BY <1>1 DEF alarm3, Report

LEMMA Sig1Lines ==
    /\ Len(sig1) = 31
    /\ sig1[1] = Signal(SIGQUIT, "sig_quit")
    /\ sig1[2] = IfElse("rax_is_-1", 4) /\ sig1[7] = IfElse("rax_is_-1", 9)
    /\ sig1[11] = IfElse("rax_is_-1", 13) /\ sig1[17] = IfElse("rax_is_-1", 19)
    /\ sig1[27] = IfElse("rax_is_-1", 29)
    /\ sig1[14] = IfElse("rax_not_0", 16) /\ sig1[24] = IfElse("rax_not_0", 26)
    /\ \A n \in {3, 8, 12, 18, 25, 28} : sig1[n].op = "perror"
    /\ sig1[4] = Empty("new") /\ sig1[5] = Add("new", SIGQUIT)
    /\ sig1[22] = Del("new", SIGQUIT) /\ sig1[23] = IsMember("new", SIGQUIT)
    /\ sig1[13] = IsMember("pend", SIGQUIT)
    /\ sig1[6] = ProcMask("SIG_BLOCK", "new", "old")
    /\ sig1[16] = ProcMask("SIG_SETMASK", "old", "NULL")
    /\ sig1[26] = ProcMask("SIG_BLOCK", "new", "old")
    /\ sig1[9] = Sleep(5) /\ sig1[20] = Sleep(10) /\ sig1[29] = Sleep(5)
    /\ sig1[10] = Pending("pend")
    /\ sig1[15] = Write("SIGQUIT_pending") /\ sig1[19] = Write("SIGQUIT_unblocked")
    /\ sig1[21] = Write("del_SIGQUIT_signal") /\ sig1[30] = Write("end")
    /\ sig1[31] = Do("exit")
<1>1. \A n \in {3, 8, 12, 18, 25, 28} : sig1[n].op = "perror"
  BY DEF sig1, Perr
<1> QED BY <1>1 DEF sig1

\* The calls have arguments of the right types.
LEMMA CallsOK ==
    ASSUME Clients
    PROVE  /\ \A op \in {"pause", "exit", "setjmp", "i++", "funs[i]", "sigfillset"} : CallOK(Do(op))
           /\ \A var \in SetVars \cup {"NULL"} : CallOK(Empty(var))
           /\ \A var \in SetVars : \A n \in Int :
                  CallOK(Add(var, n)) /\ CallOK(Del(var, n)) /\ CallOK(IsMember(var, n))
           /\ \A how \in {"SIG_BLOCK", "SIG_UNBLOCK", "SIG_SETMASK"} :
                  \A var \in SetVars : \A old \in SetVars \cup {"NULL"} :
                      CallOK(ProcMask(how, var, old))
           /\ \A var \in SetVars : CallOK(Pending(var))
           /\ \A n \in Int : \A handler \in DOMAIN Code \cup {"SIG_IGN"} : CallOK(Signal(n, handler))
           /\ \A n \in Nat : CallOK(Alarm(n)) /\ CallOK(Sleep(n))
           /\ \A word : CallOK(Write(word))
           /\ \A op \in {"plain", "plain_ptr"} : \A errors \in SUBSET (Nat \ {0}) :
                  CallOK(Plain(op, errors))
           /\ \A cond : \A n \in Nat \ {0} : CallOK(IfElse(cond, n))
           /\ \A n \in Int : CallOK(LongJmp(n))
<1>1. \A op \in {"pause", "exit", "setjmp", "i++", "funs[i]", "sigfillset"} : CallOK(Do(op))
  BY DEF CallOK, Do
<1>2. \A var \in SetVars \cup {"NULL"} : CallOK(Empty(var))
  BY DEF CallOK, Empty
<1>3. \A var \in SetVars : \A n \in Int :
          CallOK(Add(var, n)) /\ CallOK(Del(var, n)) /\ CallOK(IsMember(var, n))
  BY DEF CallOK, Add, Del, IsMember
<1>4. \A how \in {"SIG_BLOCK", "SIG_UNBLOCK", "SIG_SETMASK"} :
          \A var \in SetVars : \A old \in SetVars \cup {"NULL"} :
              CallOK(ProcMask(how, var, old))
  BY DEF CallOK, ProcMask
<1>5. \A var \in SetVars : CallOK(Pending(var))
  BY DEF CallOK, Pending
<1>6. \A n \in Int : \A handler \in DOMAIN Code \cup {"SIG_IGN"} : CallOK(Signal(n, handler))
  BY DEF CallOK, Signal
<1>7. \A n \in Nat : CallOK(Alarm(n)) /\ CallOK(Sleep(n))
  BY DEF CallOK, Alarm, Sleep
<1>8. \A word : CallOK(Write(word))
  BY DEF CallOK, Write
<1>9. \A op \in {"plain", "plain_ptr"} : \A errors \in SUBSET (Nat \ {0}) :
          CallOK(Plain(op, errors))
  BY DEF CallOK, Plain
<1>10. \A cond : \A n \in Nat \ {0} : CallOK(IfElse(cond, n))
  BY DEF CallOK, IfElse
<1>11. \A n \in Int : CallOK(LongJmp(n))
  BY DEF CallOK, LongJmp
<1> QED BY <1>1, <1>2, <1>3, <1>4, <1>5, <1>6, <1>7, <1>8, <1>9, <1>10, <1>11

LEMMA PerrorOK == ASSUME NEW call, call.op = "perror" PROVE CallOK(call)
BY DEF CallOK

\* Every program of hw3 compiles.
LEMMA ClientsCompile ==
    ASSUME Clients
    PROVE  Compiles
<1> DEFINE Good(f) == Len(Code[f]) \in Nat /\ \A n \in 1..Len(Code[f]) : CallOK(Code[f][n])
<1>1. /\ {"s", "new", "old", "pend"} \subseteq SetVars
      /\ {"sig_quit", "handler", "jump"} \subseteq DOMAIN Code
      /\ SIGINT \in Int /\ SIGQUIT \in Int /\ SIGALRM \in Int /\ NSIG \in Int
  BY Functions DEF Clients, SIGINT, SIGQUIT, SIGALRM, NSIG
<1>2. Good("alarm1")
  <2>1. Len(alarm1) = 2 /\ alarm1[1] = Alarm(3) /\ alarm1[2] = Do("pause")
    BY DEF alarm1
  <2> QED BY <2>1, Functions, CallsOK
<1>3. Good("alarm2")
  <2>1. \A n \in 1..13 : n \in 1..7 \/ n = 8 \/ n \in 9..13
    OBVIOUS
  <2>2. \A n \in 1..7 : CallOK(alarm2[n])
    BY <1>1, CallsOK, Alarm2Lines
  <2>3. \A n \in 9..13 : CallOK(alarm2[n])
    BY <1>1, CallsOK, Alarm2Lines
  <2>4. CallOK(alarm2[8])
    BY Alarm2Lines, PerrorOK
  <2>5. Code["alarm2"] = alarm2 /\ Len(alarm2) = 13
    BY Functions, Alarm2Lines
  <2> QED BY <2>1, <2>2, <2>3, <2>4, <2>5
<1>4. Good("alarm3")
  <2>1. \A n \in 1..15 : n \in 1..9 \/ n = 10 \/ n \in 11..15
    OBVIOUS
  <2>2. \A n \in 1..9 : CallOK(alarm3[n])
    BY <1>1, CallsOK, Alarm3Lines
  <2>3. \A n \in 11..15 : CallOK(alarm3[n])
    BY <1>1, CallsOK, Alarm3Lines
  <2>4. CallOK(alarm3[10])
    BY Alarm3Lines, PerrorOK
  <2>5. Code["alarm3"] = alarm3 /\ Len(alarm3) = 15
    BY Functions, Alarm3Lines
  <2> QED BY <2>1, <2>2, <2>3, <2>4, <2>5
<1>5. Good("handler")
  BY Functions
<1>6. Good("sig1")
  <2>1. \A n \in {3, 8, 12, 18, 25, 28} : CallOK(sig1[n])
    BY Sig1Lines, PerrorOK
  <2>2. \A n \in {2, 7, 11, 14, 17, 24, 27} : CallOK(sig1[n])
    BY CallsOK, Sig1Lines
  <2>3. \A n \in {1, 4, 5, 6, 10, 13, 16, 22, 23, 26} : CallOK(sig1[n])
    BY <1>1, CallsOK, Sig1Lines
  <2>4. \A n \in {9, 15, 19, 20, 21, 29, 30, 31} : CallOK(sig1[n])
    BY CallsOK, Sig1Lines
  <2>5. \A n \in 1..31 : \/ n \in {3, 8, 12, 18, 25, 28} \/ n \in {2, 7, 11, 14, 17, 24, 27}
                         \/ n \in {1, 4, 5, 6, 10, 13, 16, 22, 23, 26}
                         \/ n \in {9, 15, 19, 20, 21, 29, 30, 31}
    OBVIOUS
  <2>6. Code["sig1"] = sig1 /\ Len(sig1) = 31
    BY Functions, Sig1Lines
  <2> QED BY <2>1, <2>2, <2>3, <2>4, <2>5, <2>6
<1>7. Good("sig_quit")
  <2>1. Len(sig_quit) = 1 /\ sig_quit[1] = Write("handler_catched")
    BY DEF sig_quit
  <2> QED BY <2>1, Functions, CallsOK
<1>8. Good("jmp1")
  <2>1. /\ Len(jmp1) = 5 /\ jmp1[1] = Do("setjmp") /\ jmp1[2] = IfElse("rax_not_0", 4)
        /\ jmp1[3] = Do("i++") /\ jmp1[4] = IfElse("i_below_10", 6) /\ jmp1[5] = Do("funs[i]")
    BY DEF jmp1
  <2> QED BY <2>1, Functions, CallsOK
<1>9. \A k \in 1..10 : Good(funs[k])
  <2> TAKE k \in 1..10
  <2>1. Code[funs[k]] = FUNBODY(funs[k], k)
    BY FunLines
  <2>2. /\ Len(FUNBODY(funs[k], k)) = 2 /\ FUNBODY(funs[k], k)[1] = Write(funs[k])
        /\ FUNBODY(funs[k], k)[2] = LongJmp(k)
    BY DEF FUNBODY
  <2> QED BY <2>1, <2>2, CallsOK
<1>10. Good("write1")
  <2>1. /\ Len(write1) = 4 /\ write1[1] = Write("Hello") /\ write1[2] = Write("blank")
        /\ write1[3] = Write("world") /\ write1[4] = Write("!")
    BY DEF write1
  <2> QED BY <2>1, Functions, CallsOK
<1>11. Good("report") /\ Good("report_prefix")
  <2>1. /\ Len(report) = 3 /\ report[1] = Plain("plain", {2, 39})
        /\ report[2] = IfElse("rax_is_-1", 4) /\ report[3].op = "perror"
    BY DEF report, Perr
  <2>2. /\ Len(report_prefix) = 3 /\ report_prefix[1] = Plain("plain", {2})
        /\ report_prefix[2] = IfElse("rax_is_-1", 4) /\ report_prefix[3].op = "perror"
    BY DEF report_prefix, Perr
  <2>3. {2, 39} \in SUBSET (Nat \ {0}) /\ {2} \in SUBSET (Nat \ {0})
    OBVIOUS
  <2> QED BY <2>1, <2>2, <2>3, Functions, CallsOK, PerrorOK
<1>12. Good("edges")
  <2>1. /\ Len(edges) = 12 /\ edges[1] = Plain("plain_ptr", {34}) /\ edges[2] = Do("sigfillset")
        /\ edges[3] = Empty("NULL") /\ edges[4] = Add("s", NSIG) /\ edges[5] = Del("s", 0)
        /\ edges[6] = IsMember("s", NSIG) /\ edges[7] = Signal(0, "SIG_IGN")
        /\ edges[8] = Empty("s") /\ edges[9] = Add("s", SIGINT)
        /\ edges[10] = ProcMask("SIG_UNBLOCK", "s", "s") /\ edges[11] = Do("sigfillset")
        /\ edges[12] = IsMember("s", SIGINT)
    BY DEF edges
  <2>2. {34} \in SUBSET (Nat \ {0})
    OBVIOUS
  <2>3. \A n \in 1..6 : CallOK(edges[n])
    BY <1>1, <2>1, <2>2, CallsOK
  <2>4. \A n \in 7..12 : CallOK(edges[n])
    BY <1>1, <2>1, CallsOK
  <2>5. \A n \in 1..12 : n \in 1..6 \/ n \in 7..12
    OBVIOUS
  <2> QED BY <2>1, <2>3, <2>4, <2>5, Functions
<1>13. Good("timeout")
  <2>1. /\ Len(timeout) = 6 /\ timeout[1] = Signal(SIGALRM, "jump") /\ timeout[2] = Do("setjmp")
        /\ timeout[3] = IfElse("rax_not_0", 5) /\ timeout[4] = Do("exit")
        /\ timeout[5] = Alarm(1) /\ timeout[6] = Do("pause")
    BY DEF timeout
  <2> QED BY <1>1, <2>1, Functions, CallsOK
<1>14. Good("jump")
  <2>1. Len(jump) = 1 /\ jump[1] = LongJmp(1)
    BY DEF jump
  <2> QED BY <2>1, Functions, CallsOK
<1>15. \A f \in {"a", "b", "c", "d", "e", "f", "g", "h", "i", "j"} : \E k \in 1..10 : f = funs[k]
  <2>1. /\ funs[1] = "a" /\ funs[2] = "b" /\ funs[3] = "c" /\ funs[4] = "d" /\ funs[5] = "e"
        /\ funs[6] = "f" /\ funs[7] = "g" /\ funs[8] = "h" /\ funs[9] = "i" /\ funs[10] = "j"
    BY DEF funs
  <2>2. {1, 2, 3, 4, 5, 6, 7, 8, 9, 10} \subseteq 1..10
    OBVIOUS
  <2> QED BY <2>1, <2>2
<1> HIDE DEF Good
<1>16. \A f \in DOMAIN Code : Good(f)
  BY <1>2, <1>3, <1>4, <1>5, <1>6, <1>7, <1>8, <1>9, <1>10, <1>11, <1>12, <1>13, <1>14,
     <1>15, Functions
<1> QED BY <1>16 DEF Good, Compiles, Clients

-----------------------------------------------------------------------------
(* What a call does to the running function and to the state. *)

\* The running function goes on so; the functions below it stay as they are.
TopTo(at, call, ret, rax) ==
    /\ Len(stack') = Len(stack)
    /\ \A k \in 1..(Len(stack) - 1) : stack'[k] = stack[k]
    /\ stack'[Len(stack)].fn = Top.fn /\ stack'[Len(stack)].sig = Top.sig
    /\ stack'[Len(stack)].mask = Top.mask
    /\ stack'[Len(stack)].at = at /\ stack'[Len(stack)].call = call
    /\ stack'[Len(stack)].ret = ret /\ stack'[Len(stack)].rax = rax

\* The program's own variables, what the kernel keeps and what was written stay.
Own == main' = main /\ i' = i /\ jb' = jb
Still == mask' = mask /\ pending' = pending /\ disp' = disp /\ timer' = timer /\ rem' = rem
Silent == said' = said /\ told' = told

LEMMA TopReplaced ==
    ASSUME TInv, NEW act, stack' = WithTop(act),
           act.fn = Top.fn, act.sig = Top.sig, act.mask = Top.mask
    PROVE  TopTo(act.at, act.call, act.ret, act.rax)
<1>1. stack \in Seq(Activation) /\ Len(stack) \in Nat /\ Len(stack) >= 1
  BY TopType DEF TInv, TypeOK
<1>2. /\ Len(stack') = Len(stack)
      /\ \A k \in 1..Len(stack) : stack'[k] = IF k = Len(stack) THEN act ELSE stack[k]
  BY <1>1 DEF WithTop
<1> QED BY <1>1, <1>2 DEF TopTo

LEMMA ReturnTo ==
    ASSUME TInv, NEW v, Return(v)
    PROVE  TopTo(Top.at + 1, "no", Top.ret, v)
<1> DEFINE next == Top.at + 1
           act == [Top EXCEPT !.call = "no", !.rax = v, !.at = next]
<1>1. stack' = WithTop(act)
  BY TopType DEF Return, Activation
<1> HIDE DEF next
<1>2. /\ act.fn = Top.fn /\ act.sig = Top.sig /\ act.mask = Top.mask /\ act.at = next
      /\ act.call = "no" /\ act.ret = Top.ret /\ act.rax = v
  BY TopType DEF Activation
<1> HIDE DEF act
<1>3. TopTo(act.at, act.call, act.ret, act.rax)
  BY <1>1, <1>2, TopReplaced
<1> QED BY <1>2, <1>3 DEF next

LEMMA SysReturnTo ==
    ASSUME TInv, NEW r, SysReturn(r)
    PROVE  TopTo(Top.at, "back", r, Top.rax)
<1> DEFINE act == [Top EXCEPT !.call = "back", !.ret = r]
<1>1. /\ act.fn = Top.fn /\ act.sig = Top.sig /\ act.mask = Top.mask /\ act.at = Top.at
      /\ act.call = "back" /\ act.ret = r /\ act.rax = Top.rax
  BY TopType DEF Activation
<1>2. stack' = WithTop(act)
  BY DEF SysReturn
<1> HIDE DEF act
<1>3. TopTo(act.at, act.call, act.ret, act.rax)
  BY <1>1, <1>2, TopReplaced
<1> QED BY <1>1, <1>3

LEMMA BlockTo ==
    ASSUME TInv, Block
    PROVE  TopTo(Top.at, "blocked", Top.ret, Top.rax)
<1> DEFINE act == [Top EXCEPT !.call = "blocked"]
<1>1. /\ act.fn = Top.fn /\ act.sig = Top.sig /\ act.mask = Top.mask /\ act.at = Top.at
      /\ act.call = "blocked" /\ act.ret = Top.ret /\ act.rax = Top.rax
  BY TopType DEF Activation
<1>2. stack' = WithTop(act)
  BY DEF Block
<1> HIDE DEF act
<1>3. TopTo(act.at, act.call, act.ret, act.rax)
  BY <1>1, <1>2, TopReplaced
<1> QED BY <1>1, <1>3

\* A program step is the call it is at, or what the library does with a result, or
\* the end of a function.
LEMMA StepAtCall ==
    ASSUME Clients, TInv, Program, AtCall
    PROVE  \/ UserCall \/ sigfillset_crash \/ Perror \/ SystemCall
           \/ setjmp \/ LongJump \/ If \/ Increment \/ CallFun \/ exit
<1>1. Top.at \in Nat /\ Len(Code[Top.fn]) \in Nat
  BY ClientsCompile, TopType DEF Compiles, Activation
<1>2. ~(Top.at > Len(Code[Top.fn])) /\ Top.call # "back"
  BY <1>1 DEF AtCall
<1> QED BY <1>2 DEF Program, start_exit, myrt

LEMMA StepBack ==
    ASSUME Program, Top.call = "back"
    PROVE  Wrap \/ start_exit \/ myrt
BY DEF Program, AtCall

LEMMA OnSetDoes ==
    ASSUME TInv, NEW var, NEW word, NEW v, OnSet(var, word, v)
    PROVE  TopTo(Top.at + 1, "no", Top.ret, v) /\ sets' = [sets EXCEPT ![var] = word]
BY ReturnTo DEF OnSet, Done

LEMMA UserCallDoes ==
    ASSUME Clients, TInv, Program, AtCall,
           Call.op \in {"sigemptyset", "sigaddset", "sigdelset", "sigismember"}
    PROVE  UserCall /\ Own /\ Still /\ Silent
<1>1. UserCall
  BY StepAtCall DEF sigfillset_crash, Perror, SystemCall, setjmp, LongJump, If, Increment,
                    CallFun, exit
<1> QED BY <1>1 DEF UserCall, Own, Still, Silent, program, kernel

LEMMA EmptyDoes ==
    ASSUME Clients, TInv, Program, AtCall, NEW var, var # "NULL", Call = Empty(var)
    PROVE  /\ TopTo(Top.at + 1, "no", Top.ret, 0) /\ Own /\ Still /\ Silent
           /\ sets' = [sets EXCEPT ![var] = {}]
<1>1. Call.op = "sigemptyset" /\ Call.set = var
  BY DEF Empty
<1>2. UserCall /\ Own /\ Still /\ Silent
  BY <1>1, UserCallDoes
<1>3. OnSet(var, {}, 0)
  BY <1>1, <1>2 DEF UserCall, sigemptyset
<1> QED BY <1>2, <1>3, OnSetDoes

LEMMA AddDoes ==
    ASSUME Clients, TInv, Program, AtCall, NEW var, NEW n, Valid(n),
           Call = Add(var, n)
    PROVE  /\ TopTo(Top.at + 1, "no", Top.ret, 0) /\ Own /\ Still /\ Silent
           /\ sets' = [sets EXCEPT ![var] = sets[var] \cup {n - 1}]
<1>1. Call.op = "sigaddset" /\ Call.set = var /\ Call.sig = n
  BY DEF Add
<1>2. UserCall /\ Own /\ Still /\ Silent
  BY <1>1, UserCallDoes
<1>3. OnSet(var, sets[var] \cup {n - 1}, 0)
  BY <1>1, <1>2 DEF UserCall, sigaddset, Refused, sigmask
<1> QED BY <1>2, <1>3, OnSetDoes

LEMMA DelDoes ==
    ASSUME Clients, TInv, Program, AtCall, NEW var, NEW n, Valid(n),
           Call = Del(var, n)
    PROVE  /\ TopTo(Top.at + 1, "no", Top.ret, 0) /\ Own /\ Still /\ Silent
           /\ sets' = [sets EXCEPT ![var] = sets[var] \ {n - 1}]
<1>1. Call.op = "sigdelset" /\ Call.set = var /\ Call.sig = n
  BY DEF Del
<1>2. UserCall /\ Own /\ Still /\ Silent
  BY <1>1, UserCallDoes
<1>3. OnSet(var, sets[var] \ {n - 1}, 0)
  BY <1>1, <1>2 DEF UserCall, sigdelset, Refused, sigmask
<1> QED BY <1>2, <1>3, OnSetDoes

LEMMA IsMemberDoes ==
    ASSUME Clients, TInv, Program, AtCall, NEW var \in SetVars, NEW n, Valid(n),
           Call = IsMember(var, n)
    PROVE  /\ TopTo(Top.at + 1, "no", Top.ret, IF n - 1 \in sets[var] THEN 1 ELSE 0)
           /\ Own /\ Still /\ Silent /\ sets' = sets
<1> DEFINE v == IF n - 1 \in sets[var] THEN 1 ELSE 0
<1>1. Call.op = "sigismember" /\ Call.set = var /\ Call.sig = n
  BY DEF IsMember
<1>2. UserCall /\ Own /\ Still /\ Silent
  BY <1>1, UserCallDoes
<1>3. sigmask(n) \cap sets[var] # {} <=> n - 1 \in sets[var]
  BY DEF sigmask
<1>4. OnSet(var, sets[var], v)
  BY <1>1, <1>2, <1>3 DEF UserCall, sigismember, Refused
<1> HIDE DEF v
<1>5. TopTo(Top.at + 1, "no", Top.ret, v) /\ sets' = [sets EXCEPT ![var] = sets[var]]
  BY <1>4, OnSetDoes
<1>6. sets' = sets
  BY <1>5 DEF TInv, TypeOK
<1> QED BY <1>2, <1>5, <1>6 DEF v

LEMMA WriteDoes ==
    ASSUME Clients, TInv, Program, AtCall, NEW word, Call = Write(word)
    PROVE  /\ \E r \in Int : TopTo(Top.at, "back", r, Top.rax)
           /\ Own /\ Still /\ told' = told /\ said' \in {said, word} /\ sets' = sets
<1>1. Call.op = "write" /\ Call.word = word
  BY DEF Write
<1>2. /\ write(word)
      /\ UNCHANGED <<program, library, kernel, failed, told, wanted>>
  BY <1>1, StepAtCall DEF UserCall, sigfillset_crash, Perror, SystemCall, setjmp, LongJump,
                          If, Increment, CallFun, exit
<1>3. \E r \in Int : SysReturn(r)
  BY <1>2, LibMiniAssumption DEF write
<1>4. said' \in {said, word}
  BY <1>2 DEF write
<1> QED BY <1>2, <1>3, <1>4, SysReturnTo DEF Own, Still, program, library, kernel

LEMMA PlainDoes ==
    ASSUME Clients, TInv, Program, AtCall, NEW errors, Call = Plain("plain", errors)
    PROVE  /\ \E r \in {1} \cup {-e : e \in errors} : TopTo(Top.at, "back", r, Top.rax)
           /\ Own /\ Still /\ Silent /\ UNCHANGED <<errno, failed>>
<1>1. Call.op = "plain" /\ Call.errors = errors
  BY DEF Plain
<1>2. /\ plain(errors)
      /\ UNCHANGED <<program, library, kernel, history>>
  BY <1>1, StepAtCall DEF UserCall, sigfillset_crash, Perror, SystemCall, setjmp, LongJump,
                          If, Increment, CallFun, exit
<1>3. PICK r \in {1} \cup {-e : e \in errors} : SysReturn(r)
  BY <1>2 DEF plain
<1>4. TopTo(Top.at, "back", r, Top.rax)
  BY <1>3, SysReturnTo
<1> QED BY <1>2, <1>4 DEF Own, Still, Silent, program, library, kernel, history

LEMMA ProcMaskDoes ==
    ASSUME Clients, TInv, Program, AtCall, NEW how, NEW var, NEW old,
           Call = ProcMask(how, var, old)
    PROVE  /\ TopTo(Top.at, "back", 0, Top.rax) /\ Own /\ Silent
           /\ pending' = pending /\ disp' = disp /\ timer' = timer
           /\ mask' = NewMask(how, SignalsOf(sets[var]))
           /\ sets' = IF old = "NULL" THEN sets ELSE [sets EXCEPT ![old] = WordOf(mask)]
<1>1. Call.op = "sigprocmask" /\ Call.how = how /\ Call.set = var /\ Call.oldset = old
  BY DEF ProcMask
<1>2. /\ sigprocmask(how, var, old)
      /\ UNCHANGED <<program, errno, jb, status, pending, disp, sa_mask, timer,
                     rem, sent, said, failed, told>>
  BY <1>1, StepAtCall DEF UserCall, sigfillset_crash, Perror, SystemCall, setjmp, LongJump,
                          If, Increment, CallFun, exit
<1>3. TopTo(Top.at, "back", 0, Top.rax)
  BY <1>2, SysReturnTo DEF sigprocmask
<1>4. /\ mask' = NewMask(how, SignalsOf(sets[var]))
      /\ sets' = IF old = "NULL" THEN sets ELSE [sets EXCEPT ![old] = WordOf(mask)]
  BY <1>2 DEF sigprocmask
<1> QED BY <1>2, <1>3, <1>4 DEF Own, Silent, program

LEMMA PendingDoes ==
    ASSUME Clients, TInv, Program, AtCall, NEW var, Call = Pending(var)
    PROVE  /\ TopTo(Top.at, "back", 0, Top.rax) /\ Own /\ Still /\ Silent
           /\ sets' = [sets EXCEPT ![var] = WordOf(pending \cap mask)]
<1>1. Call.op = "sigpending" /\ Call.set = var
  BY DEF Pending
<1>2. /\ sigpending(var)
      /\ UNCHANGED <<program, errno, jb, kernel, history>>
  BY <1>1, StepAtCall DEF UserCall, sigfillset_crash, Perror, SystemCall, setjmp, LongJump,
                          If, Increment, CallFun, exit
<1>3. TopTo(Top.at, "back", 0, Top.rax)
  BY <1>2, SysReturnTo DEF sigpending
<1> QED BY <1>2, <1>3 DEF sigpending, Own, Still, Silent, program, kernel, history

LEMMA SignalDoes ==
    ASSUME Clients, TInv, Program, AtCall, NEW n, NEW handler, Valid(n),
           Call = Signal(n, handler)
    PROVE  /\ TopTo(Top.at, "back", 0, Top.rax) /\ Own /\ Silent
           /\ disp' = [disp EXCEPT ![n] = handler]
           /\ pending' = IF handler = "SIG_IGN" THEN pending \ {n} ELSE pending
           /\ sets' = sets /\ mask' = mask
<1>1. Call.op = "signal" /\ Call.sig = n /\ Call.handler = handler
  BY DEF Signal
<1>2. /\ signal(n, handler)
      /\ UNCHANGED <<program, sets, jb, status, mask, timer, rem, sent, said,
                     told, wanted>>
  BY <1>1, StepAtCall DEF UserCall, sigfillset_crash, Perror, SystemCall, setjmp, LongJump,
                          If, Increment, CallFun, exit
<1>3. sigaction(n, handler, sigmask(n))
  BY <1>2 DEF signal
<1>4. TopTo(Top.at, "back", 0, Top.rax)
  BY <1>3, SysReturnTo DEF sigaction
<1> QED BY <1>2, <1>3, <1>4 DEF sigaction, Own, Silent, program

LEMMA AlarmDoes ==
    ASSUME Clients, TInv, Program, AtCall, NEW n, Call = Alarm(n)
    PROVE  /\ TopTo(Top.at, "back", timer, Top.rax) /\ Own /\ Silent
           /\ timer' = n /\ sets' = sets /\ mask' = mask /\ pending' = pending /\ disp' = disp
<1>1. Call.op = "alarm" /\ Call.seconds = n
  BY DEF Alarm
<1>2. /\ alarm(n)
      /\ UNCHANGED <<program, library, status, mask, pending, disp, sa_mask, rem,
                     sent, history>>
  BY <1>1, StepAtCall DEF UserCall, sigfillset_crash, Perror, SystemCall, setjmp, LongJump,
                          If, Increment, CallFun, exit
<1>3. TopTo(Top.at, "back", timer, Top.rax)
  BY <1>2, SysReturnTo DEF alarm
<1> QED BY <1>2, <1>3 DEF alarm, Own, Silent, program, library, history

LEMMA PauseDoes ==
    ASSUME Clients, TInv, Program, AtCall, Call = Do("pause")
    PROVE  /\ TopTo(Top.at, "blocked", Top.ret, Top.rax) /\ Own /\ Silent
           /\ sets' = sets /\ mask' = mask /\ pending' = pending /\ disp' = disp
<1>1. Call.op = "pause"
  BY DEF Do
<1>2. /\ pause
      /\ UNCHANGED <<program, library, status, mask, pending, disp, sa_mask,
                     timer, sent, history>>
  BY <1>1, StepAtCall DEF UserCall, sigfillset_crash, Perror, SystemCall, setjmp, LongJump,
                          If, Increment, CallFun, exit
<1>3. TopTo(Top.at, "blocked", Top.ret, Top.rax)
  BY <1>2, BlockTo DEF pause
<1> QED BY <1>2, <1>3 DEF Own, Silent, program, library, history

LEMMA SleepDoes ==
    ASSUME Clients, TInv, Program, AtCall, NEW n, Call = Sleep(n)
    PROVE  /\ TopTo(Top.at, "blocked", Top.ret, Top.rax) /\ Own /\ Silent
           /\ rem' = n /\ timer' = timer
           /\ sets' = sets /\ mask' = mask /\ pending' = pending /\ disp' = disp
<1>1. Call.op = "sleep" /\ Call.seconds = n
  BY DEF Sleep
<1>2. /\ sleep(n)
      /\ UNCHANGED <<program, library, status, mask, pending, disp, sa_mask,
                     timer, sent, history>>
  BY <1>1, StepAtCall DEF UserCall, sigfillset_crash, Perror, SystemCall, setjmp, LongJump,
                          If, Increment, CallFun, exit
<1>3. TopTo(Top.at, "blocked", Top.ret, Top.rax)
  BY <1>2, BlockTo DEF sleep
<1> QED BY <1>2, <1>3 DEF sleep, Own, Silent, program, library, history

LEMMA ExitDoes ==
    ASSUME Clients, TInv, Program, AtCall, Call = Do("exit")
    PROVE  stack' = stack /\ Own /\ Still /\ Silent /\ sets' = sets
<1>1. Call.op = "exit"
  BY DEF Do
<1>2. Stop("exited")
  BY <1>1, StepAtCall DEF UserCall, sigfillset_crash, Perror, SystemCall, setjmp, LongJump,
                          If, Increment, CallFun, exit
<1> QED BY <1>2 DEF Stop, Own, Still, Silent, program, library, history

LEMMA IfDoes ==
    ASSUME Clients, TInv, Program, AtCall, NEW cond, NEW n \in Nat, Call = IfElse(cond, n)
    PROVE  /\ TopTo(IF Holds(cond) THEN Top.at + 1 ELSE n, "no", Top.ret, Top.rax)
           /\ Own /\ Still /\ Silent /\ UNCHANGED <<sets, errno, failed>>
<1> DEFINE to == IF Holds(cond) THEN Top.at + 1 ELSE n
           act == [Top EXCEPT !.at = to]
<1>1. Call.op = "if" /\ Call.cond = cond /\ Call.else = n
  BY DEF IfElse
<1>2. If
  BY <1>1, StepAtCall DEF UserCall, sigfillset_crash, Perror, SystemCall, setjmp, LongJump,
                          Increment, CallFun, exit
<1>3. stack' = WithTop(act)
  BY <1>1, <1>2, TopType DEF If, Activation
<1> HIDE DEF to
<1>4. /\ act.fn = Top.fn /\ act.sig = Top.sig /\ act.mask = Top.mask /\ act.at = to
      /\ act.call = "no" /\ act.ret = Top.ret /\ act.rax = Top.rax
  BY TopType DEF Activation, AtCall
<1> HIDE DEF act
<1>5. TopTo(act.at, act.call, act.ret, act.rax)
  BY <1>3, <1>4, TopReplaced
<1>6. TopTo(to, "no", Top.ret, Top.rax)
  BY <1>4, <1>5
<1> QED BY <1>2, <1>6 DEF to, If, Own, Still, Silent, program, library, kernel, history

LEMMA Conditions ==
    /\ Holds("rax_not_0") <=> Top.rax # 0
    /\ Holds("rax_is_-1") <=> Top.rax = -1
    /\ Holds("i_below_10") <=> i < 10
BY DEF Holds

LEMMA IncrementDoes ==
    ASSUME Clients, TInv, Program, AtCall, Call = Do("i++")
    PROVE  /\ TopTo(Top.at + 1, "no", Top.ret, Top.rax)
           /\ main' = main /\ i' = i + 1 /\ jb' = jb /\ Still /\ Silent
<1>1. Call.op = "i++"
  BY DEF Do
<1>2. Increment
  BY <1>1, StepAtCall DEF UserCall, sigfillset_crash, Perror, SystemCall, setjmp, LongJump,
                          If, CallFun, exit
<1>3. TopTo(Top.at + 1, "no", Top.ret, Top.rax)
  BY <1>2, ReturnTo DEF Increment
<1> QED BY <1>2, <1>3 DEF Increment, Still, Silent, library, kernel, history

LEMMA CallFunDoes ==
    ASSUME Clients, TInv, Program, AtCall, Call = Do("funs[i]")
    PROVE  /\ CallFun /\ Own /\ Still /\ Silent
           /\ Len(stack') = Len(stack) + 1
           /\ \A k \in 1..Len(stack) : stack'[k] = stack[k]
           /\ stack'[Len(stack) + 1] = Called(Funs[i + 1], 0)
<1>1. Call.op = "funs[i]"
  BY DEF Do
<1>2. CallFun
  BY <1>1, StepAtCall DEF UserCall, sigfillset_crash, Perror, SystemCall, setjmp, LongJump,
                          If, Increment, exit
<1>3. stack' = Append(stack, Called(Funs[i + 1], 0)) /\ stack \in Seq(Activation)
  BY <1>2 DEF CallFun, TInv, TypeOK
<1>4. /\ Len(stack') = Len(stack) + 1
      /\ \A k \in 1..Len(stack) : stack'[k] = stack[k]
      /\ stack'[Len(stack) + 1] = Called(Funs[i + 1], 0)
  BY <1>3
<1> QED BY <1>2, <1>4 DEF CallFun, Own, Still, Silent, program, library, kernel, history

LEMMA SetjmpDoes ==
    ASSUME Clients, TInv, Program, AtCall, Call = Do("setjmp")
    PROVE  /\ TopTo(Top.at + 1, "no", Top.ret, 0)
           /\ main' = main /\ i' = i /\ Still /\ Silent
           /\ jb'.at = Top.at + 1 /\ jb'.depth = Len(stack) /\ jb'.held = mask
<1>1. Call.op = "setjmp"
  BY DEF Do
<1>2. setjmp
  BY <1>1, StepAtCall DEF UserCall, sigfillset_crash, Perror, SystemCall, LongJump,
                          If, Increment, CallFun, exit
<1>3. TopTo(Top.at + 1, "no", Top.ret, 0)
  BY <1>2, ReturnTo DEF setjmp
<1>4. jb'.at = Top.at + 1 /\ jb'.depth = Len(stack) /\ jb'.held = mask
  BY <1>2 DEF setjmp
<1> QED BY <1>2, <1>3, <1>4 DEF setjmp, Still, Silent, program, kernel, history

\* A jump to the function at the bottom of the stack.
LEMMA LongJmpDoes ==
    ASSUME Clients, TInv, Program, AtCall, NEW n, Call = LongJmp(n), jb.depth = 1
    PROVE  /\ Len(stack') = 1
           /\ stack'[1].fn = stack[1].fn /\ stack'[1].call = "no"
           /\ stack'[1].at = jb.at /\ stack'[1].rax = n
           /\ Own /\ Still /\ Silent
<1> DEFINE act == [stack[1] EXCEPT !.call = "no", !.at = jb.at, !.rax = n]
           cut == SubSeq(stack, 1, 1)
<1>1. Call.op = "longjmp" /\ Call.val = n
  BY DEF LongJmp
<1>2. LongJump
  BY <1>1, StepAtCall DEF UserCall, sigfillset_crash, Perror, SystemCall, setjmp,
                          If, Increment, CallFun, exit
<1>3. stack \in Seq(Activation) /\ Len(stack) \in Nat /\ Len(stack) >= 1
  BY TopType DEF TInv, TypeOK
<1>4. cut \in Seq(Activation) /\ Len(cut) = 1 /\ cut[1] = stack[1]
  BY <1>3
<1>5. stack' = [cut EXCEPT ![1] = act]
  <2>1. stack' = [cut EXCEPT ![1] = [cut[1] EXCEPT !.call = "no", !.at = jb.at, !.rax = n]]
    BY <1>1, <1>2 DEF LongJump, longjmp, Jump
  <2> QED BY <1>4, <2>1
<1>6. stack[1] \in Activation
  BY <1>3
<1>7. act.fn = stack[1].fn /\ act.call = "no" /\ act.at = jb.at /\ act.rax = n
  BY <1>6 DEF Activation
<1> HIDE DEF act, cut
<1>8. Len(stack') = 1 /\ stack'[1] = act
  BY <1>4, <1>5
<1>9. mask' = mask
  BY <1>2 DEF LongJump, longjmp, Jump, Copied, Mapped
<1> QED BY <1>2, <1>7, <1>8, <1>9 DEF LongJump, Own, Still, Silent, program, library

LEMMA PerrDoes ==
    ASSUME Clients, TInv, Program, AtCall, Call.op = "perror"
    PROVE  /\ TopTo(Top.at + 1, "no", Top.ret, Top.rax) /\ perror(Call.prefix)
           /\ Own /\ Still /\ said' = said /\ failed' = failed
<1>1. Perror
  BY StepAtCall DEF UserCall, sigfillset_crash, SystemCall, setjmp, LongJump,
                    If, Increment, CallFun, exit
<1>2. TopTo(Top.at + 1, "no", Top.ret, Top.rax)
  BY <1>1, ReturnTo DEF Perror
<1> QED BY <1>1, <1>2 DEF Perror, Own, Still, program, kernel

\* What the library does with the result of a call.
LEMMA WrapDoes ==
    ASSUME Clients, TInv, Program, Top.call = "back", Top.at <= Len(Code[Top.fn])
    PROVE  /\ \E v : TopTo(Top.at + 1, "no", Top.ret, v)
           /\ Own /\ Still /\ Silent /\ sets' = sets
           /\ Call.op \notin {"sleep", "plain_ptr"} =>
                  /\ WRAPPER_RETval
                  /\ TopTo(Top.at + 1, "no", Top.ret, IF Top.ret < 0 THEN -1 ELSE Top.ret)
<1>1. Top.at \in Nat /\ Len(Code[Top.fn]) \in Nat
  BY ClientsCompile, TopType DEF Compiles, Activation
<1>2. ~(Top.at > Len(Code[Top.fn]))
  BY <1>1
<1>3. Wrap
  BY <1>2, StepBack DEF start_exit, myrt
<1>4. \E v : Return(v)
  BY <1>3 DEF Wrap, sleep_return, WRAPPER_RETptr, WRAPPER_RETval, Done
<1>5. Call.op \notin {"sleep", "plain_ptr"} =>
          WRAPPER_RETval /\ Return(IF Top.ret < 0 THEN -1 ELSE Top.ret)
  BY <1>3 DEF Wrap, WRAPPER_RETval, Done
<1> QED BY <1>3, <1>4, <1>5, ReturnTo DEF Wrap, Own, Still, Silent, program, kernel

\* The end of main, or of a handler.
LEMMA EndDoes ==
    ASSUME TInv, Program, Top.call = "no", Top.at > Len(Code[Top.fn]),
           Top.at \in Nat, Len(Code[Top.fn]) \in Nat
    PROVE  /\ Own /\ Silent /\ sets' = sets /\ pending' = pending /\ disp' = disp
           /\ \/ stack' = stack /\ mask' = mask /\ UNCHANGED <<timer, errno, failed>>
              \/ myrt
<1>1. start_exit \/ myrt
  BY DEF Program, AtCall
<1>2. CASE start_exit
  BY <1>2 DEF start_exit, Stop, Own, Silent, program, library, history
<1>3. CASE myrt
  BY <1>3 DEF myrt, AfterHandler, Own, Silent, program, library, history
<1> QED BY <1>1, <1>2, <1>3

\* A second passes; a sleep may end.
LEMMA TickDoes ==
    ASSUME TInv, Tick
    PROVE  /\ Own /\ Silent /\ UNCHANGED <<sets, mask, disp, errno, failed>>
           /\ timer' = IF timer > 0 THEN timer - 1 ELSE 0
           /\ pending' = IF timer = 1 THEN Pended(SIGALRM) ELSE pending
           /\ \/ stack' = stack /\ (Sleeping => rem' = rem - 1)
              \/ Sleeping /\ rem <= 1 /\ TopTo(Top.at, "back", 0, Top.rax)
<1>1. /\ timer' = IF timer > 0 THEN timer - 1 ELSE 0
      /\ pending' = IF timer = 1 THEN Pended(SIGALRM) ELSE pending
      /\ Own /\ Silent /\ UNCHANGED <<sets, mask, disp, errno, failed>>
  BY DEF Tick, Own, Silent, program, library, history
<1>2. CASE Sleeping /\ rem <= 1
  <2>1. SysReturn(0)
    BY <1>2 DEF Tick
  <2> QED BY <1>1, <1>2, <2>1, SysReturnTo
<1>3. CASE ~(Sleeping /\ rem <= 1)
  <2>1. stack' = stack /\ rem \in Nat
    BY <1>3 DEF Tick, TInv, TypeOK
  <2>2. Sleeping => rem' = rem - 1
    BY <1>3, <2>1 DEF Tick
  <2> QED BY <1>1, <2>1, <2>2
<1> QED BY <1>2, <1>3

\* A signal that is pending stays so when another one comes.
LEMMA SendDoes ==
    ASSUME NEW s, Send(s)
    PROVE  /\ Own /\ Silent /\ UNCHANGED <<stack, sets, mask, disp, timer, rem, errno, failed>>
           /\ pending \subseteq pending'
BY DEF Send, Pended, Own, Silent, program, library, history

\* Only the signal that is delivered is taken from the pending ones, and no blocked
\* one is; a handler runs on top of the function it interrupts.
Interrupts(s) ==
    /\ disp[s] \notin {"SIG_DFL", "SIG_IGN"} /\ mask \subseteq mask'
    /\ Len(stack') = Len(stack) + 1
    /\ \A k \in 1..(Len(stack) - 1) : stack'[k] = stack[k]
    /\ Top.call # "blocked" => stack'[Len(stack)] = Top
    /\ Top.call = "blocked" => /\ stack'[Len(stack)].call = "back"
                               /\ stack'[Len(stack)].at = Top.at
                               /\ stack'[Len(stack)].fn = Top.fn
                               /\ stack'[Len(stack)].rax = Top.rax
                               /\ stack'[Len(stack)].mask = Top.mask
    /\ stack'[Len(stack) + 1] = Called(disp[s], s)

LEMMA DeliverDoes ==
    ASSUME TInv, NEW s, Deliver(s)
    PROVE  /\ Own /\ Silent /\ UNCHANGED <<sets, disp, timer, rem, errno, failed>>
           /\ s \in pending /\ s \notin mask /\ pending' = pending \ {s}
           /\ (stack' = stack /\ mask' = mask) \/ Interrupts(s)
<1>1. /\ Own /\ Silent /\ UNCHANGED <<sets, disp, timer, rem, errno, failed>>
      /\ s \in pending /\ s \notin mask /\ pending' = pending \ {s}
  BY DEF Deliver, Own, Silent, program, library, history
<1>2. CASE stack' = stack /\ mask' = mask
  BY <1>1, <1>2
<1>3. CASE /\ disp[s] \notin {"SIG_DFL", "SIG_IGN"}
           /\ stack' = Append(WithTop(Interrupted), Called(disp[s], s))
           /\ mask' = mask \cup sa_mask[s] \cup {s}
  <2> DEFINE below == WithTop(Interrupted)
             top == Interrupted
  <2>1. stack \in Seq(Activation) /\ Len(stack) \in Nat /\ Len(stack) >= 1 /\ Top \in Activation
    BY TopType DEF TInv, TypeOK
  <2>2. Top.call # "blocked" => top = Top
    BY DEF Interrupted
  <2>3. Top.call = "blocked" => /\ top.call = "back" /\ top.at = Top.at /\ top.fn = Top.fn
                                /\ top.rax = Top.rax /\ top.mask = Top.mask
    BY <2>1 DEF Interrupted, Activation
  <2>4. -EINTR \in Int
    BY DEF EINTR
  <2>5. top \in Activation
    BY <2>1, <2>4 DEF Interrupted, Activation
  <2> HIDE DEF top
  <2>6. below = WithTop(top)
    BY DEF top
  <2> HIDE DEF below
  <2>7. /\ below \in Seq(Activation) /\ Len(below) = Len(stack)
        /\ \A k \in 1..Len(stack) : below[k] = IF k = Len(stack) THEN top ELSE stack[k]
    BY <2>1, <2>5, <2>6 DEF WithTop
  <2>8. stack' = Append(below, Called(disp[s], s))
    BY <1>3 DEF below
  <2>9. /\ Len(stack') = Len(stack) + 1
        /\ \A k \in 1..Len(stack) : stack'[k] = below[k]
        /\ stack'[Len(stack) + 1] = Called(disp[s], s)
    BY <2>1, <2>7, <2>8
  <2>10. stack'[Len(stack)] = top /\ \A k \in 1..(Len(stack) - 1) : stack'[k] = stack[k]
    BY <2>1, <2>7, <2>9
  <2>11. Interrupts(s)
    BY <1>3, <2>2, <2>3, <2>9, <2>10 DEF Interrupts
  <2> QED BY <1>1, <2>11
<1> QED BY <1>2, <1>3 DEF Deliver

\* The function at the bottom goes on where it was, or its pause or sleep has ended.
LEMMA BottomInterrupted ==
    ASSUME TInv, NEW s, Interrupts(s)
    PROVE  \/ stack'[1] = stack[1]
           \/ /\ stack[1].call = "blocked" /\ stack'[1].call = "back"
              /\ stack'[1].fn = stack[1].fn /\ stack'[1].at = stack[1].at
              /\ stack'[1].rax = stack[1].rax
<1>0. Len(stack) \in Nat /\ Len(stack) >= 1 /\ Top = stack[Len(stack)]
  BY TopType DEF Top
<1>1. CASE Len(stack) = 1
  BY <1>0, <1>1 DEF Interrupts
<1>2. CASE Len(stack) > 1
  <2>1. 1 \in 1..(Len(stack) - 1)
    BY <1>0, <1>2
  <2> QED BY <2>1 DEF Interrupts
<1>3. Len(stack) = 1 \/ Len(stack) > 1
  BY <1>0
<1> QED BY <1>1, <1>2, <1>3, Zenon

\* A step is one of the program, or time passes, or a signal is delivered or sent.
LEMMA Steps ==
    ASSUME [Next]_vars
    PROVE  \/ UNCHANGED vars \/ Program \/ Tick
           \/ \E s \in Signals : Deliver(s) \/ Send(s)
BY LibMiniAssumption DEF Next

\* main never becomes another function.
LEMMA MainStays ==
    ASSUME [Next]_vars
    PROVE  main' = main
BY DEF Next, Program, UserCall, sigfillset_crash, Perror, SystemCall, setjmp, LongJump, If,
       Increment, CallFun, exit, Wrap, start_exit, myrt, AfterHandler, Stop, Tick, Deliver,
       Send, vars, program

-----------------------------------------------------------------------------
(* jmp1. *)

LEMMA Jmp1Lines ==
    /\ Len(jmp1) = 5 /\ jmp1[1] = Do("setjmp") /\ jmp1[2] = IfElse("rax_not_0", 4)
    /\ jmp1[3] = Do("i++") /\ jmp1[4] = IfElse("i_below_10", 6) /\ jmp1[5] = Do("funs[i]")
BY DEF jmp1

\* The state that Jmp1Inv speaks of, when signals and time change nothing of it.
LEMMA Jmp1Same ==
    ASSUME Jmp1Inv, Own, stack' = stack, mask' = mask, disp' = disp, Silent
    PROVE  Jmp1Inv'
BY DEF Jmp1Inv, Own, Silent

\* Where the program is, in terms of its lines.
LEMMA Jmp1Where ==
    ASSUME Clients, TInv, main = "jmp1", Jmp1Inv
    PROVE  /\ i \in Nat /\ stack[1] \in Activation
           /\ Len(stack) = 1 =>
                  /\ Top = stack[1] /\ Code[Top.fn] = jmp1 /\ Top.call = "no"
                  /\ Top.at <= 5 => AtCall /\ Call = jmp1[Top.at]
                  /\ Top.at = 6 => Top.at > Len(Code[Top.fn]) /\ ~AtCall
           /\ Len(stack) = 2 =>
                  /\ i + 1 \in 1..10 /\ Top = stack[2] /\ Top.at \in 1..2
                  /\ Len(Code[Top.fn]) = 2
                  /\ Call = IF Top.at = 1 THEN Write(funs[i + 1]) ELSE LongJmp(i + 1)
<1>1. i \in Nat /\ stack[1] \in Activation /\ stack[1].at \in 1..6
  BY TopType DEF TInv, TypeOK, Jmp1Inv
<1>2. ASSUME Len(stack) = 1
      PROVE  /\ Top = stack[1] /\ Code[Top.fn] = jmp1 /\ Top.call = "no"
             /\ Top.at <= 5 => AtCall /\ Call = jmp1[Top.at]
             /\ Top.at = 6 => Top.at > Len(Code[Top.fn]) /\ ~AtCall
  <2>1. Top = stack[1] /\ Code[Top.fn] = jmp1 /\ Top.call = "no"
    BY <1>2, Functions DEF Top, Jmp1Inv
  <2> QED BY <1>1, <2>1, Jmp1Lines DEF AtCall, Call
<1>3. ASSUME Len(stack) = 2
      PROVE  /\ i + 1 \in 1..10 /\ Top = stack[2] /\ Top.at \in 1..2
             /\ Len(Code[Top.fn]) = 2
             /\ Call = IF Top.at = 1 THEN Write(funs[i + 1]) ELSE LongJmp(i + 1)
  <2>1. i + 1 \in 1..10 /\ Top = stack[2] /\ Top.at \in 1..2 /\ Top.fn = funs[i + 1]
    BY <1>1, <1>3 DEF Jmp1Inv, Top
  <2>2. Code[Top.fn] = <<Write(funs[i + 1]), LongJmp(i + 1)>>
    BY <2>1, FunLines DEF FUNBODY
  <2> QED BY <2>1, <2>2 DEF Call
<1> QED BY <1>1, <1>2, <1>3

\* Nothing jmp1 does is left undefined by C, and its jumps leave no handler.
LEMMA Jmp1Defined ==
    ASSUME Clients, TInv, main = "jmp1", Jmp1Inv
    PROVE  Defined /\ JumpsKeepMask
<1>1. CASE Len(stack) = 1
  <2>1. AtCall => Call.op # "longjmp"
    <3>1. AtCall => Top.at \in {1, 2, 3, 4, 5} /\ Call = jmp1[Top.at]
      BY <1>1, Jmp1Where DEF Jmp1Inv
    <3> QED BY <3>1, Jmp1Lines DEF Do, IfElse
  <2>2. AtCall /\ Call.op = "funs[i]" => Top.at = 5
    <3>1. AtCall => Top.at \in {1, 2, 3, 4, 5} /\ Call = jmp1[Top.at]
      BY <1>1, Jmp1Where DEF Jmp1Inv
    <3> QED BY <3>1, Jmp1Lines DEF Do, IfElse
  <2>3. Top.at = 5 => i + 1 \in DOMAIN Funs
    <3>1. DOMAIN Funs = 1..10
      BY DEF Clients, funs
    <3> QED BY <1>1, <3>1, Jmp1Where DEF Jmp1Inv
  <2> QED BY <2>1, <2>2, <2>3 DEF Defined, JumpsKeepMask
<1>2. CASE Len(stack) = 2
  <2>1. Call.op # "funs[i]"
    BY <1>2, Jmp1Where DEF Write, LongJmp
  <2>2. jb.depth = 1 /\ jb.held = {} /\ mask = {}
    BY <1>2, Jmp1Where DEF Jmp1Inv
  <2>3. InMain
    <3>1. stack[1].sig = 0 /\ stack[2].sig = 0 /\ DOMAIN stack = 1..2
      BY <1>2, TopType DEF TInv, StackOK, Jmp1Inv
    <3> QED BY <3>1 DEF InMain
  <2> QED BY <1>2, <2>1, <2>2, <2>3 DEF Defined, JumpsKeepMask
<1> QED BY <1>1, <1>2 DEF Jmp1Inv

\* A step of main.
LEMMA Jmp1Main ==
    ASSUME Clients, TInv, main = "jmp1", Jmp1Inv, Program, Len(stack) = 1
    PROVE  Jmp1Inv'
<1>0. /\ Top = stack[1] /\ Code[Top.fn] = jmp1 /\ Top.call = "no" /\ stack[1] \in Activation
      /\ Top.at <= 5 => AtCall /\ Call = jmp1[Top.at]
      /\ Top.at = 6 => Top.at > Len(Code[Top.fn])
      /\ i \in Nat /\ Top.at \in 1..6 /\ Top.rax \in Int
  BY Jmp1Where DEF Jmp1Inv, Activation
<1>1. CASE Top.at = 1
  <2>1. /\ TopTo(2, "no", Top.ret, 0)
        /\ main' = main /\ i' = i /\ Still /\ Silent
        /\ jb'.at = 2 /\ jb'.depth = 1 /\ jb'.held = mask
    BY <1>0, <1>1, Jmp1Lines, SetjmpDoes
  <2> QED BY <1>0, <1>1, <2>1 DEF Jmp1Inv, TopTo, Still, Silent
<1>2. CASE Top.at = 2
  <2>1. /\ TopTo(IF Top.rax # 0 THEN 3 ELSE 4, "no", Top.ret, Top.rax)
        /\ Own /\ Still /\ Silent
    BY <1>0, <1>2, Jmp1Lines, IfDoes, Conditions
  <2> QED BY <1>0, <1>2, <2>1 DEF Jmp1Inv, TopTo, Own, Still, Silent
<1>3. CASE Top.at = 3
  <2>1. /\ TopTo(4, "no", Top.ret, Top.rax)
        /\ main' = main /\ i' = i + 1 /\ jb' = jb /\ Still /\ Silent
    BY <1>0, <1>3, Jmp1Lines, IncrementDoes
  <2> QED BY <1>0, <1>3, <2>1 DEF Jmp1Inv, TopTo, Still, Silent
<1>4. CASE Top.at = 4
  <2>1. /\ TopTo(IF i < 10 THEN 5 ELSE 6, "no", Top.ret, Top.rax)
        /\ Own /\ Still /\ Silent
    BY <1>0, <1>4, Jmp1Lines, IfDoes, Conditions
  <2> QED BY <1>0, <1>4, <2>1 DEF Jmp1Inv, TopTo, Own, Still, Silent
<1>5. CASE Top.at = 5
  <2>1. /\ Own /\ Still /\ Silent
        /\ Len(stack') = 2
        /\ stack'[1] = stack[1]
        /\ stack'[2] = Called(funs[i + 1], 0)
    BY <1>0, <1>5, Jmp1Lines, CallFunDoes DEF Clients
  <2>2. /\ stack'[2].fn = funs[i + 1] /\ stack'[2].sig = 0 /\ stack'[2].at = 1
        /\ stack'[2].call = "no"
    BY <2>1 DEF Called
  <2> QED BY <1>0, <1>5, <2>1, <2>2 DEF Jmp1Inv, Own, Still, Silent
<1>6. CASE Top.at = 6
  <2>1. /\ Own /\ Silent /\ disp' = disp
        /\ (stack' = stack /\ mask' = mask) \/ myrt
    BY <1>0, <1>6, Jmp1Lines, EndDoes
  <2>2. ~myrt
    BY <1>0 DEF myrt, TInv, StackOK
  <2> QED BY <2>1, <2>2, Jmp1Same
<1> QED BY <1>0, <1>1, <1>2, <1>3, <1>4, <1>5, <1>6

\* A step of the function that main has called.
LEMMA Jmp1Fun ==
    ASSUME Clients, TInv, main = "jmp1", Jmp1Inv, Program, Len(stack) = 2
    PROVE  Jmp1Inv'
<1>0. /\ i \in Nat /\ i + 1 \in 1..10 /\ Top = stack[2] /\ Top \in Activation
      /\ Top.at \in 1..2 /\ Len(Code[Top.fn]) = 2
      /\ Call = IF Top.at = 1 THEN Write(funs[i + 1]) ELSE LongJmp(i + 1)
      /\ stack[1].at = 5
  BY Jmp1Where, TopType DEF Jmp1Inv
<1>1. Top.call # "blocked"
  BY DEF Program, UserMode
<1>2. CASE Top.call = "no" /\ Top.at = 1
  <2>0. AtCall /\ Call = Write(funs[i + 1])
    BY <1>0, <1>2 DEF AtCall
  <2>1. /\ \E r \in Int : TopTo(1, "back", r, Top.rax)
        /\ Own /\ Still /\ told' = told /\ said' \in {said, funs[i + 1]}
    BY <1>2, <2>0, WriteDoes
  <2>2. funs[i + 1] # "pending"
    BY <1>0, FunLines
  <2> QED BY <1>0, <2>1, <2>2 DEF Jmp1Inv, TopTo, Own, Still
<1>3. CASE Top.call = "back"
  <2>1. (\E v : TopTo(Top.at + 1, "no", Top.ret, v)) /\ Own /\ Still /\ Silent
    BY <1>0, <1>3, WrapDoes
  <2>2. Top.at = 1
    BY <1>0, <1>3 DEF Jmp1Inv
  <2> QED BY <1>0, <2>1, <2>2 DEF Jmp1Inv, TopTo, Own, Still, Silent
<1>4. CASE Top.call = "no" /\ Top.at = 2
  <2>0. AtCall /\ Call = LongJmp(i + 1)
    BY <1>0, <1>4 DEF AtCall
  <2>1. jb.depth = 1 /\ jb.at = 2
    BY <1>0 DEF Jmp1Inv
  <2>2. /\ Len(stack') = 1
        /\ stack'[1].fn = stack[1].fn /\ stack'[1].call = "no"
        /\ stack'[1].at = 2 /\ stack'[1].rax = i + 1
        /\ Own /\ Still /\ Silent
    BY <2>0, <2>1, LongJmpDoes
  <2> QED BY <1>0, <2>1, <2>2 DEF Jmp1Inv, Own, Still, Silent
<1> QED BY <1>0, <1>1, <1>2, <1>3, <1>4 DEF Activation

LEMMA Jmp1Step ==
    ASSUME Clients, TInv, main = "jmp1", Jmp1Inv, [Next]_vars
    PROVE  Jmp1Inv'
<1>1. CASE UNCHANGED vars
  BY <1>1, Jmp1Same DEF vars, program, library, kernel, history, Own, Silent
<1>2. CASE Program
  BY <1>2, Jmp1Main, Jmp1Fun DEF Jmp1Inv
<1>3. CASE Tick
  <2>1. ~Sleeping
    <3>1. CASE Len(stack) = 1
      BY <3>1, Jmp1Where DEF Sleeping
    <3>2. CASE Len(stack) = 2
      BY <3>2, Jmp1Where DEF Sleeping, Write, LongJmp
    <3> QED BY <3>1, <3>2 DEF Jmp1Inv
  <2> QED BY <1>3, <2>1, TickDoes, Jmp1Same
<1>4. ASSUME NEW s \in Signals, Deliver(s)
      PROVE  Jmp1Inv'
  <2>1. ~Interrupts(s)
    BY DEF Interrupts, Jmp1Inv
  <2> QED BY <1>4, <2>1, DeliverDoes, Jmp1Same
<1>5. ASSUME NEW s \in Signals, Send(s)
      PROVE  Jmp1Inv'
  BY <1>5, SendDoes, Jmp1Same
<1> QED BY <1>1, <1>2, <1>3, <1>4, <1>5, Steps

-----------------------------------------------------------------------------
(* alarm1, write1 and edges. *)

LEMMA PlainCalls ==
    ASSUME Clients, NEW f \in Plains, NEW n \in 1..Len(Code[f])
    PROVE  /\ Code[f][n].op \notin {"perror", "setjmp", "longjmp", "i++", "funs[i]", "if"}
           /\ Code[f][n].op = "write" => Code[f][n].word # "pending"
           /\ Code[f][n].op = "signal" => ~Valid(Code[f][n].sig)
<1>1. CASE f = "alarm1"
  <2>1. Code[f] = alarm1 /\ Len(alarm1) = 2
    BY <1>1, Functions DEF alarm1
  <2> QED BY <2>1 DEF alarm1, Alarm, Do
<1>2. CASE f = "write1"
  <2>1. Code[f] = write1 /\ Len(write1) = 4
    BY <1>2, Functions DEF write1
  <2> QED BY <2>1 DEF write1, Write
<1>3. CASE f = "edges"
  <2>1. Code[f] = edges /\ Len(edges) = 12
    BY <1>3, Functions DEF edges
  <2>2. edges[7].sig = 0
    BY DEF edges, Signal
  <2>3. ~Valid(0)
    BY DEF Valid
  <2>4. \A k \in (1..12) \ {7} :
            edges[k].op \in {"plain_ptr", "sigfillset", "sigemptyset", "sigaddset", "sigdelset",
                             "sigismember", "sigprocmask"}
    BY DEF edges, Plain, Do, Empty, Add, Del, IsMember, ProcMask
  <2>5. edges[7].op = "signal"
    BY DEF edges, Signal
  <2>6. n \in (1..12) \ {7} \/ n = 7
    BY <2>1
  <2> QED BY <2>1, <2>2, <2>3, <2>4, <2>5, <2>6
<1> QED BY <1>1, <1>2, <1>3 DEF Plains

LEMMA PlainSame ==
    ASSUME PlainInv, main' = main, stack' = stack, disp' = disp, Silent
    PROVE  PlainInv'
BY DEF PlainInv, Alone, Silent

\* Whatever call is made, the function stays the same.
LEMMA PlainProgram ==
    ASSUME Clients, TInv, main \in Plains, PlainInv, Program
    PROVE  PlainInv'
<1>0. /\ Len(stack) = 1 /\ Top = stack[1] /\ Top.fn = main /\ Top.sig = 0
      /\ Top.at \in Nat /\ Top.at > 0 /\ Len(Code[main]) \in Nat
  BY TopType, ClientsCompile, LibMiniAssumption
     DEF PlainInv, Alone, Top, TInv, TypeOK, StackOK, Activation, Compiles
<1>1. ASSUME NEW at, NEW call, NEW ret, NEW rax, TopTo(at, call, ret, rax),
             main' = main, disp' = disp, told' = told, said' # "pending"
      PROVE  PlainInv'
  BY <1>0, <1>1 DEF TopTo, PlainInv, Alone
<1>2. ASSUME NEW v, Return(v), main' = main, disp' = disp, Silent
      PROVE  PlainInv'
  BY <1>1, <1>2, ReturnTo DEF Silent, PlainInv
<1>3. ASSUME AtCall
      PROVE  PlainInv'
  <2>0. /\ Call.op \notin {"perror", "setjmp", "longjmp", "i++", "funs[i]", "if"}
        /\ Call.op = "write" => Call.word # "pending"
        /\ Call.op = "signal" => ~Valid(Call.sig)
    BY <1>0, <1>3, PlainCalls DEF AtCall, Call
  <2>1. CASE UserCall
    <3>1. \E v : Return(v)
      BY <2>1 DEF UserCall, sigemptyset, sigaddset, sigdelset, sigismember, sigfillset,
                  Refused, OnSet, Done
    <3> QED BY <1>2, <2>1, <3>1 DEF UserCall, Silent, program, kernel
  <2>2. CASE sigfillset_crash \/ exit
    BY <2>2, PlainSame DEF sigfillset_crash, exit, Stop, Silent, program, history
  <2>3. CASE SystemCall
    <3>1. \/ \E r : SysReturn(r)
          \/ Block
          \/ \E v : Return(v)
      BY <2>3 DEF SystemCall, write, plain, sigprocmask, sigpending, signal, sigaction, Done,
                  alarm, pause, sleep
    <3>2. main' = main /\ told' = told
      BY <2>3 DEF SystemCall, program, history
    <3>3. said' # "pending"
      BY <2>0, <2>3 DEF SystemCall, write, history, PlainInv
    <3>4. disp' = disp
      BY <2>0, <2>3 DEF SystemCall, signal, kernel
    <3> QED BY <1>1, <3>1, <3>2, <3>3, <3>4, SysReturnTo, BlockTo, ReturnTo
  <2> QED BY <1>3, <2>0, <2>1, <2>2, <2>3, StepAtCall
          DEF Perror, setjmp, LongJump, Increment, CallFun, If
<1>4. CASE Wrap
  <2>1. \E v : Return(v)
    BY <1>4 DEF Wrap, sleep_return, WRAPPER_RETptr, WRAPPER_RETval, Done
  <2> QED BY <1>2, <1>4, <2>1 DEF Wrap, Silent, program, kernel
<1>5. CASE start_exit
  BY <1>5, PlainSame DEF start_exit, Stop, Silent, program, history
<1>6. CASE myrt
  BY <1>0, <1>6 DEF myrt
<1> QED BY <1>3, <1>4, <1>5, <1>6 DEF Program

LEMMA PlainStep ==
    ASSUME Clients, TInv, main \in Plains, PlainInv, [Next]_vars
    PROVE  PlainInv'
<1>1. CASE UNCHANGED vars
  BY <1>1, PlainSame DEF vars, program, kernel, history, Silent
<1>2. CASE Program
  BY <1>2, PlainProgram
<1>3. CASE Tick
  <2>1. CASE stack' = stack
    BY <1>3, <2>1, TickDoes, PlainSame DEF Own
  <2>2. CASE TopTo(Top.at, "back", 0, Top.rax)
    <3>1. Top = stack[1] /\ Len(stack) = 1
      BY DEF PlainInv, Alone, Top
    <3> QED BY <1>3, <2>2, <3>1, TickDoes DEF Own, Silent, TopTo, PlainInv, Alone
  <2> QED BY <1>3, <2>1, <2>2, TickDoes
<1>4. ASSUME NEW s \in Signals, Deliver(s)
      PROVE  PlainInv'
  <2>1. ~Interrupts(s)
    BY DEF Interrupts, PlainInv, Alone
  <2> QED BY <1>4, <2>1, DeliverDoes, PlainSame DEF Own
<1>5. ASSUME NEW s \in Signals, Send(s)
      PROVE  PlainInv'
  BY <1>5, SendDoes, PlainSame DEF Own
<1> QED BY <1>1, <1>2, <1>3, <1>4, <1>5, Steps

-----------------------------------------------------------------------------
(* report and report_prefix. *)

LEMMA ReportsLines ==
    ASSUME Clients, main \in Reports
    PROVE  /\ Len(Code[main]) = 3
           /\ Code[main][1] = Plain("plain", IF main = "report" THEN {2, 39} ELSE {2})
           /\ Code[main][2] = IfElse("rax_is_-1", 4)
           /\ Code[main][3].op = "perror"
           /\ main = "report" => Code[main][3].prefix = FALSE
<1>1. /\ Len(report) = 3 /\ report[1] = Plain("plain", {2, 39})
      /\ report[2] = IfElse("rax_is_-1", 4)
  BY DEF report
<1>2. report[3].op = "perror"
  BY DEF report, Perr
<1>3. report[3].prefix = FALSE
  BY DEF report, Perr
<1>4. /\ Len(report_prefix) = 3 /\ report_prefix[1] = Plain("plain", {2})
      /\ report_prefix[2] = IfElse("rax_is_-1", 4)
  BY DEF report_prefix
<1>5. report_prefix[3].op = "perror"
  BY DEF report_prefix, Perr
<1> QED BY <1>1, <1>2, <1>3, <1>4, <1>5, Functions DEF Reports

LEMMA ReportSame ==
    ASSUME ReportInv, main' = main, stack' = stack, disp' = disp, Silent,
           UNCHANGED <<errno, failed>>
    PROVE  ReportInv'
BY DEF ReportInv, Alone, Silent, Failed, PerrorTells, WritesTell

\* perror is called with the error that the call left, and tells it.
LEMMA ReportTells ==
    ASSUME Clients, TInv, main \in Reports, ReportInv, Program,
           Top.at = 3, Top.call = "no"
    PROVE  ReportInv'
<1>0. /\ Len(stack) = 1 /\ Top = stack[1] /\ Top.fn = main
      /\ Top.at <= Len(Code[main]) /\ AtCall /\ Call = Code[main][3]
  BY ReportsLines DEF ReportInv, Alone, Top, AtCall, Call
<1>1. /\ TopTo(4, "no", Top.ret, Top.rax) /\ perror(Call.prefix)
      /\ Own /\ Still /\ said' = said /\ failed' = failed
  BY <1>0, ReportsLines, PerrDoes
<1>2. errno = failed /\ failed \in {2, 39} /\ (main = "report_prefix" => failed = 2)
  BY <1>0 DEF ReportInv, Failed
<1>3. WritesTell => WriteErrno \subseteq 0..34
  BY DEF WriteErrno, WritesTell, NoError, PERRMSG_MAX
<1>4. CASE main = "report"
  <2>1. told' = Message(errno, errno)
    BY <1>0, <1>1, <1>4, ReportsLines DEF perror
  <2>2. PerrorTells'
    <3>1. Message(2, 2) = 2 /\ Message(39, 39) = Unknown
      BY DEF Message, PERRMSG_MIN, PERRMSG_MAX
    <3>2. CASE failed = 2
      <4>1. told' = 2 /\ failed' = 2
        BY <1>1, <1>2, <2>1, <3>1, <3>2
      <4> QED BY <4>1 DEF PerrorTells, PERRMSG_MIN, PERRMSG_MAX
    <3>3. CASE failed = 39
      <4>1. told' = Unknown /\ failed' = 39
        BY <1>1, <1>2, <2>1, <3>1, <3>3
      <4> QED BY <4>1 DEF PerrorTells, PERRMSG_MIN, PERRMSG_MAX
    <3> QED BY <1>2, <3>2, <3>3
  <2> QED BY <1>0, <1>1, <2>2 DEF ReportInv, Alone, TopTo, Own, Still
<1>5. CASE main = "report_prefix"
  <2>1. PICK checked \in WriteErrno \cup {errno} : told' = Message(checked, errno)
    BY <1>1 DEF perror
  <2>2. WritesTell => PerrorTells'
    <3>1. CASE WritesTell
      <4>1. checked \in 0..34
        BY <1>2, <1>3, <1>5, <3>1
      <4>2. told' = 2 /\ failed' = 2
        BY <1>1, <1>2, <1>5, <2>1, <4>1 DEF Message, PERRMSG_MIN, PERRMSG_MAX
      <4> QED BY <4>2 DEF PerrorTells, PERRMSG_MIN, PERRMSG_MAX
    <3> QED BY <3>1
  <2> QED BY <1>0, <1>1, <2>2 DEF ReportInv, Alone, TopTo, Own, Still, WritesTell
<1> QED BY <1>4, <1>5 DEF Reports

LEMMA ReportProgram ==
    ASSUME Clients, TInv, main \in Reports, ReportInv, Program
    PROVE  ReportInv'
<1>0. /\ Len(stack) = 1 /\ Top = stack[1] /\ Top.fn = main /\ Top.sig = 0
      /\ Top \in Activation /\ Top.at \in 1..4 /\ Top.call # "blocked"
      /\ Len(Code[main]) = 3 /\ Top.call \in {"no", "back"}
  BY TopType, ReportsLines DEF ReportInv, Alone, Top, TInv, StackOK, Activation
<1>1. Top.call = "no" /\ Top.at <= 3 => AtCall /\ Call = Code[main][Top.at]
  BY <1>0 DEF AtCall, Call
<1>2. CASE Top.call = "no" /\ Top.at = 1
  <2> DEFINE errors == IF main = "report" THEN {2, 39} ELSE {2}
  <2>1. Call = Plain("plain", errors)
    BY <1>0, <1>1, <1>2, ReportsLines
  <2> HIDE DEF errors
  <2>2. PICK r \in {1} \cup {-e : e \in errors} : TopTo(1, "back", r, Top.rax)
    BY <1>1, <1>2, <2>1, PlainDoes
  <2>3. Own /\ Still /\ Silent /\ UNCHANGED <<errno, failed>>
    BY <1>1, <1>2, <2>1, PlainDoes
  <2>4. r \in {1, -2, -39} /\ (main = "report_prefix" => r # -39)
    BY <2>2 DEF errors
  <2> QED BY <1>0, <1>2, <2>2, <2>3, <2>4
          DEF ReportInv, Alone, TopTo, Own, Still, Silent, PerrorTells, WritesTell
<1>3. CASE Top.call = "back"
  <2>1. Call.op = "plain" /\ Top.at = 1 /\ Top.at <= Len(Code[Top.fn])
    BY <1>0, <1>3, ReportsLines DEF ReportInv, Call, Plain
  <2>2. /\ TopTo(2, "no", Top.ret, IF Top.ret < 0 THEN -1 ELSE Top.ret)
        /\ Own /\ Still /\ Silent /\ WRAPPER_RETval
    BY <1>3, <2>1, WrapDoes
  <2>3. Top.ret \in {1, -2, -39} /\ (main = "report_prefix" => Top.ret # -39)
    BY <1>0, <1>3 DEF ReportInv
  <2>4. InMain
    BY <1>0, TopType DEF InMain
  <2>5. Top.ret < 0 => errno' = -Top.ret /\ failed' = -Top.ret
    BY <2>2, <2>3, <2>4 DEF WRAPPER_RETval, Done, NoError
  <2>6. told' = NotYet
    BY <1>0, <2>1, <2>2 DEF Silent, ReportInv
  <2>7. /\ stack'[1].at = 2 /\ stack'[1].call = "no" /\ stack'[1].fn = main /\ Len(stack') = 1
        /\ stack'[1].rax = IF Top.ret < 0 THEN -1 ELSE Top.ret
    BY <1>0, <2>2 DEF TopTo
  <2>8. stack'[1].rax = -1 => Failed'
    BY <2>2, <2>3, <2>5, <2>7 DEF Failed, Own
  <2>9. Alone' /\ said' # "pending"
    BY <1>0, <2>2, <2>7 DEF Alone, ReportInv, Own, Still, Silent
  <2> QED BY <2>6, <2>7, <2>8, <2>9 DEF ReportInv, PerrorTells, WritesTell
<1>4. CASE Top.call = "no" /\ Top.at = 2
  <2>1. /\ TopTo(IF Top.rax = -1 THEN 3 ELSE 4, "no", Top.ret, Top.rax)
        /\ Own /\ Still /\ Silent /\ UNCHANGED <<errno, failed>>
    BY <1>1, <1>4, ReportsLines, IfDoes, Conditions
  <2> QED BY <1>0, <1>4, <2>1
          DEF ReportInv, Alone, TopTo, Own, Still, Silent, PerrorTells, WritesTell, Failed
<1>5. CASE Top.call = "no" /\ Top.at = 3
  BY <1>5, ReportTells
<1>6. CASE Top.call = "no" /\ Top.at = 4
  <2>1. /\ Own /\ Silent /\ disp' = disp
        /\ (stack' = stack /\ UNCHANGED <<errno, failed>>) \/ myrt
    BY <1>0, <1>6, EndDoes
  <2>2. ~myrt
    BY <1>0 DEF myrt
  <2> QED BY <2>1, <2>2, ReportSame DEF Own
<1> QED BY <1>0, <1>2, <1>3, <1>4, <1>5, <1>6

LEMMA ReportStep ==
    ASSUME Clients, TInv, main \in Reports, ReportInv, [Next]_vars
    PROVE  ReportInv'
<1>1. CASE UNCHANGED vars
  BY <1>1, ReportSame DEF vars, program, library, kernel, history, Silent
<1>2. CASE Program
  BY <1>2, ReportProgram
<1>3. CASE Tick
  <2>1. ~Sleeping
    BY DEF Sleeping, ReportInv, Alone, Top
  <2> QED BY <1>3, <2>1, TickDoes, ReportSame DEF Own
<1>4. ASSUME NEW s \in Signals, Deliver(s)
      PROVE  ReportInv'
  <2>1. ~Interrupts(s)
    BY DEF Interrupts, ReportInv, Alone
  <2> QED BY <1>4, <2>1, DeliverDoes, ReportSame DEF Own
<1>5. ASSUME NEW s \in Signals, Send(s)
      PROVE  ReportInv'
  BY <1>5, SendDoes, ReportSame DEF Own
<1> QED BY <1>1, <1>2, <1>3, <1>4, <1>5, Steps

-----------------------------------------------------------------------------
(* alarm2. *)

\* Words and signals: bit 13 stands for SIGALRM.
LEMMA AlarmBit ==
    ASSUME Clients
    PROVE  /\ SIGALRM \in Signals /\ Valid(SIGALRM) /\ SIGALRM - 1 = 13
           /\ SIGALRM \in SignalsOf({13})
           /\ \A signals \in SUBSET Signals : 13 \in WordOf(signals) <=> SIGALRM \in signals
<1>1. SIGALRM \in Signals /\ Signals \subseteq 1..64
  BY LibMiniAssumption DEF Clients, NSIG
<1>2. Valid(SIGALRM) /\ SIGALRM - 1 = 13 /\ 13 + 1 = SIGALRM
  BY DEF Valid, SIGALRM, NSIG
<1>3. SIGALRM \in SignalsOf({13})
  BY <1>1, <1>2 DEF SignalsOf
<1>4. ASSUME NEW signals \in SUBSET Signals
      PROVE  13 \in WordOf(signals) <=> SIGALRM \in signals
  <2>1. ASSUME 13 \in WordOf(signals)
        PROVE  SIGALRM \in signals
    <3>1. PICK n \in signals : n - 1 = 13
      BY <2>1 DEF WordOf
    <3>2. n \in Int
      BY <1>1
    <3> QED BY <3>1, <3>2 DEF SIGALRM
  <2> QED BY <1>2, <2>1 DEF WordOf
<1> QED BY <1>1, <1>2, <1>3, <1>4

\* What is common to the programs that have the set s.
LEMMA SetsType ==
    ASSUME Clients, TInv
    PROVE  /\ sets \in [SetVars -> SUBSET Bits] /\ "s" \in SetVars /\ "new" \in SetVars
           /\ pending \cap mask \in SUBSET Signals
BY DEF Clients, TInv, TypeOK

LEMMA Alarm2Same ==
    ASSUME Alarm2Inv, main' = main, stack' = stack, disp' = disp, mask' = mask, sets' = sets,
           timer' = timer, rem' = rem, Silent,
           SIGALRM \in mask /\ SIGALRM \in pending => SIGALRM \in pending'
    PROVE  Alarm2Inv'
BY DEF Alarm2Inv, Alone, Past, Silent

LEMMA Alarm2Where ==
    ASSUME Clients, TInv, main = "alarm2", Alarm2Inv
    PROVE  /\ Len(stack) = 1 /\ Top = stack[1] /\ Code[Top.fn] = alarm2 /\ Top \in Activation
           /\ Top.fn = "alarm2" /\ Top.at \in 1..12 /\ Top.at # 8
           /\ Top.at <= Len(Code[Top.fn]) /\ Call = alarm2[Top.at]
           /\ Top.call = "no" => AtCall
<1>1. /\ Len(stack) = 1 /\ Top = stack[1] /\ Code[Top.fn] = alarm2 /\ Top \in Activation
      /\ Top.fn = "alarm2" /\ Top.at \in 1..12 /\ Top.at # 8
  BY Functions, TopType DEF Alarm2Inv, Alone, Top
<1> QED BY <1>1, Alarm2Lines DEF AtCall, Call

\* The calls of alarm2, one after the other.
LEMMA Alarm2Calls ==
    ASSUME Clients, TInv, main = "alarm2", Alarm2Inv, Program, Top.call = "no"
    PROVE  Alarm2Inv'
<1>0. /\ Len(stack) = 1 /\ Top = stack[1] /\ Top \in Activation
      /\ Top.at \in 1..12 /\ Top.at # 8 /\ Call = alarm2[Top.at] /\ AtCall
  BY Alarm2Where
<1>1. CASE Top.at = 1
  <2>1. /\ TopTo(2, "no", Top.ret, 0) /\ Own /\ Still /\ Silent
        /\ sets' = [sets EXCEPT !["s"] = {}]
    BY <1>0, <1>1, Alarm2Lines, EmptyDoes
  <2>2. sets'["s"] = {}
    BY <2>1, SetsType
  <2> QED BY <1>0, <1>1, <2>1, <2>2 DEF Alarm2Inv, Alone, Past, TopTo, Own, Still, Silent
<1>2. CASE Top.at = 2
  <2>1. /\ TopTo(3, "no", Top.ret, 0) /\ Own /\ Still /\ Silent
        /\ sets' = [sets EXCEPT !["s"] = sets["s"] \cup {SIGALRM - 1}]
    BY <1>0, <1>2, Alarm2Lines, AddDoes, AlarmBit
  <2>2. sets'["s"] = {13}
    BY <1>0, <1>2, <2>1, SetsType, AlarmBit DEF Alarm2Inv
  <2> QED BY <1>0, <1>2, <2>1, <2>2 DEF Alarm2Inv, Alone, Past, TopTo, Own, Still, Silent
<1>3. CASE Top.at = 3
  <2>1. /\ TopTo(3, "back", 0, Top.rax) /\ Own /\ Silent
        /\ pending' = pending /\ disp' = disp /\ timer' = timer
        /\ mask' = NewMask("SIG_BLOCK", SignalsOf(sets["s"])) /\ sets' = sets
    BY <1>0, <1>3, Alarm2Lines, ProcMaskDoes
  <2>2. SIGALRM \in mask'
    BY <1>0, <1>3, <2>1, AlarmBit DEF Alarm2Inv, NewMask
  <2> QED BY <1>0, <1>3, <2>1, <2>2 DEF Alarm2Inv, Alone, Past, TopTo, Own, Silent
<1>4. CASE Top.at = 4
  <2>1. /\ TopTo(4, "back", timer, Top.rax) /\ Own /\ Silent
        /\ timer' = 3 /\ sets' = sets /\ mask' = mask /\ pending' = pending /\ disp' = disp
    BY <1>0, <1>4, Alarm2Lines, AlarmDoes
  <2> QED BY <1>0, <1>4, <2>1 DEF Alarm2Inv, Alone, Past, TopTo, Own, Silent
<1>5. CASE Top.at = 5
  <2>1. /\ TopTo(5, "blocked", Top.ret, Top.rax) /\ Own /\ Silent
        /\ rem' = 5 /\ timer' = timer
        /\ sets' = sets /\ mask' = mask /\ pending' = pending /\ disp' = disp
    BY <1>0, <1>5, Alarm2Lines, SleepDoes
  <2> QED BY <1>0, <1>5, <2>1 DEF Alarm2Inv, Alone, Past, TopTo, Own, Silent
<1>6. CASE Top.at = 6
  <2>1. /\ TopTo(6, "back", 0, Top.rax) /\ Own /\ Still /\ Silent
        /\ sets' = [sets EXCEPT !["s"] = WordOf(pending \cap mask)]
    BY <1>0, <1>6, Alarm2Lines, PendingDoes
  <2>2. SIGALRM \in pending \cap mask
    BY <1>0, <1>6 DEF Alarm2Inv, Past
  <2>3. 13 \in sets'["s"]
    BY <2>1, <2>2, SetsType, AlarmBit
  <2> QED BY <1>0, <1>6, <2>1, <2>3 DEF Alarm2Inv, Alone, Past, TopTo, Own, Still, Silent
<1>7. CASE Top.at = 7
  <2>1. /\ TopTo(IF Top.rax = -1 THEN 8 ELSE 9, "no", Top.ret, Top.rax)
        /\ Own /\ Still /\ Silent /\ sets' = sets
    BY <1>0, <1>7, Alarm2Lines, IfDoes, Conditions
  <2>2. TopTo(9, "no", Top.ret, Top.rax)
    BY <1>0, <1>7, <2>1 DEF Alarm2Inv
  <2> QED BY <1>0, <1>7, <2>1, <2>2 DEF Alarm2Inv, Alone, Past, TopTo, Own, Still, Silent
<1>8. CASE Top.at = 9
  <2>1. /\ TopTo(10, "no", Top.ret, IF SIGALRM - 1 \in sets["s"] THEN 1 ELSE 0)
        /\ Own /\ Still /\ Silent /\ sets' = sets
    BY <1>0, <1>8, Alarm2Lines, IsMemberDoes, SetsType, AlarmBit
  <2>2. TopTo(10, "no", Top.ret, 1)
    BY <1>0, <1>8, <2>1, AlarmBit DEF Alarm2Inv, Past
  <2> QED BY <1>0, <1>8, <2>1, <2>2 DEF Alarm2Inv, Alone, Past, TopTo, Own, Still, Silent
<1>9. CASE Top.at = 10
  <2>1. /\ TopTo(IF Top.rax # 0 THEN 11 ELSE 13, "no", Top.ret, Top.rax)
        /\ Own /\ Still /\ Silent /\ sets' = sets
    BY <1>0, <1>9, Alarm2Lines, IfDoes, Conditions
  <2>2. TopTo(11, "no", Top.ret, Top.rax)
    BY <1>0, <1>9, <2>1 DEF Alarm2Inv
  <2> QED BY <1>0, <1>9, <2>1, <2>2 DEF Alarm2Inv, Alone, Past, TopTo, Own, Still, Silent
<1>10. CASE Top.at = 11
  <2>1. /\ \E r \in Int : TopTo(11, "back", r, Top.rax)
        /\ Own /\ Still /\ told' = told /\ said' \in {said, "pending"} /\ sets' = sets
    BY <1>0, <1>10, Alarm2Lines, WriteDoes
  <2> QED BY <1>0, <1>10, <2>1 DEF Alarm2Inv, Alone, Past, TopTo, Own, Still
<1>11. CASE Top.at = 12
  <2>1. stack' = stack /\ Own /\ Still /\ Silent /\ sets' = sets
    BY <1>0, <1>11, Alarm2Lines, ExitDoes
  <2> QED BY <2>1, Alarm2Same DEF Own, Still
<1> QED BY <1>0, <1>1, <1>2, <1>3, <1>4, <1>5, <1>6, <1>7, <1>8, <1>9, <1>10, <1>11

\* The results of its calls.
LEMMA Alarm2Results ==
    ASSUME Clients, TInv, main = "alarm2", Alarm2Inv, Program, Top.call = "back"
    PROVE  Alarm2Inv'
<1>0. /\ Len(stack) = 1 /\ Top = stack[1] /\ Top \in Activation
      /\ Top.at \in {3, 4, 5, 6, 11} /\ Call = alarm2[Top.at]
      /\ Top.at <= Len(Code[Top.fn])
  BY Alarm2Where DEF Alarm2Inv
<1>1. /\ \E v : TopTo(Top.at + 1, "no", Top.ret, v)
      /\ Own /\ Still /\ Silent /\ sets' = sets
  BY <1>0, WrapDoes
<1>2. CASE Top.at = 6
  <2>1. TopTo(7, "no", Top.ret, 0)
    <3>1. Call.op = "sigpending" /\ Top.ret = 0
      BY <1>0, <1>2, Alarm2Lines DEF Pending, Alarm2Inv
    <3> QED BY <1>0, <1>2, <3>1, WrapDoes
  <2> QED BY <1>0, <1>1, <1>2, <2>1 DEF Alarm2Inv, Alone, Past, TopTo, Own, Still, Silent
<1>3. CASE Top.at \in {3, 4, 5, 11}
  BY <1>0, <1>1, <1>3 DEF Alarm2Inv, Alone, Past, TopTo, Own, Still, Silent
<1> QED BY <1>0, <1>2, <1>3

\* The alarm goes off before the sleep ends.
LEMMA Alarm2Tick ==
    ASSUME Clients, TInv, main = "alarm2", Alarm2Inv, Tick
    PROVE  Alarm2Inv'
<1>0. /\ Len(stack) = 1 /\ Top = stack[1] /\ Top.at \in 1..12 /\ Call = alarm2[Top.at]
      /\ timer \in Nat /\ rem \in Nat
      /\ Top.call = "blocked" => Top.at = 5
  BY Alarm2Where DEF Alarm2Inv, TInv, TypeOK
<1>1. /\ Own /\ Silent /\ UNCHANGED <<sets, mask, disp>>
      /\ timer' = IF timer > 0 THEN timer - 1 ELSE 0
      /\ pending' = IF timer = 1 THEN Pended(SIGALRM) ELSE pending
      /\ \/ stack' = stack /\ (Sleeping => rem' = rem - 1)
         \/ Sleeping /\ rem <= 1 /\ TopTo(Top.at, "back", 0, Top.rax)
  BY TickDoes
<1>2. Sleeping <=> Top.call = "blocked"
  <2>1. Top.call = "blocked" => Call = Sleep(5)
    BY <1>0, Alarm2Lines
  <2> QED BY <2>1 DEF Sleeping, Sleep
<1>3. /\ SIGALRM \in pending => SIGALRM \in pending'
      /\ timer = 1 => SIGALRM \in pending'
  <2>1. disp[SIGALRM] # "SIG_IGN"
    BY AlarmBit DEF Alarm2Inv, Alone
  <2> QED BY <1>1, <2>1 DEF Pended
<1>4. CASE stack' = stack
  BY <1>0, <1>1, <1>2, <1>3, <1>4 DEF Alarm2Inv, Alone, Past, Own, Silent
<1>5. CASE Sleeping /\ rem <= 1 /\ TopTo(Top.at, "back", 0, Top.rax)
  <2>1. SIGALRM \in pending
    BY <1>0, <1>2, <1>5 DEF Alarm2Inv
  <2> QED BY <1>0, <1>1, <1>2, <1>3, <1>5, <2>1 DEF Alarm2Inv, Alone, Past, TopTo, Own, Silent
<1> QED BY <1>1, <1>4, <1>5

LEMMA Alarm2Step ==
    ASSUME Clients, TInv, main = "alarm2", Alarm2Inv, [Next]_vars
    PROVE  Alarm2Inv'
<1>1. CASE UNCHANGED vars
  BY <1>1, Alarm2Same DEF vars, program, library, kernel, history, Silent
<1>2. CASE Program
  <2>1. Top.call \in {"no", "back"}
    BY <1>2, TopType DEF Program, UserMode, Activation
  <2> QED BY <1>2, <2>1, Alarm2Calls, Alarm2Results
<1>3. CASE Tick
  BY <1>3, Alarm2Tick
<1>4. ASSUME NEW s \in Signals, Deliver(s)
      PROVE  Alarm2Inv'
  <2>1. ~Interrupts(s)
    BY DEF Interrupts, Alarm2Inv, Alone
  <2> QED BY <1>4, <2>1, DeliverDoes, Alarm2Same DEF Own
<1>5. ASSUME NEW s \in Signals, Send(s)
      PROVE  Alarm2Inv'
  BY <1>5, SendDoes, Alarm2Same DEF Own
<1> QED BY <1>1, <1>2, <1>3, <1>4, <1>5, Steps

-----------------------------------------------------------------------------
(* alarm3. *)

LEMMA Alarm3Same ==
    ASSUME Alarm3Inv, main' = main, stack' = stack, disp' = disp, mask' = mask, sets' = sets,
           Silent, SIGALRM \in mask /\ SIGALRM \in pending => SIGALRM \in pending'
    PROVE  Alarm3Inv'
BY DEF Alarm3Inv, Alarm3Frames, Past, Silent

\* main runs when no handler does.
LEMMA Alarm3Where ==
    ASSUME Clients, TInv, main = "alarm3", Alarm3Inv, Len(stack) = 1
    PROVE  /\ Top = stack[1] /\ Code[Top.fn] = alarm3 /\ Top \in Activation
           /\ Top.fn = "alarm3" /\ Top.at \in 1..16 /\ Top.at # 10
           /\ Call = alarm3[Top.at] /\ Len(Code[Top.fn]) = 15
           /\ Top.call = "no" /\ Top.at <= 15 => AtCall
<1>1. /\ Top = stack[1] /\ Code[Top.fn] = alarm3 /\ Top \in Activation
      /\ Top.fn = "alarm3" /\ Top.at \in 1..16 /\ Top.at # 10
  BY Functions, TopType DEF Alarm3Inv, Top
<1> QED BY <1>1, Alarm3Lines DEF AtCall, Call

LEMMA Alarm3Calls ==
    ASSUME Clients, TInv, main = "alarm3", Alarm3Inv, Program, Len(stack) = 1, Top.call = "no"
    PROVE  Alarm3Inv'
<1>0. /\ Top = stack[1] /\ Top \in Activation /\ Code[Top.fn] = alarm3
      /\ Top.at \in 1..16 /\ Top.at # 10 /\ Call = alarm3[Top.at] /\ Len(Code[Top.fn]) = 15
      /\ Top.at <= 15 => AtCall
  BY Alarm3Where
<1> DEFINE Stays == main' = main /\ disp' = disp /\ mask' = mask /\ pending' = pending /\ Silent
<1>a. Own /\ Still /\ Silent => Stays
  BY DEF Own, Still, Silent
<1>1. CASE Top.at = 1
  <2>1. /\ TopTo(2, "no", Top.ret, 0) /\ Stays
        /\ sets' = [sets EXCEPT !["s"] = {}]
    BY <1>0, <1>a, <1>1, Alarm3Lines, EmptyDoes
  <2>2. sets'["s"] = {}
    BY <2>1, SetsType
  <2> QED BY <1>0, <1>1, <2>1, <2>2 DEF Alarm3Inv, Alarm3Frames, Past, TopTo, Silent
<1>2. CASE Top.at = 2
  <2>1. /\ TopTo(3, "no", Top.ret, 0) /\ Stays
        /\ sets' = [sets EXCEPT !["s"] = sets["s"] \cup {SIGALRM - 1}]
    BY <1>0, <1>a, <1>2, Alarm3Lines, AddDoes, AlarmBit
  <2>2. sets'["s"] = {13}
    BY <1>0, <1>2, <2>1, SetsType, AlarmBit DEF Alarm3Inv
  <2> QED BY <1>0, <1>2, <2>1, <2>2 DEF Alarm3Inv, Alarm3Frames, Past, TopTo, Silent
<1>3. CASE Top.at = 3
  <2>1. /\ TopTo(3, "back", 0, Top.rax) /\ Own /\ Silent
        /\ pending' = pending /\ disp' = disp
        /\ mask' = NewMask("SIG_BLOCK", SignalsOf(sets["s"])) /\ sets' = sets
    BY <1>0, <1>3, Alarm3Lines, ProcMaskDoes
  <2>2. SIGALRM \in mask'
    BY <1>0, <1>3, <2>1, AlarmBit DEF Alarm3Inv, NewMask
  <2> QED BY <1>0, <1>3, <2>1, <2>2 DEF Alarm3Inv, Alarm3Frames, Past, TopTo, Own, Silent
<1>4. CASE Top.at = 4
  <2>1. /\ TopTo(4, "back", 0, Top.rax) /\ Own /\ Silent
        /\ disp' = [disp EXCEPT ![SIGALRM] = "SIG_IGN"] /\ sets' = sets /\ mask' = mask
    BY <1>0, <1>4, Alarm3Lines, SignalDoes, AlarmBit
  <2>2. \A s \in Signals : disp'[s] \in {disp[s], "SIG_IGN"}
    BY <2>1 DEF TInv, TypeOK
  <2> QED BY <1>0, <1>4, <2>1, <2>2 DEF Alarm3Inv, Alarm3Frames, Past, TopTo, Own, Silent
<1>5. CASE Top.at = 5
  <2>0. Valid(SIGINT)
    BY DEF Valid, SIGINT, NSIG
  <2>1. /\ TopTo(5, "back", 0, Top.rax) /\ Own /\ Silent
        /\ disp' = [disp EXCEPT ![SIGINT] = "handler"] /\ sets' = sets /\ mask' = mask
    BY <1>0, <1>5, <2>0, Alarm3Lines, SignalDoes
  <2>2. \A s \in Signals : disp'[s] \in {disp[s], "handler"}
    BY <2>1 DEF TInv, TypeOK
  <2> QED BY <1>0, <1>5, <2>1, <2>2 DEF Alarm3Inv, Alarm3Frames, Past, TopTo, Own, Silent
<1>6. CASE Top.at = 6
  <2>1. TopTo(6, "back", timer, Top.rax) /\ Stays /\ sets' = sets
    BY <1>0, <1>6, Alarm3Lines, AlarmDoes DEF Own
  <2> QED BY <1>0, <1>6, <2>1 DEF Alarm3Inv, Alarm3Frames, Past, TopTo, Silent
<1>7. CASE Top.at = 7
  <2>1. TopTo(7, "blocked", Top.ret, Top.rax) /\ Stays /\ sets' = sets
    BY <1>0, <1>7, Alarm3Lines, PauseDoes DEF Own
  <2> QED BY <1>0, <1>7, <2>1 DEF Alarm3Inv, Alarm3Frames, Past, TopTo, Silent
<1>8. CASE Top.at = 8
  <2>0. Call = Pending("s") /\ AtCall
    BY <1>0, <1>8, Alarm3Lines
  <2>1. /\ TopTo(8, "back", 0, Top.rax) /\ Stays
        /\ sets' = [sets EXCEPT !["s"] = WordOf(pending \cap mask)]
    BY <1>a, <1>8, <2>0, PendingDoes
  <2>2. 13 \in sets'["s"] => SIGALRM \in pending
    BY <2>1, SetsType, AlarmBit
  <2> QED BY <1>0, <1>8, <2>1, <2>2 DEF Alarm3Inv, Alarm3Frames, Past, TopTo, Silent
<1>9. CASE Top.at = 9
  <2>1. TopTo(IF Top.rax = -1 THEN 10 ELSE 11, "no", Top.ret, Top.rax) /\ Stays /\ sets' = sets
    BY <1>0, <1>a, <1>9, Alarm3Lines, IfDoes, Conditions
  <2>2. TopTo(11, "no", Top.ret, Top.rax)
    BY <1>0, <1>9, <2>1 DEF Alarm3Inv
  <2> QED BY <1>0, <1>9, <2>1, <2>2 DEF Alarm3Inv, Alarm3Frames, Past, TopTo, Silent
<1>10. CASE Top.at = 11
  <2>1. /\ TopTo(12, "no", Top.ret, IF SIGALRM - 1 \in sets["s"] THEN 1 ELSE 0)
        /\ Stays /\ sets' = sets
    BY <1>0, <1>a, <1>10, Alarm3Lines, IsMemberDoes, SetsType, AlarmBit
  <2>2. TopTo(12, "no", Top.ret, IF 13 \in sets["s"] THEN 1 ELSE 0)
    BY <2>1, AlarmBit
  <2> QED BY <1>0, <1>10, <2>1, <2>2 DEF Alarm3Inv, Alarm3Frames, Past, TopTo, Silent
<1>11. CASE Top.at = 12
  <2>1. TopTo(IF Top.rax # 0 THEN 13 ELSE 15, "no", Top.ret, Top.rax) /\ Stays /\ sets' = sets
    BY <1>0, <1>a, <1>11, Alarm3Lines, IfDoes, Conditions
  <2> QED BY <1>0, <1>11, <2>1 DEF Alarm3Inv, Alarm3Frames, Past, TopTo, Silent
<1>12. CASE Top.at = 13
  <2>1. /\ \E r \in Int : TopTo(13, "back", r, Top.rax)
        /\ Own /\ Still /\ told' = told /\ said' \in {said, "pending"} /\ sets' = sets
    BY <1>0, <1>12, Alarm3Lines, WriteDoes
  <2> QED BY <1>0, <1>12, <2>1 DEF Alarm3Inv, Alarm3Frames, Past, TopTo, Own, Still
<1>13. CASE Top.at = 14
  <2>1. stack' = stack /\ Stays /\ sets' = sets
    BY <1>0, <1>a, <1>13, Alarm3Lines, ExitDoes
  <2> QED BY <2>1, Alarm3Same
<1>14. CASE Top.at = 15
  <2>1. /\ \E r \in Int : TopTo(15, "back", r, Top.rax)
        /\ Own /\ Still /\ told' = told /\ said' \in {said, "not_pending"} /\ sets' = sets
    BY <1>0, <1>14, Alarm3Lines, WriteDoes
  <2> QED BY <1>0, <1>14, <2>1 DEF Alarm3Inv, Alarm3Frames, Past, TopTo, Own, Still
<1>15. CASE Top.at = 16
  <2>1. /\ Own /\ Silent /\ disp' = disp /\ sets' = sets /\ pending' = pending
        /\ (stack' = stack /\ mask' = mask) \/ myrt
    BY <1>0, <1>15, EndDoes
  <2>2. ~myrt
    BY <1>0 DEF myrt, TInv, StackOK
  <2> QED BY <2>1, <2>2, Alarm3Same DEF Own
<1> QED BY <1>0, <1>1, <1>2, <1>3, <1>4, <1>5, <1>6, <1>7, <1>8, <1>9, <1>10, <1>11, <1>12,
           <1>13, <1>14, <1>15

LEMMA Alarm3Results ==
    ASSUME Clients, TInv, main = "alarm3", Alarm3Inv, Program, Len(stack) = 1, Top.call = "back"
    PROVE  Alarm3Inv'
<1>0. /\ Top = stack[1] /\ Top \in Activation
      /\ Top.at \in {3, 4, 5, 6, 7, 8, 13, 15} /\ Call = alarm3[Top.at]
      /\ Top.at <= Len(Code[Top.fn])
  BY Alarm3Where DEF Alarm3Inv
<1>1. /\ \E v : TopTo(Top.at + 1, "no", Top.ret, v)
      /\ Own /\ Still /\ Silent /\ sets' = sets
  BY <1>0, WrapDoes
<1>2. CASE Top.at = 8
  <2>1. TopTo(9, "no", Top.ret, 0)
    <3>1. Call.op = "sigpending" /\ Top.ret = 0
      BY <1>0, <1>2, Alarm3Lines DEF Pending, Alarm3Inv
    <3> QED BY <1>0, <1>2, <3>1, WrapDoes
  <2> QED BY <1>0, <1>1, <1>2, <2>1
          DEF Alarm3Inv, Alarm3Frames, Past, TopTo, Own, Still, Silent
<1>3. CASE Top.at \in {3, 4, 5, 6, 7, 13, 15}
  BY <1>0, <1>1, <1>3 DEF Alarm3Inv, Alarm3Frames, Past, TopTo, Own, Still, Silent
<1> QED BY <1>0, <1>2, <1>3

\* The handler is empty: all it does is to return, with SIGALRM still blocked.
LEMMA Alarm3Handler ==
    ASSUME Clients, TInv, main = "alarm3", Alarm3Inv, Program, Len(stack) > 1
    PROVE  Alarm3Inv'
<1>0. /\ stack \in Seq(Activation) /\ Len(stack) \in Nat /\ Len(stack) \in 2..Len(stack)
      /\ Top = stack[Len(stack)] /\ Top.at \in Nat /\ Top.at > 0
  BY TopType DEF TInv, TypeOK, Top, Activation
<1>1. Code[Top.fn] = <<>> /\ Top.call = "no" /\ SIGALRM \in Top.mask
  BY <1>0, Functions DEF Alarm3Inv, Alarm3Frames
<1>2. Len(Code[Top.fn]) = 0
  BY <1>1
<1>3. /\ Own /\ Silent /\ sets' = sets /\ pending' = pending /\ disp' = disp
      /\ (stack' = stack /\ mask' = mask) \/ myrt
  BY <1>0, <1>1, <1>2, EndDoes
<1>4. CASE myrt
  <2>1. /\ mask' = Top.mask /\ Len(stack') = Len(stack) - 1
        /\ \A k \in 1..(Len(stack) - 1) : stack'[k] = stack[k]
    BY <1>0, <1>4, MyrtStep
  <2>2. stack'[1] = stack[1] /\ Alarm3Frames'
    BY <1>0, <2>1 DEF Alarm3Inv, Alarm3Frames
  <2> QED BY <1>0, <1>1, <1>3, <2>1, <2>2 DEF Alarm3Inv, Past, Own, Silent
<1> QED BY <1>3, <1>4, Alarm3Same DEF Own

LEMMA Alarm3Deliver ==
    ASSUME Clients, TInv, main = "alarm3", Alarm3Inv, NEW s \in Signals, Deliver(s)
    PROVE  Alarm3Inv'
<1>1. /\ Own /\ Silent /\ UNCHANGED <<sets, disp>>
      /\ s \in pending /\ s \notin mask /\ pending' = pending \ {s}
      /\ (stack' = stack /\ mask' = mask) \/ Interrupts(s)
  BY DeliverDoes
<1>2. CASE Interrupts(s)
  <2>0. stack \in Seq(Activation) /\ Len(stack) \in Nat /\ Len(stack) >= 1 /\ Top = stack[Len(stack)]
    BY TopType DEF TInv, TypeOK, Top
  <2>1. disp[s] = "handler"
    BY <1>2 DEF Interrupts, Alarm3Inv
  <2>2. Past(5) /\ SIGALRM \in mask
    <3>1. Past(5)
      BY <2>1 DEF Alarm3Inv
    <3>2. Past(3)
      BY <3>1 DEF Past, Alarm3Inv
    <3> QED BY <3>1, <3>2 DEF Alarm3Inv
  <2>3. /\ SIGALRM \in mask' /\ (SIGALRM \in pending => SIGALRM \in pending')
    BY <1>1, <1>2, <2>2 DEF Interrupts
  <2>4. /\ stack'[Len(stack) + 1].fn = "handler" /\ stack'[Len(stack) + 1].call = "no"
        /\ SIGALRM \in stack'[Len(stack) + 1].mask
    BY <1>2, <2>1, <2>2 DEF Interrupts, Called
  <2>5. Alarm3Frames'
    <3>1. \A k \in 2..Len(stack) : stack[k].call # "blocked"
      BY DEF Alarm3Inv, Alarm3Frames
    <3>2. \A k \in 2..Len(stack) : stack'[k] = stack[k]
      BY <1>2, <2>0, <3>1 DEF Interrupts
    <3>3. \A k \in 2..Len(stack') : k \in 2..Len(stack) \/ k = Len(stack) + 1
      BY <1>2, <2>0 DEF Interrupts
    <3> QED BY <2>4, <3>2, <3>3 DEF Alarm3Inv, Alarm3Frames
  <2>6. \/ stack'[1] = stack[1]
        \/ /\ stack[1].call = "blocked" /\ stack'[1].call = "back"
           /\ stack'[1].fn = stack[1].fn /\ stack'[1].at = stack[1].at
           /\ stack'[1].rax = stack[1].rax
    BY <1>2, BottomInterrupted
  <2>7. Past(5)' /\ Len(stack') > 1
    BY <1>2, <2>0, <2>2, <2>6 DEF Past, Interrupts, Alarm3Inv
  <2> QED BY <1>1, <2>3, <2>5, <2>6, <2>7 DEF Alarm3Inv, Past, Own, Silent
<1> QED BY <1>1, <1>2, Alarm3Same DEF Own

LEMMA Alarm3Step ==
    ASSUME Clients, TInv, main = "alarm3", Alarm3Inv, [Next]_vars
    PROVE  Alarm3Inv'
<1>1. CASE UNCHANGED vars
  BY <1>1, Alarm3Same DEF vars, program, library, kernel, history, Silent
<1>2. CASE Program
  <2>1. Top.call \in {"no", "back"} /\ (Len(stack) = 1 \/ Len(stack) > 1)
    BY <1>2, TopType DEF Program, UserMode, Activation
  <2> QED BY <1>2, <2>1, Alarm3Calls, Alarm3Results, Alarm3Handler
<1>3. CASE Tick
  <2>1. ~Sleeping
    <3>1. ASSUME Len(stack) = 1, Top.call = "blocked"
          PROVE  Call.op # "sleep"
      <4>1. Call = Do("pause")
        BY <3>1, Alarm3Where, Alarm3Lines DEF Alarm3Inv
      <4> QED BY <4>1 DEF Do
    <3>2. Len(stack) > 1 => Top.call = "no"
      BY TopType DEF Alarm3Inv, Alarm3Frames, Top
    <3> QED BY <3>1, <3>2, TopType DEF Sleeping
  <2>2. /\ Own /\ Silent /\ UNCHANGED <<sets, mask, disp>> /\ stack' = stack
        /\ pending \subseteq pending'
    BY <1>3, <2>1, TickDoes DEF Pended
  <2> QED BY <2>2, Alarm3Same DEF Own
<1>4. ASSUME NEW s \in Signals, Deliver(s)
      PROVE  Alarm3Inv'
  BY <1>4, Alarm3Deliver
<1>5. ASSUME NEW s \in Signals, Send(s)
      PROVE  Alarm3Inv'
  BY <1>5, SendDoes, Alarm3Same DEF Own
<1> QED BY <1>1, <1>2, <1>3, <1>4, <1>5, Steps

-----------------------------------------------------------------------------
(* sig1. *)

LEMMA Sig1Where ==
    ASSUME Clients, TInv, main = "sig1", Sig1Inv, Len(stack) = 1
    PROVE  /\ Top = stack[1] /\ Code[Top.fn] = sig1 /\ Top \in Activation
           /\ Top.at \in 1..31 /\ Top.at \notin {3, 8, 12, 18, 25, 28}
           /\ Call = sig1[Top.at] /\ Len(Code[Top.fn]) = 31
           /\ Top.call = "no" => AtCall
<1>1. /\ Top = stack[1] /\ Code[Top.fn] = sig1 /\ Top \in Activation
      /\ Top.at \in 1..31 /\ Top.at \notin {3, 8, 12, 18, 25, 28}
  BY Functions, TopType DEF Sig1Inv, Top
<1> QED BY <1>1, Sig1Lines DEF AtCall, Call

\* The function at the bottom stays where it is while a handler runs, and nothing is
\* put into a set.
LEMMA Sig1Below ==
    ASSUME Sig1Inv, Own, stack'[1] = stack[1], Sig1Frames', disp' = disp, sets' = sets,
           told' = told, said' # "pending"
    PROVE  Sig1Inv'
BY DEF Sig1Inv, Own

LEMMA Sig1Same ==
    ASSUME Sig1Inv, Own, stack' = stack, disp' = disp, sets' = sets, Silent
    PROVE  Sig1Inv'
BY DEF Sig1Inv, Sig1Frames, Own, Silent

LEMMA Sig1Calls ==
    ASSUME Clients, TInv, main = "sig1", Sig1Inv, Program, Len(stack) = 1, Top.call = "no"
    PROVE  Sig1Inv'
<1>0. /\ Top = stack[1] /\ Top \in Activation
      /\ Top.at \in 1..31 /\ Top.at \notin {3, 8, 12, 18, 25, 28}
      /\ Call = sig1[Top.at] /\ AtCall
  BY Sig1Where
<1>a. Valid(SIGQUIT) /\ SIGQUIT - 1 = 2
  BY DEF Valid, SIGQUIT, NSIG
<1>1. CASE Top.at = 1
  <2>1. /\ TopTo(1, "back", 0, Top.rax) /\ Own /\ Silent
        /\ disp' = [disp EXCEPT ![SIGQUIT] = "sig_quit"] /\ sets' = sets
    BY <1>0, <1>a, <1>1, Sig1Lines, SignalDoes
  <2>2. \A s \in Signals : disp'[s] \in {disp[s], "sig_quit"}
    BY <2>1 DEF TInv, TypeOK
  <2> QED BY <1>0, <1>1, <2>1, <2>2 DEF Sig1Inv, Sig1Frames, TopTo, Own, Silent
<1>2. CASE Top.at \in {2, 7, 11, 17, 27}
  <2>1. ASSUME NEW n \in {4, 9, 13, 19, 29}, Call = IfElse("rax_is_-1", n)
        PROVE  Sig1Inv'
    <3>0. n \in Nat /\ ~Holds("rax_is_-1")
      BY <1>0, <1>2, Conditions DEF Sig1Inv
    <3>1. TopTo(n, "no", Top.ret, Top.rax) /\ Own /\ Still /\ Silent /\ sets' = sets
      BY <1>0, <2>1, <3>0, IfDoes
    <3> QED BY <1>0, <1>2, <3>1 DEF Sig1Inv, Sig1Frames, TopTo, Own, Still, Silent
  <2> QED BY <1>0, <1>2, <2>1, Sig1Lines
<1>3. CASE Top.at \in {4, 5, 13}
  <2>1. /\ \E v : TopTo(Top.at + 1, "no", Top.ret, v)
        /\ Own /\ Still /\ Silent
    <3>1. CASE Top.at = 4
      BY <1>0, <3>1, Sig1Lines, EmptyDoes
    <3>2. CASE Top.at = 5
      BY <1>0, <1>a, <3>2, Sig1Lines, AddDoes
    <3>3. CASE Top.at = 13
      <4>1. "pend" \in SetVars /\ Call = IsMember("pend", SIGQUIT)
        BY <1>0, <3>3, Sig1Lines DEF Clients
      <4> QED BY <1>0, <1>a, <4>1, IsMemberDoes
    <3> QED BY <1>3, <3>1, <3>2, <3>3
  <2> QED BY <1>0, <1>3, <2>1 DEF Sig1Inv, Sig1Frames, TopTo, Own, Still, Silent
<1>4. CASE Top.at \in {6, 16, 26}
  <2>1. TopTo(Top.at, "back", 0, Top.rax) /\ Own /\ Silent /\ disp' = disp
    BY <1>0, <1>4, Sig1Lines, ProcMaskDoes
  <2> QED BY <1>0, <1>4, <2>1 DEF Sig1Inv, Sig1Frames, TopTo, Own, Silent
<1>5. CASE Top.at = 10
  <2>0. Call = Pending("pend")
    BY <1>0, <1>5, Sig1Lines
  <2>1. TopTo(Top.at, "back", 0, Top.rax) /\ Own /\ Still /\ Silent
    BY <1>0, <2>0, PendingDoes
  <2> QED BY <1>0, <1>5, <2>1 DEF Sig1Inv, Sig1Frames, TopTo, Own, Still, Silent
<1>6. CASE Top.at \in {9, 20, 29}
  <2>1. TopTo(Top.at, "blocked", Top.ret, Top.rax) /\ Own /\ Silent /\ disp' = disp
    BY <1>0, <1>6, Sig1Lines, SleepDoes
  <2> QED BY <1>0, <1>6, <2>1 DEF Sig1Inv, Sig1Frames, TopTo, Own, Silent
<1>7. CASE Top.at \in {15, 19, 21, 30}
  <2>1. ASSUME NEW word \in {"SIGQUIT_pending", "SIGQUIT_unblocked", "del_SIGQUIT_signal", "end"},
               Call = Write(word)
        PROVE  Sig1Inv'
    <3>1. /\ \E r \in Int : TopTo(Top.at, "back", r, Top.rax)
          /\ Own /\ Still /\ told' = told /\ said' \in {said, word}
      BY <1>0, <2>1, WriteDoes
    <3> QED BY <1>0, <1>7, <3>1 DEF Sig1Inv, Sig1Frames, TopTo, Own, Still
  <2> QED BY <1>0, <1>7, <2>1, Sig1Lines
<1>8. CASE Top.at = 14
  <2>1. TopTo(IF Top.rax # 0 THEN 15 ELSE 16, "no", Top.ret, Top.rax) /\ Own /\ Still /\ Silent
    BY <1>0, <1>8, Sig1Lines, IfDoes, Conditions
  <2> QED BY <1>0, <1>8, <2>1 DEF Sig1Inv, Sig1Frames, TopTo, Own, Still, Silent
<1>9. CASE Top.at = 22
  <2>1. /\ TopTo(23, "no", Top.ret, 0) /\ Own /\ Still /\ Silent
        /\ sets' = [sets EXCEPT !["new"] = sets["new"] \ {SIGQUIT - 1}]
    BY <1>0, <1>a, <1>9, Sig1Lines, DelDoes
  <2>2. 2 \notin sets'["new"]
    BY <1>a, <2>1, SetsType
  <2> QED BY <1>0, <1>9, <2>1, <2>2 DEF Sig1Inv, Sig1Frames, TopTo, Own, Still, Silent
<1>10. CASE Top.at = 23
  <2>1. /\ TopTo(24, "no", Top.ret, IF SIGQUIT - 1 \in sets["new"] THEN 1 ELSE 0)
        /\ Own /\ Still /\ Silent
    BY <1>0, <1>a, <1>10, Sig1Lines, IsMemberDoes, SetsType
  <2>2. TopTo(24, "no", Top.ret, 0)
    BY <1>0, <1>a, <1>10, <2>1 DEF Sig1Inv
  <2> QED BY <1>0, <1>10, <2>1, <2>2 DEF Sig1Inv, Sig1Frames, TopTo, Own, Still, Silent
<1>11. CASE Top.at = 24
  <2>1. TopTo(IF Top.rax # 0 THEN 25 ELSE 26, "no", Top.ret, Top.rax) /\ Own /\ Still /\ Silent
    BY <1>0, <1>11, Sig1Lines, IfDoes, Conditions
  <2>2. TopTo(26, "no", Top.ret, Top.rax)
    BY <1>0, <1>11, <2>1 DEF Sig1Inv
  <2> QED BY <1>0, <1>11, <2>1, <2>2 DEF Sig1Inv, Sig1Frames, TopTo, Own, Still, Silent
<1>12. CASE Top.at = 31
  <2>1. stack' = stack /\ Own /\ Still /\ Silent /\ sets' = sets
    BY <1>0, <1>12, Sig1Lines, ExitDoes
  <2> QED BY <2>1, Sig1Same DEF Still
<1>13. \/ Top.at \in {1, 10, 14, 22, 23, 24, 31} \/ Top.at \in {2, 7, 11, 17, 27}
       \/ Top.at \in {4, 5, 13} \/ Top.at \in {6, 16, 26} \/ Top.at \in {9, 20, 29}
       \/ Top.at \in {15, 19, 21, 30}
  BY <1>0
<1> QED BY <1>1, <1>2, <1>3, <1>4, <1>5, <1>6, <1>7, <1>8, <1>9, <1>10, <1>11, <1>12, <1>13

LEMMA Sig1Results ==
    ASSUME Clients, TInv, main = "sig1", Sig1Inv, Program, Len(stack) = 1, Top.call = "back"
    PROVE  Sig1Inv'
<1>0. /\ Top = stack[1] /\ Top \in Activation
      /\ Top.at \in {1, 6, 9, 10, 15, 16, 19, 20, 21, 26, 29, 30} /\ Call = sig1[Top.at]
      /\ Top.at <= Len(Code[Top.fn])
  BY Sig1Where DEF Sig1Inv
<1>1. /\ \E v : TopTo(Top.at + 1, "no", Top.ret, v)
      /\ Own /\ Still /\ Silent /\ sets' = sets
  BY <1>0, WrapDoes
<1>2. /\ stack'[1].fn = main /\ stack'[1].at = Top.at + 1 /\ stack'[1].call = "no"
      /\ Len(stack') = 1
  BY <1>0, <1>1 DEF TopTo, Sig1Inv
<1>3. Sig1Frames'
  BY <1>2 DEF Sig1Frames
<1>4. Top.at \in {1, 6, 10, 16, 26} => stack'[1].rax = 0
  <2>1. CASE Top.at \in {1, 6, 10, 16, 26}
    <3>1. Top.ret = 0
      BY <1>0, <2>1 DEF Sig1Inv
    <3>2. Call = Signal(SIGQUIT, "sig_quit") => Call.op = "signal"
      BY DEF Signal
    <3>3. Call \in {ProcMask("SIG_BLOCK", "new", "old"), ProcMask("SIG_SETMASK", "old", "NULL")}
              => Call.op = "sigprocmask"
      BY DEF ProcMask
    <3>4. Call = Pending("pend") => Call.op = "sigpending"
      BY DEF Pending
    <3>5. \/ Call = Signal(SIGQUIT, "sig_quit") \/ Call = Pending("pend")
          \/ Call \in {ProcMask("SIG_BLOCK", "new", "old"), ProcMask("SIG_SETMASK", "old", "NULL")}
      BY <1>0, <2>1, Sig1Lines
    <3>6. Call.op \notin {"sleep", "plain_ptr"}
      BY <3>2, <3>3, <3>4, <3>5
    <3>7. TopTo(Top.at + 1, "no", Top.ret, 0)
      BY <1>0, <3>1, <3>6, WrapDoes
    <3> QED BY <1>0, <3>7 DEF TopTo
  <2> QED BY <2>1
<1>5. /\ stack'[1].at \in {2, 7, 10, 11, 16, 17, 20, 21, 22, 27, 30, 31}
      /\ stack'[1].at \in {2, 7, 11, 17, 27} => Top.at \in {1, 6, 10, 16, 26}
  BY <1>0, <1>2
<1>6. /\ main' = main /\ disp' = disp /\ told' = told /\ said' = said
  BY <1>1 DEF Own, Still, Silent
<1> QED BY <1>2, <1>3, <1>4, <1>5, <1>6 DEF Sig1Inv

\* The handler writes and returns.
LEMMA Sig1Handler ==
    ASSUME Clients, TInv, main = "sig1", Sig1Inv, Program, Len(stack) > 1
    PROVE  Sig1Inv'
<1>0. /\ stack \in Seq(Activation) /\ Len(stack) \in Nat /\ Len(stack) \in 2..Len(stack)
      /\ Top = stack[Len(stack)] /\ Top.at \in Nat /\ Top.at > 0
      /\ Top.call \in {"no", "blocked", "back"}
  BY TopType DEF TInv, TypeOK, Top, Activation
<1>1. /\ Code[Top.fn] = sig_quit /\ Top.fn = "sig_quit" /\ Top.call # "blocked"
      /\ Top.call = "back" => Top.at = 1
  BY <1>0, Functions DEF Sig1Inv, Sig1Frames
<1>2. Len(Code[Top.fn]) = 1 /\ sig_quit[1] = Write("handler_catched")
  BY <1>1 DEF sig_quit
<1>3. ASSUME NEW at, NEW call, NEW ret, NEW rax, TopTo(at, call, ret, rax),
             call # "blocked", call = "back" => at = 1
      PROVE  stack'[1] = stack[1] /\ Sig1Frames'
  <2>1. 1 \in 1..(Len(stack) - 1) /\ Len(stack') = Len(stack)
    BY <1>0, <1>3 DEF TopTo
  <2>2. stack'[1] = stack[1]
    BY <1>3, <2>1 DEF TopTo
  <2>3. ASSUME NEW k \in 2..Len(stack')
        PROVE  /\ stack'[k].fn = "sig_quit" /\ stack'[k].call # "blocked"
               /\ stack'[k].call = "back" => stack'[k].at = 1
    <3>1. CASE k = Len(stack)
      BY <1>1, <1>3, <3>1 DEF TopTo
    <3>2. CASE k # Len(stack)
      <4>1. k \in 1..(Len(stack) - 1) /\ k \in 2..Len(stack)
        BY <1>0, <2>1, <3>2
      <4>2. stack'[k] = stack[k]
        BY <1>3, <4>1 DEF TopTo
      <4> QED BY <4>1, <4>2 DEF Sig1Inv, Sig1Frames
    <3> QED BY <3>1, <3>2
  <2> QED BY <2>2, <2>3 DEF Sig1Frames
<1>4. CASE Top.call = "no" /\ Top.at = 1
  <2>0. Call = Write("handler_catched")
    BY <1>1, <1>2, <1>4 DEF Call
  <2>1. AtCall
    BY <1>2, <1>4 DEF AtCall
  <2>2. PICK r \in Int : TopTo(1, "back", r, Top.rax)
    BY <1>4, <2>0, <2>1, WriteDoes
  <2>3. Own /\ Still /\ told' = told /\ said' \in {said, "handler_catched"} /\ sets' = sets
    BY <2>0, <2>1, WriteDoes
  <2>4. stack'[1] = stack[1] /\ Sig1Frames'
    BY <1>3, <2>2
  <2>5. said' # "pending" /\ disp' = disp
    BY <2>3 DEF Sig1Inv, Still
  <2> QED BY <2>3, <2>4, <2>5, Sig1Below
<1>5. CASE Top.call = "back"
  <2>a. Top.at = 1
    BY <1>1, <1>5, Zenon
  <2>b. Len(Code[Top.fn]) = 1
    BY <1>2, Zenon
  <2>0. Top.at <= Len(Code[Top.fn])
    BY <2>a, <2>b
  <2>1. /\ \E v : TopTo(Top.at + 1, "no", Top.ret, v)
        /\ Own /\ Still /\ Silent /\ sets' = sets
    BY <1>5, <2>0, WrapDoes
  <2>2. stack'[1] = stack[1] /\ Sig1Frames'
    BY <1>3, <2>1
  <2>3. said' # "pending" /\ told' = told /\ disp' = disp
    BY <2>1 DEF Sig1Inv, Still, Silent
  <2> QED BY <2>1, <2>2, <2>3, Sig1Below
<1>6. CASE Top.call = "no" /\ Top.at > 1
  <2>1. /\ Own /\ Silent /\ sets' = sets /\ pending' = pending /\ disp' = disp
        /\ stack' = stack \/ myrt
    BY <1>0, <1>2, <1>6, EndDoes
  <2>2. CASE myrt
    <3>1. /\ Len(stack') = Len(stack) - 1
          /\ \A k \in 1..(Len(stack) - 1) : stack'[k] = stack[k]
      BY <2>2, MyrtStep
    <3>2. stack'[1] = stack[1]
      BY <1>0, <3>1
    <3>3. \A k \in 2..Len(stack') : k \in 2..Len(stack) /\ stack'[k] = stack[k]
      BY <1>0, <3>1
    <3>4. Sig1Frames
      BY DEF Sig1Inv
    <3>5. ASSUME NEW k \in 2..Len(stack')
          PROVE  /\ stack'[k].fn = "sig_quit" /\ stack'[k].call # "blocked"
                 /\ stack'[k].call = "back" => stack'[k].at = 1
      BY <3>3, <3>4 DEF Sig1Frames
    <3>6. Sig1Frames'
      BY <3>5 DEF Sig1Frames
    <3> QED BY <2>1, <3>2, <3>6, Sig1Below DEF Silent, Sig1Inv
  <2> QED BY <2>1, <2>2, Sig1Same
<1>7. \/ Top.call = "back" \/ (Top.call = "no" /\ Top.at = 1) \/ (Top.call = "no" /\ Top.at > 1)
  BY <1>0, <1>1
<1> QED BY <1>4, <1>5, <1>6, <1>7

LEMMA Sig1Deliver ==
    ASSUME Clients, TInv, main = "sig1", Sig1Inv, NEW s \in Signals, Deliver(s)
    PROVE  Sig1Inv'
<1>1. /\ Own /\ Silent /\ UNCHANGED <<sets, disp>>
      /\ stack' = stack \/ Interrupts(s)
  BY DeliverDoes
<1>2. CASE Interrupts(s)
  <2>0. stack \in Seq(Activation) /\ Len(stack) \in Nat /\ Len(stack) >= 1 /\ Top = stack[Len(stack)]
    BY TopType DEF TInv, TypeOK, Top
  <2>1. disp[s] = "sig_quit"
    BY <1>2 DEF Interrupts, Sig1Inv
  <2>2. stack'[Len(stack) + 1].fn = "sig_quit" /\ stack'[Len(stack) + 1].call = "no"
    BY <1>2, <2>1 DEF Interrupts, Called
  <2>3. Sig1Frames'
    <3>1. \A k \in 2..Len(stack) : stack[k].call # "blocked"
      BY DEF Sig1Inv, Sig1Frames
    <3>2. \A k \in 2..Len(stack) : stack'[k] = stack[k]
      BY <1>2, <2>0, <3>1 DEF Interrupts
    <3>3. \A k \in 2..Len(stack') : k \in 2..Len(stack) \/ k = Len(stack) + 1
      BY <1>2, <2>0 DEF Interrupts
    <3>4. ASSUME NEW k \in 2..Len(stack')
          PROVE  /\ stack'[k].fn = "sig_quit" /\ stack'[k].call # "blocked"
                 /\ stack'[k].call = "back" => stack'[k].at = 1
      <4>1. CASE k \in 2..Len(stack)
        BY <3>2, <4>1 DEF Sig1Inv, Sig1Frames
      <4>2. CASE k = Len(stack) + 1
        BY <2>2, <4>2
      <4> QED BY <3>3, <4>1, <4>2
    <3> QED BY <3>4 DEF Sig1Frames
  <2>4. \/ stack'[1] = stack[1]
        \/ /\ stack[1].call = "blocked" /\ stack'[1].call = "back"
           /\ stack'[1].fn = stack[1].fn /\ stack'[1].at = stack[1].at
           /\ stack'[1].rax = stack[1].rax
    BY <1>2, BottomInterrupted
  <2> QED BY <1>1, <2>3, <2>4 DEF Sig1Inv, Own, Silent
<1> QED BY <1>1, <1>2, Sig1Same

LEMMA Sig1Step ==
    ASSUME Clients, TInv, main = "sig1", Sig1Inv, [Next]_vars
    PROVE  Sig1Inv'
<1>1. CASE UNCHANGED vars
  BY <1>1, Sig1Same DEF vars, program, library, kernel, history, Own, Silent
<1>2. CASE Program
  <2>1. Top.call \in {"no", "back"} /\ (Len(stack) = 1 \/ Len(stack) > 1)
    BY <1>2, TopType DEF Program, UserMode, Activation
  <2> QED BY <1>2, <2>1, Sig1Calls, Sig1Results, Sig1Handler
<1>3. CASE Tick
  <2>1. CASE stack' = stack
    BY <1>3, <2>1, TickDoes, Sig1Same
  <2>2. CASE Sleeping /\ TopTo(Top.at, "back", 0, Top.rax)
    <3>1. Len(stack) = 1
      BY <2>2, TopType DEF Sleeping, Sig1Inv, Sig1Frames, Top
    <3>2. Top = stack[1] /\ Top.at \in {9, 20, 29}
      BY <2>2, <3>1, Sig1Where DEF Sleeping, Sig1Inv
    <3>3. Own /\ Silent /\ sets' = sets /\ disp' = disp
      BY <1>3, TickDoes
    <3> QED BY <2>2, <3>1, <3>2, <3>3 DEF Sig1Inv, Sig1Frames, TopTo, Own, Silent
  <2> QED BY <1>3, <2>1, <2>2, TickDoes
<1>4. ASSUME NEW s \in Signals, Deliver(s)
      PROVE  Sig1Inv'
  BY <1>4, Sig1Deliver
<1>5. ASSUME NEW s \in Signals, Send(s)
      PROVE  Sig1Inv'
  BY <1>5, SendDoes, Sig1Same
<1> QED BY <1>1, <1>2, <1>3, <1>4, <1>5, Steps

-----------------------------------------------------------------------------
(* The programs together. *)

LEMMA Programs ==
    ASSUME Clients, TInv
    PROVE  main \in Plains \/ main \in Reports \/ main \in {"alarm2", "alarm3", "sig1", "jmp1"}
BY DEF Clients, TInv, TypeOK

\* Only jmp1 and its functions jump, so that the demands of C on jumps and on the
\* index of funs are met.
LEMMA ClientsDefined ==
    ASSUME Clients, TInv, ClientInv
    PROVE  Defined /\ JumpsKeepMask
<1> DEFINE NoJump == AtCall => Call.op \notin {"longjmp", "funs[i]"}
<1>0. /\ Top = stack[Len(stack)] /\ Len(stack) \in Nat /\ Len(stack) >= 1
      /\ Top.at \in Nat /\ Top.at > 0
  BY TopType DEF Top, TInv, StackOK, Activation
<1>a. ASSUME NoJump PROVE Defined /\ JumpsKeepMask
  BY <1>a DEF Defined, JumpsKeepMask
<1>b. Len(stack) = 1 \/ Len(stack) > 1
  BY TopType
<1>1. CASE main \in Plains
  <2>1. Len(stack) = 1 /\ Top.fn = main
    BY <1>0, <1>1 DEF ClientInv, PlainInv, Alone
  <2>2. Len(Code[main]) \in Nat
    BY ClientsCompile, LibMiniAssumption DEF Compiles, TInv, TypeOK
  <2>3. AtCall => Top.at \in 1..Len(Code[main]) /\ Call = Code[main][Top.at]
    BY <1>0, <2>1, <2>2 DEF AtCall, Call
  <2>4. NoJump
    BY <1>1, <2>3, PlainCalls
  <2> QED BY <1>a, <2>4
<1>2. CASE main \in Reports
  <2>1. Len(stack) = 1 /\ Top.fn = main
    BY <1>0, <1>2 DEF ClientInv, ReportInv, Alone
  <2>a. Len(Code[main]) = 3
    BY <1>2, ReportsLines
  <2>2. AtCall => Top.at \in {1, 2, 3} /\ Call = Code[main][Top.at]
    BY <1>0, <2>1, <2>a DEF AtCall, Call
  <2>3. /\ Code[main][1].op = "plain" /\ Code[main][2].op = "if"
        /\ Code[main][3].op = "perror"
    BY <1>2, ReportsLines DEF Plain, IfElse
  <2>4. NoJump
    BY <2>2, <2>3
  <2> QED BY <1>a, <2>4
<1>3. CASE main = "alarm2"
  <2>1. Top.at \in (1..12) \ {8} /\ Call = alarm2[Top.at]
    BY <1>3, Alarm2Where DEF ClientInv
  <2>2. \A n \in (1..12) \ {8} : alarm2[n].op \notin {"longjmp", "funs[i]"}
    BY Alarm2Lines DEF Empty, Add, ProcMask, Alarm, Sleep, Pending, IfElse, IsMember, Write, Do
  <2>3. NoJump
    BY <2>1, <2>2
  <2> QED BY <1>a, <2>3
<1>4. CASE main = "alarm3"
  <2>0. Alarm3Inv
    BY <1>4 DEF ClientInv
  <2>1. CASE Len(stack) = 1
    <3>1. AtCall => Top.at \in (1..15) \ {10} /\ Call = alarm3[Top.at]
      BY <1>0, <1>4, <2>0, <2>1, Alarm3Where DEF AtCall
    <3>2. \A n \in (1..15) \ {10} : alarm3[n].op \notin {"longjmp", "funs[i]"}
      BY Alarm3Lines DEF Empty, Add, ProcMask, Signal, Alarm, Pending, IfElse, IsMember, Write, Do
    <3>3. NoJump
      BY <3>1, <3>2
    <3> QED BY <1>a, <3>3
  <2>2. CASE Len(stack) > 1
    <3>1. Code[Top.fn] = <<>>
      BY <1>0, <2>0, <2>2, Functions DEF Alarm3Inv, Alarm3Frames
    <3>2. Len(Code[Top.fn]) = 0
      BY <3>1
    <3>3. ~AtCall
      BY <1>0, <3>2 DEF AtCall
    <3> QED BY <1>a, <3>3
  <2> QED BY <1>b, <2>1, <2>2, Zenon
<1>5. CASE main = "sig1"
  <2>0. Sig1Inv
    BY <1>5 DEF ClientInv
  <2>1. CASE Len(stack) = 1
    <3>1. Top.at \in 1..31 /\ Call = sig1[Top.at]
      BY <1>5, <2>0, <2>1, Sig1Where
    <3>2. \A n \in {3, 8, 12, 18, 25, 28} : sig1[n].op \notin {"longjmp", "funs[i]"}
      BY Sig1Lines
    <3>3. \A n \in {2, 7, 11, 14, 17, 24, 27} : sig1[n].op \notin {"longjmp", "funs[i]"}
      BY Sig1Lines DEF IfElse
    <3>4. \A n \in {1, 4, 5, 13, 22, 23} : sig1[n].op \notin {"longjmp", "funs[i]"}
      BY Sig1Lines DEF Signal, Empty, Add, Del, IsMember
    <3>5. \A n \in {6, 9, 10, 16, 20, 26, 29} : sig1[n].op \notin {"longjmp", "funs[i]"}
      BY Sig1Lines DEF ProcMask, Sleep, Pending
    <3>6. \A n \in {15, 19, 21, 30, 31} : sig1[n].op \notin {"longjmp", "funs[i]"}
      BY Sig1Lines DEF Write, Do
    <3>7. \A n \in 1..31 :
              \/ n \in {3, 8, 12, 18, 25, 28} \/ n \in {2, 7, 11, 14, 17, 24, 27}
              \/ n \in {1, 4, 5, 13, 22, 23} \/ n \in {6, 9, 10, 16, 20, 26, 29}
              \/ n \in {15, 19, 21, 30, 31}
      OBVIOUS
    <3>8. NoJump
      BY <3>1, <3>2, <3>3, <3>4, <3>5, <3>6, <3>7
    <3> QED BY <1>a, <3>8
  <2>2. CASE Len(stack) > 1
    <3>1. Code[Top.fn] = sig_quit
      BY <1>0, <2>0, <2>2, Functions DEF Sig1Inv, Sig1Frames
    <3>2. Len(sig_quit) = 1 /\ sig_quit[1].op = "write"
      BY DEF sig_quit, Write
    <3>3. AtCall => Top.at = 1 /\ Call = sig_quit[1]
      BY <1>0, <3>1, <3>2 DEF AtCall, Call
    <3>4. NoJump
      BY <3>2, <3>3
    <3> QED BY <1>a, <3>4
  <2> QED BY <1>b, <2>1, <2>2, Zenon
<1>6. CASE main = "jmp1"
  BY <1>6, Jmp1Defined DEF ClientInv
<1> QED BY <1>1, <1>2, <1>3, <1>4, <1>5, <1>6, Programs

LEMMA ClientsInit ==
    ASSUME Clients, Init
    PROVE  ClientInv
<1>1. /\ Len(stack) = 1 /\ stack[1].fn = main /\ stack[1].at = 1 /\ stack[1].call = "no"
      /\ stack[1].rax = 0
  BY DEF Init, Called
<1>2. /\ told = NotYet /\ said = "nothing" /\ i = 0 /\ mask = {}
      /\ \A s \in Signals : disp[s] = "SIG_DFL"
  BY DEF Init
<1>3. PlainInv /\ Alone
  BY <1>1, <1>2 DEF PlainInv, Alone
<1>4. ReportInv
  BY <1>1, <1>2, <1>3 DEF ReportInv, PerrorTells
<1>5. Alarm2Inv
  BY <1>1, <1>2, <1>3 DEF Alarm2Inv, Past
<1>6. Alarm3Inv
  BY <1>1, <1>2 DEF Alarm3Inv, Alarm3Frames, Past
<1>7. Sig1Inv
  BY <1>1, <1>2 DEF Sig1Inv, Sig1Frames
<1>8. Jmp1Inv
  BY <1>1, <1>2 DEF Jmp1Inv
<1> QED BY <1>3, <1>4, <1>5, <1>6, <1>7, <1>8 DEF ClientInv

LEMMA ClientsStep ==
    ASSUME Clients, TInv, ClientInv, [Next]_vars
    PROVE  ClientInv'
<1>1. main' = main
  BY MainStays
<1>2. main \in Plains => PlainInv'
  BY PlainStep DEF ClientInv
<1>3. main \in Reports => ReportInv'
  BY ReportStep DEF ClientInv
<1>4. main = "alarm2" => Alarm2Inv'
  BY Alarm2Step DEF ClientInv
<1>5. main = "alarm3" => Alarm3Inv'
  BY Alarm3Step DEF ClientInv
<1>6. main = "sig1" => Sig1Inv'
  BY Sig1Step DEF ClientInv
<1>7. main = "jmp1" => Jmp1Inv'
  BY Jmp1Step DEF ClientInv
<1> QED BY <1>1, <1>2, <1>3, <1>4, <1>5, <1>6, <1>7 DEF ClientInv

LEMMA ClientsInvariant ==
    ASSUME Clients
    PROVE  Spec => [](TInv /\ MaskInv /\ ClientInv)
<1>1. Init => TInv /\ MaskInv /\ ClientInv
  BY InitHolds, ClientsInit
<1>2. TInv /\ MaskInv /\ ClientInv /\ [Next]_vars => (TInv /\ MaskInv /\ ClientInv)'
  <2> SUFFICES ASSUME TInv, MaskInv, ClientInv, [Next]_vars
               PROVE  TInv' /\ MaskInv' /\ ClientInv'
    OBVIOUS
  <2>1. Compiles /\ Defined /\ JumpsKeepMask
    BY ClientsCompile, ClientsDefined
  <2>2. TInv' /\ MaskInv'
    BY <2>1, TypeStep, MaskStep
  <2> QED BY <2>2, ClientsStep
<1> QED BY <1>1, <1>2, PTL DEF Spec

-----------------------------------------------------------------------------
(* The theorems. *)

\* What perror writes is the error of the last call of main that failed, with and
\* without a prefix, as long as the writes of the prefix give no error that errmsg
\* lacks; an error that errmsg lacks itself is told as unknown.
THEOREM PerrorTellsHolds ==
    ASSUME Clients, WritesTell
    PROVE  Spec => []PerrorTells
<1>1. TInv /\ MaskInv /\ ClientInv => PerrorTells
  <2> SUFFICES ASSUME TInv, ClientInv PROVE PerrorTells
    OBVIOUS
  <2>1. CASE main \in Reports
    BY <2>1 DEF ClientInv, ReportInv
  <2>2. CASE main \in Plains \/ main \in {"alarm2", "alarm3", "sig1", "jmp1"}
    <3>1. told = NotYet
      BY <2>2 DEF ClientInv, PlainInv, Alarm2Inv, Alarm3Inv, Sig1Inv, Jmp1Inv
    <3> QED BY <3>1 DEF PerrorTells
  <2> QED BY <2>1, <2>2, Programs
<1> QED BY <1>1, ClientsInvariant, PTL

\* The programs of the repository never get to perror: signal, sigprocmask and
\* sigpending give them no error, interrupted or not, and sigismember finds SIGQUIT
\* deleted from the set it was deleted from.
THEOREM NoPerrorHolds ==
    ASSUME Clients
    PROVE  Spec => []NoPerror
<1>1. TInv /\ MaskInv /\ ClientInv => NoPerror
  <2> SUFFICES ASSUME TInv, ClientInv, main \notin Reports PROVE told = NotYet
    BY DEF NoPerror, Reports
  <2>1. main \in Plains \/ main \in {"alarm2", "alarm3", "sig1", "jmp1"}
    BY Programs
  <2> QED BY <2>1 DEF ClientInv, PlainInv, Alarm2Inv, Alarm3Inv, Sig1Inv, Jmp1Inv
<1> QED BY <1>1, ClientsInvariant, PTL

\* alarm2 and alarm3 write "pending" only while SIGALRM waits, although the word that
\* sigpending gave is looked at later, and the sleep of alarm2, which is longer than
\* its alarm, never ends before SIGALRM came.
THEOREM AlarmAnswersHolds ==
    ASSUME Clients
    PROVE  Spec => []AlarmAnswers
<1>1. TInv /\ MaskInv /\ ClientInv => AlarmAnswers
  <2> SUFFICES ASSUME TInv, ClientInv PROVE AlarmAnswers
    OBVIOUS
  <2>1. CASE main = "alarm2"
    <3>1. Alarm2Inv
      BY <2>1 DEF ClientInv
    <3>2. said = "pending" => Past(5)
      BY <3>1 DEF Alarm2Inv, Past
    <3> QED BY <3>1, <3>2 DEF Alarm2Inv, AlarmAnswers
  <2>2. CASE main = "alarm3"
    BY <2>2 DEF ClientInv, Alarm3Inv, AlarmAnswers
  <2>3. CASE main \in Plains \/ main \in Reports \/ main \in {"sig1", "jmp1"}
    <3>1. said # "pending"
      BY <2>3 DEF ClientInv, PlainInv, ReportInv, Sig1Inv, Jmp1Inv
    <3>2. main # "alarm2"
      BY <2>3 DEF Plains, Reports
    <3> QED BY <3>1, <3>2 DEF AlarmAnswers
  <2> QED BY <2>1, <2>2, <2>3, Programs
<1> QED BY <1>1, ClientsInvariant, PTL

\* setjmp gives jmp1 the value that longjmp was called with, and i is kept over the
\* jump: at the test of i the two agree, after each of the ten jumps.
THEOREM JumpsCountedHolds ==
    ASSUME Clients
    PROVE  Spec => []JumpsCounted
<1>1. TInv /\ MaskInv /\ ClientInv => JumpsCounted
  <2> SUFFICES ASSUME TInv, ClientInv, NEW k \in DOMAIN stack,
                      stack[k].fn = "jmp1", stack[k].at = 4
               PROVE  i = stack[k].rax
    BY DEF JumpsCounted
  <2>0. k \in 1..Len(stack) /\ (k = 1 \/ k \in 2..Len(stack)) /\ i \in Nat
    BY TopType DEF TInv, TypeOK
  <2>1. CASE main \in Plains \/ main \in Reports \/ main = "alarm2"
    <3>1. Alone
      BY <2>1 DEF ClientInv, PlainInv, ReportInv, Alarm2Inv
    <3>2. stack[k].fn = main
      BY <2>0, <3>1 DEF Alone
    <3> QED BY <2>1, <3>2 DEF Plains, Reports
  <2>2. CASE main = "alarm3"
    <3>1. stack[k].fn \in {"alarm3", "handler"}
      BY <2>0, <2>2 DEF ClientInv, Alarm3Inv, Alarm3Frames
    <3> QED BY <3>1
  <2>3. CASE main = "sig1"
    <3>1. stack[k].fn \in {"sig1", "sig_quit"}
      BY <2>0, <2>3 DEF ClientInv, Sig1Inv, Sig1Frames
    <3> QED BY <3>1
  <2>4. CASE main = "jmp1"
    <3>0. Jmp1Inv
      BY <2>4 DEF ClientInv
    <3>1. CASE k = 1
      BY <3>0, <3>1 DEF Jmp1Inv
    <3>2. CASE k \in 2..Len(stack)
      <4>1. k = 2 /\ stack[2].fn = funs[i + 1] /\ stack[1].at = 5
        BY <3>0, <3>2 DEF Jmp1Inv
      <4>2. i + 1 \in 1..10
        BY <2>0, <3>0, <4>1 DEF Jmp1Inv
      <4>3. funs[i + 1] # "jmp1"
        BY <4>2, FunLines
      <4> QED BY <4>1, <4>3
    <3> QED BY <2>0, <3>1, <3>2
  <2> QED BY <2>1, <2>2, <2>3, <2>4, Programs
<1> QED BY <1>1, ClientsInvariant, PTL

\* All programs of the repository, jmp1 with its jumps included, are such that the
\* hypotheses of TypeCorrect and MaskIsOwnHolds are met: for them types and the mask
\* are right without any.
THEOREM ClientsKeepMask ==
    ASSUME Clients
    PROVE  Spec => [](TypeOK /\ MaskIsOwn /\ Defined /\ JumpsKeepMask)
<1>1. TInv /\ MaskInv /\ ClientInv => TypeOK /\ MaskIsOwn /\ Defined /\ JumpsKeepMask
  BY ClientsDefined DEF TInv, MaskInv, MaskIsOwn
<1> QED BY <1>1, ClientsInvariant, PTL
=============================================================================
