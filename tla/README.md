# TLA+ specifications of Unixprog

The repository holds four independent programs: an open file lister (`hw1`), a
library-call logger (`hw2`), a small C library with its client programs (`hw3`) and
a debugger (`hw4`). In each of them correctness depends on the order in which
processes, threads or signals act. This directory models all four, checks them with
TLC on small instances, and proves every safety property of the passing runs with
TLAPS, for every value of the constants its hypotheses allow: every program under the
debugger, any number of threads under the logger, every program on libmini and any
signals sent to the programs of `hw3`, any number of processes listed.

## 1. Inventory

| Component | Source | State | Operations | Modelled in |
|---|---|---|---|---|
| sdb debugger, `class SDB` | `hw4/sdb.cpp`, `sdb.hpp` | `state`, `program_name`, `pid`, `addr_list`, `pre_addr`, `pre_val`; the text and registers of the traced process | `load start run cont si set_break del set_rip get getregs vmmap disasm dump list help quit`, `check_process`, `restore_bp` | `PtraceText`, `Sdb`, `TransparentTracing`, `SdbTransparency` |
| sdb command loop | `hw4/hw4.cpp` | the script or stdin, the last line typed | read the command line, read a line, split it, call one method, end with the script | `SdbShell` |
| logger.so | `hw2/logger.c`, `logger.h` | `static int fd`, the environment variable `LOGGER` | 18 wrappers of libc functions, `getFD`, `getAbsPath`, `FD2name` | `Logger` |
| logger launcher | `hw2/hw2.c` | `fd`, the options, the child | `-o`, `-p`, fork, exec, the loop around `waitpid` | `Logger` |
| libmini | `hw3/libmini.c`, `libmini64.asm`, `libmini.h`, `start.asm` | `errno`, `jmp_buf`, signal sets; the mask, pending signals and dispositions of the process | system call wrappers, signal sets, `signal`, `alarm`, `pause`, `sleep`, `setjmp`, `longjmp`, `perror`, the restorer, `_start` | `LibMini` |
| libmini clients | `hw3/alarm1-3.c`, `sig1.c`, `jmp1.c`, `write1.c` | their signal sets and handlers | block, alarm, pause, look at pending signals, jump | `MiniClients` |
| open file lister | `hw1/hw1.cpp` | the current entry `info`, the options, open directories | walk `/proc`, read links and maps, filter, print | `Lsof` |
| scripts, samples | `hw4/scripts`, `hw4/sample` | | | `hello64` is the program of the run `sdb_hello` |

How the parts interact. The four programs do not call each other.

* **sdb** is a single thread that gives ptrace requests to one traced process.
  The process runs only between `cont`/`si`/`run` and the return of `waitpid`,
  but while it runs it may execute many instructions, take signals from other
  processes, or be killed. Debugger and process share the text of the process:
  breakpoints are bytes in it, written a word of eight bytes at a time.
* **logger**: the launcher and the command are two processes that share the
  environment at the fork and the open descriptors. The wrappers run in all
  threads of the command and share the descriptor table, the files and one static
  variable.
* **libmini** clients are one thread with asynchronous signal handlers.
* **hw1** reads a `/proc` that changes while it is read.

What is hard, and what makes each part correct:

* sdb must be *transparent*: the program does what it would do without the
  debugger, although its text is patched, unpatched around every resume, and
  patched again at the next stop. `pre_addr` and `pre_val` carry the half-finished
  step over a breakpoint from one command to the next, and each of `set rip`,
  `delete`, `break`, a signal, an exit and a kill can come in between.
* The debugger must know whether it has a process, and must always give the
  prompt back.
* The logger must be invisible to the command (results, `errno`, files), and its
  text must arrive where the user asked for it although the command may close and
  reuse any descriptor.
* libmini must give the interrupted function its signal mask back, after a handler and
  over `setjmp`/`longjmp`, and keep `errno` for `perror`; its clients must not lose a
  signal between arming it and `pause()`.
* The command loop must end with its script, and must not do damage when it runs the
  last command again at an end of the standard input it does not notice.
* The lister must tell the truth about every process that stays as it is, although
  others exit, close and reuse descriptors between any two of its system calls, although
  the one `info` of the loop is never cleared, and although it leaves a directory open
  for each process.

`PROJECT.json` lists the hazards line by line with the property that covers each.

## 2. Modules

```
PtraceText ── Sdb ── SdbTransparency ── MCSdb
               │        │  └─ INSTANCE TransparentTracing
               │        └──── SdbTransparencyProofs
               │                      │
               ├───────────────── SdbProofs
               │                      │
               └──── SdbShell ─── SdbShellProofs
                        └─ MCSdbShell
Logger ── MCLogger
   └───── LoggerProofs ── LoggerCallProofs
LibMini ── MiniClients ──────┐
   └────── LibMiniProofs ── MiniClientsProofs
Lsof ── MCLsof
   └─── LsofProofs
```

**PtraceText**: bytes and words. `Peek` and `Poke` are `PTRACE_PEEKTEXT` and
`PTRACE_POKETEXT`, `WithLowByte` is `(w & ~0xff) | x`. A peek that fails returns
-1, all bytes 0xff, as the code sees it where it does not check the result.

**Sdb**: the variables are the members of `class SDB`, the debugger's control
point `pc` (at the prompt, blocked in `waitpid`, ended) and the traced process
(`child`, `why` it stopped, `rip`, `mem`). Each command is one action with all the
early returns of its method; `ERROR` is the exit that also kills the process
(`PTRACE_O_EXITKILL`). `check_process` has one action per branch, since the process
runs while the debugger waits. `Exec*` is the processor: at a breakpoint byte it
traps with `rip` one further, at an intact instruction it goes to one of its
successors, and at bytes that are no instruction of the program it goes anywhere or
faults. The commands that only print keep their early returns and their ERROR exit,
not what they print: `vmmap` fails when its file cannot be opened, `disasm` (and the
message of a breakpoint hit) when `cs_open` fails.

`Faults` says what the environment does in a run: stop the process with a signal, kill
it, let `fork` fail, let `cs_open` fail. A kill may also come in the middle of a
command: between two ptrace requests of one method (`KilledBetween`, in `set_break`,
`set`, and `si`, `cont` and `run` when they step over a breakpoint; the other commands
make one request that is checked), anywhere in the launch of a process (`Launch`), and
inside `check_process` (`check_lost`). The next request then fails and the method takes
its ERROR exit. `leaked` counts the files that `vmmap`, and `load` of a file that is not
ELF, open and never close; `MaxFiles` is how many the debugger may have.

**TransparentTracing**: what a debugger promises, with no text at all. The program
executes its own instructions; the user may stop, resume and move it; once it runs
on its own it executes no instruction that has a breakpoint.

**SdbTransparency**: the refinement mapping. The abstract program counter is
`rip`, except between the trap of a breakpoint byte and the step of `check_process`
that takes `rip` back.

**Logger**: launcher and command. A wrapper is a sequence of steps (`Plan`) that
its thread makes one by one: name lookups, the real call, and the pieces of the log
line. What is kept of a log line is the file it went to, the names in it and whether
it shows data; the history variable `reached` collects the files.

**SdbShell**: the loop of `hw4.cpp` around the actions of `Sdb`. A line is its first
word and whether arguments follow (`Dispatch`). `ScriptEnd` is the exit at the end of a
script; `StdinEnd` is what happens at the end of a terminal's input: `getline` fails
unnoticed, and its buffer still holds the last line, cut by `strtok` behind its first
word. When no line was read at all the buffer was never written to (`StdinEmpty`): what
is in it is no command, or has no end and the program crashes. `UsesSdb` is the
refinement: the loop is an environment of class SDB that `Sdb`
allows for.

**LibMini**: a process that runs on the library. A function is the sequence of calls it
makes (constant `Code`); the process has a stack of them, with signal handlers above
what they interrupted. A wrapper of a system call has two steps, the system call and
`WRAPPER_RETval`, and a signal may come between them or while the call blocks. The
kernel's side (mask, pending signals, the handler's mask, `rt_sigreturn`, the timer) is
external. `setjmp` and `longjmp` compute the address of the mask as the assembly does,
and the kernel refuses an address that is not mapped; it also refuses a set whose size
is not eight bytes, and `longjmp` does not set that argument. Undefined behaviour is a choice:
the uninitialized pointer of `sigfillset` hits another set, nothing, or no memory;
an index of `perror` behind its table gives `Garbage`.

**MiniClients**: the six programs of `hw3` as such sequences, and four made-up ones for
the calls and errors that those do not meet.

**Lsof**: one step is one system call of `hw1.cpp` and what the code does with its
result; between two steps the other processes exit, close and open descriptors and
delete files. `info` is one variable that no step clears. `Listing(p)` defines
independently of the walk what the lines of process p should be.

Operators named `X_Something` above a definition `X` are faulty variants of it: a
plausible mistake in that code, which the property named in `PROJECT.json` detects.

## 3. Runs

| Run | Properties | Result |
|---|---|---|
| `sdb_hello` | `TextIntact` `StepsOverCurrent` `Transparency` `PromptReturns` | `hw4/sample/hello64`, byte for byte, with breakpoints at three instructions (the fourth address is the first one behind the text section, and refused), `set rip`, a kill at any moment and a disassembler that fails: transparent |
| `sdb_spaced` | `TypeOK` `Armed` `IdleClean` `StoppedSurvives` | a loop with breakpoints a word apart, delete (also of numbers that do not exist), two runs, files that cannot be loaded or run, signals, a failing fork, and room for two files that stay open |
| `sdb_restart` | `TextIntact` | **violated**: `start()` reads the word to patch at `pre_addr` (0) and not at the breakpoint; seven bytes after each breakpoint are overwritten with 0xff |
| `sdb_onebyte` | `Transparency` | **violated**: the step over a one-byte instruction is taken for a hit, the instruction is executed again |
| `sdb_shell` | `ShellTypeOK` `OneProcess` `UsesSdb` `ScriptEnds` `EofHarmless` | scripts and typed input of up to six lines, with every command and a missing argument for each, a process that is killed, stopped or cannot be forked: the loop uses the debugger as `Sdb` says, a process that was not collected is the one in `pid` and none outlives the debugger, a script ends, and what is repeated at the end of stdin changes no breakpoint and loads nothing; unless it is `cont`, `run`, `si` or `start` it leaves the process where it is too |
| `logger_threads` | `LogArrives` `ErrnoKept` | two threads that compete for names and descriptors, without `-o` |
| `logger_calls` | `TypeOK` `SuccessNamed` `LogStays` `LauncherEnds` | all 18 wrappers in one thread, every option and several of them, a libc that is not found, an exec that fails |
| `logger_closed` | `NoSpill` | **violated**: with `-o`, a command that closes the log's descriptor and opens a file gets the log written into it |
| `mini_clients` | `TypeOK` `MaskIsOwn` `PerrorTells` `AlarmAnswers` `JumpsCounted` `NoPerror` `QuitIsTaken` `PauseEnds` `ClientsEnd` | the six programs and three made-up ones, with SIGINT and SIGQUIT at any moment and writes that fail: the mask comes back after every handler, `perror` names the error and is not reached by the six, blocked signals are seen and later taken, pauses and programs end |
| `mini_jump` | `MaskIsOwn` | **violated**: `setjmp` and `longjmp` hand the kernel an address computed from an overwritten register; after a jump out of a handler its signal stays blocked |
| `lsof_scan` | `TypeOK` `NoWrongLine` `NothingMissing` `FailsForAReason` `ListerEnds` | three processes, two changes at any moments, six command lines, just as many descriptors as a listing needs: what is shown of processes that stay as they are is right and complete, and the lister ends |
| `lsof_deleted` | `DeletedMarked` | **violated**: `strtok` cuts the path in front of `(deleted)`, so a deleted mapping is never shown as DEL |

The passing debugger runs and the violations divide the input space between them:
`TextIntact` and `Transparency` hold in `sdb_hello`, which leaves out the ingredient of
their finding (a second run, a one-byte instruction under a breakpoint).

Other limits of the debugger can be had from the same model by a change of constants.
They have no run of their own; the passing runs leave their ingredient out:

* `delete` of the breakpoint stopped at leaves `pre_addr`, and `restore_bp`
  (`sdb.cpp:170`) brings the byte back; `sdb_hello` deletes nothing.
* `cont`, `si` (`sdb.cpp:197`) and `del` (`sdb.cpp:330`) write back a whole word that was
  read earlier, and so disarm a breakpoint that was set in the same word meanwhile;
  `Armed` is checked and proved for breakpoints a word apart.
* `cont` leaves the breakpoint it resumes from out of the text until the next stop, so
  that a loop passes it (`sdb.cpp:200`). `TransparentTracing` forbids that: `Execute`
  lets only the first instruction after a resume be one with a breakpoint. `hello64`
  has no loop, and the theorem has the condition `OffLoops`.
* When a signal kills the process, `check_process` (`sdb.cpp:254`) leaves `state` at
  RUNNING and `pid` at a process that is gone; the next command that needs the process
  takes the `ERROR` exit, and `quit` signals that pid. `OneProcess` says nothing of a
  process that was collected.
* Each `vmmap` leaves a file open (`sdb.cpp:506`), so that the last of about a thousand
  ends the debugger, with the process stopped; `StoppedSurvives` is claimed as long as
  there is a file left (`leaked < MaxFiles`).
* `cont`, `si`, `run` or `start` as the last command is repeated at the end of the
  standard input and does move the process on; `EofHarmless` excepts them from what it
  says of the process.
* A signal in the middle of the step over a breakpoint, then `set rip`, forgets to arm
  it again; `Armed` is checked and proved without `set rip` (`RipArgs` is empty in its run).
* A breakpoint less than eight bytes before the end of the mapping takes the `ERROR`
  exit of `set_break` (`sdb.cpp:117`), because its word cannot be accessed; the
  assumption of `StoppedSurvivesHolds` rules that out, and the mapping of the run's
  program goes on behind its text.

### Bounds

* Debugger: one program of 9 or 5 instructions. A breakpoint interacts with the
  bytes of its own word only, so two breakpoints in one word, two a word apart, and
  one in front of, on and behind the current instruction are all there is between
  two of them. `MaxStarts` is 2 where restarts matter (the third run starts from the
  same debugger state as the second) and 1 where a restart would only repeat the
  finding of `sdb_restart`. Words have their real size, 8 bytes. `MaxFiles` is 1 or 2
  where the code has about a thousand: only having one left and having none differ.
* Command loop: six lines are enough to load, set a breakpoint, start, stop at it, and
  have two lines more, one of which the end of the input repeats. The program has three
  instructions and words have two bytes, since the loop does not look at either; two
  starts, because `run` at the end of the input starts the program again and again. That
  bound is why the run does not check for deadlock.
* libmini: two signals from outside, so that the second can come in the handler of the
  first or in the next pause; signals 2, 3 and 14 are those the programs use. Alarms
  and sleeps have the seconds of the sources, up to 10. `alarm3` may wait in its pause
  for ever, so there is no check for deadlock: `ClientsEnd` says which program may stop
  where.
* Lister: two processes whose files can be read, with one of another user between them,
  and two descriptor numbers. Two changes let a descriptor be closed and used again, or
  a process change and then exit, between any two steps. An `int` has 4 bits.
  `MaxOpen` is 3: two directories left open and one stream, so that one descriptor less
  or one more left open would show.
* Logger: descriptors up to 3 are the standard three and one more, the smallest table
  in which a descriptor is closed and handed out again. `LogLimit` is 2 where the code
  has 32, and a `size_t` has 4 bits: enough for a result of -1 to become larger than
  every length, so that the line of a `read` that failed shows data.
  Two threads with one path and one file interleave every pair of the
  five wrappers that take, free and look up names and descriptors (`open`, `close`,
  `fclose`, `read`, `remove`); the others have the same steps. Threads are interchangeable in `logger_threads`, which checks no
  liveness.

### Fairness

* `Sdb`: weak fairness of `Exec` and of `check_process`, that is, the scheduler runs a
  process that was resumed, and `waitpid` returns when there is something to report.
  Commands, signals and kills are never forced. `PromptReturns` is claimed of
  `hello64`, which terminates; a program in an endless loop rightly keeps the prompt.
* `SdbShell`: the same, and weak fairness of reading a script and of meeting the end of
  the input, for which nobody has to type. `ScriptEnds` makes an exception for a traced
  process that runs for ever by itself.
* `LibMini`: weak fairness of the process, of time and of the delivery of pending
  signals; nobody need send one.
* `Lsof`: weak fairness of the lister; the other processes need do nothing.
* `Logger`: weak fairness of `exec` and `poll`: the child gets to its exec and the
  launcher's busy loop goes on turning. The command need not terminate.

## 4. Proofs

`SdbProofs` proves for every program text, set of instructions and breakpoints,
number of runs and combination of faults:

* `TypeCorrect`.
* `IdleCleanHolds` and `StepsOverCurrentHolds`, from the inductive invariant
  `Inv == TypeOK /\ IdleClean /\ StepsOverCurrent /\ Lockstep`. `Lockstep` is what the
  two need of each other's world: the process executes only while the debugger is in
  `waitpid`, it lives only in state RUNNING, and `pre_addr` is 0 or a breakpoint
  address. Without the first part a command could meet a moving process, without the
  second a launch could find an old one.
* `ArmedHolds`: every breakpoint on the list but the one being stepped over is armed,
  if breakpoints are at least a word apart (`Spaced`) and `set rip` is not used.
  Both assumptions are needed, see the limits above. The invariant adds `ListAccessible`, that a breakpoint on the list
  lies in an accessible word, so that `restore_bp` and `start()` do reach the byte.
  Note that it covers any number of restarts: these damage the code after a
  breakpoint, but the breakpoint byte itself is set.
* `OneProcessHolds`, with all faults: a process that `waitpid` has not collected is the
  one in `pid`, in state RUNNING, and none is alive when the debugger has ended.
  It is inductive together with `Inv`.
* `StoppedSurvivesHolds`: if the word of every address in the text section can be
  accessed, nobody kills the process and `cs_open` does not fail, a command on a stopped
  process ends the debugger with an ERROR only when the files it may open are used up.

`SdbShellProofs` carries this over to the whole program:

* `ShellUsesSdb`: every step of the loop is a step of `Sdb` or leaves it alone. The
  invariant `NoProcessYet` says that the command line is looked at before there is a
  process, so that its error exit is one that `Sdb` allows. With it the theorems
  above hold of the program driven by `hw4.cpp`; `ShellIdleClean` is one of them.
* `ShellOneProcess`, likewise from `OneProcessHolds`.
* `EofHarmlessHolds`: what is repeated at the end of the standard input changes no
  breakpoint and loads nothing; a word that is none of `Resuming` leaves `rip`, the text
  and the number of starts alone. Of `cont`, `run`, `si` and `start` only the first part
  holds. The invariant is `Inv` of `SdbProofs` with `EndIsFinal`: once the end was met no
  line is left to read.
* `ShellTypeCorrect`: the types, that the loop never reads past its last line, and that
  a command is in the buffer only after a line was read.

`SdbTransparencyProofs` proves the refinement, for every program:

* `TextIntactHolds` and `TransparencyHolds`: `Spec /\ []CurrentListed` implies
  `TextIntact`, and implements `TransparentTracing` under the mapping of
  `SdbTransparency`. `TransparencyNoDeletion` drops `CurrentListed` for a user who
  deletes nothing.
* The hypotheses keep out the known limits, one each: breakpoints a word apart
  (`Spaced`: `cont` and `del` write back whole words), on instructions longer than one
  byte (`OnInstructions`: the finding of `sdb_onebyte`) and on no loop (`OffLoops`:
  `cont` leaves the breakpoint out of the text), `set rip` or stopping signals but not
  both (`RipOrSignals`), one start (the finding of `sdb_restart`), and a breakpoint
  that is not deleted while the process is stopped at it (`CurrentListed`). The instance
  of `sdb_hello` meets them all.
* The invariant `TraceInv` says exactly what the text is at each moment: the file's with
  the breakpoints of the list, less the one being stepped over while the process is on
  its way. `OffLoops` has a witness for each breakpoint, a set of instructions that is
  closed under `Succ` and does not hold the breakpoint; the process stays in it until
  the breakpoint is back. Every step of the debugger is then shown to be a step of
  `TransparentTracing` or to change nothing of it.

`LoggerProofs` and `LoggerCallProofs` prove for any number of paths, files and
descriptors:

* `TypeCorrect`, with the strengthening `ArgsOK` (a wrapper that looks a name up has
  one).
* `LogArrivesHolds`: without `-o`, and if the command has no stream of its own on
  descriptor 2, all log text gets to stderr, for any number of threads. `Spared` says
  that descriptor 2 is open on the terminal as long as the command may write, which
  holds because `close(2)` and `fclose(stderr)` are answered without being done, and no
  open is handed a descriptor that is in use; `Stderr` adds that the log is on it.
* `LogStaysHolds`: under every sequence of options, and with the same condition on
  descriptor 2. `Sent` says that `LOGGER` is the descriptor of the last `-o`, 2 without
  one and -1 after one that failed, and that `fd` of logger.so, which is read from it
  once, is the same as long as the command runs.
* `ErrnoKeptHolds`: under the two conditions of `LogArrivesHolds` and for any number of
  threads. `Errno` follows a wrapper through its plan: no result before the call, then the errno of the
  call, which a line that gets to stderr leaves alone. With `-o` and a closed log
  descriptor the `dprintf` itself fails and sets errno.
* `SuccessNamedHolds`: for a command of one thread, under every option. `Named` says, for
  each kind of wrapper and each point of its plan, what is known of the file: a
  `close` that has found no name has a descriptor that is not open and will fail; an
  `open` that succeeded has a file to look up. With two threads another one may
  remove the file or close the descriptor between call and lookup; then the line has no
  name, and so the theorem is not claimed.

`LibMiniProofs` proves for every program, handler and set of signals:

* `TypeCorrect`, for programs that compile (`Compiles`: the argument types of
  `libmini.h`) and do nothing that C leaves undefined (`Defined`: `longjmp` only to a
  function that has not returned, `funs[i]` within its array).
* `MaskIsOwnHolds`: if no jump leaves a handler or goes back to where the mask was
  another (`JumpsKeepMask`, the finding of `mini_jump`). `MaskInv` is stronger than
  `MaskIsOwn` by `PutBack`: the lowest handler on the stack, the one that interrupted
  main, will put back the mask main asked for. Nothing is needed of the handlers above
  it.
* `WithoutJumps`: for programs without `longjmp` both hold as they stand.

`MiniClientsProofs` proves what the programs of `hw3` get from the library, for any
signals, any number of them sent by other processes (SIGALRM among them) and any moment
at which they come. The hypothesis `Clients` says that `Code` is the code of
`MiniClients` and that the process is one of its programs other than `timeout`, whose
jump is the finding of `mini_jump`.

* `AlarmAnswersHolds`, `JumpsCountedHolds` and `NoPerrorHolds`.
* `PerrorTellsHolds`, which also needs `WritesTell`: the writes of the prefix give no
  error behind the end of `errmsg`. With one that is, `perror` checks the bounds on that
  error and writes "Unknown" for a call that failed with a known one.
* `ClientsKeepMask`: `Compiles`, `Defined` and `JumpsKeepMask` hold of these programs in
  every reachable state, so that types and masks are right without hypotheses on the
  run, for `jmp1` too.

None of these is inductive: that a word was written says nothing of the line the program
is at. `ClientInv` has a part for each program, which says what is known at each of its
lines. `Alarm2Inv` is the most telling: SIGALRM is blocked from line 3 on and so never
delivered, and during the sleep it is pending or the sleep has at least two seconds more
to go than the alarm, so that it is pending when the sleep ends, which `sigpending`, the
set and `sigismember` then carry on to the test. `Alarm3Inv` needs the handler of SIGINT
as well: it may run at any moment from line 5 on, and the mask it puts back holds
SIGALRM. In `Sig1Inv` the handler writes, and so sets `errno`, between any two steps of
`main`; no test of `sig1` depends on `errno`. `Jmp1Inv` ties the value that the function
on the stack will jump with, the value that `setjmp` returned and `i` to each other. The
lemmas between the programs' lines and these invariants (`EmptyDoes` to `LongJmpDoes`,
`WrapDoes`, `DeliverDoes`) say once for each call what it does to the running function
and to the state.

The constants of `mini_clients` meet `Clients` and `WritesTell`, and those of the other
theorems about libmini.

`LsofProofs` proves for any number of processes, files, descriptors and changes:

* `TypeCorrect`, with `TInv`: the lister has its stream open wherever it closes it.
* `FailsForAReasonHolds`, if every descriptor can be read or written. `SInv` says that
  the lister is in the directory of the process it looks at and has only seen
  descriptors that are open, unless that process has changed.
* `NoWrongLineHolds` and `NothingMissingHolds`. `LInv` follows the walk: `RoomLeft`, the
  count of descriptors (one is left open for each process that can be read, so that
  fewer of these than `MaxOpen` are enough); `OwnFields` and `EntryFields`, what of `info` belongs to the current
  process and entry; `Right`, `Complete` and `Progress`, the lines printed so far.
  `Conditions` are the limits of the code, one for each way in which a value gets lost
  or is left over: a user that is in the data base, a program name without spaces, an
  `exe` for every process that can be read, links to files of a known type, mapped files
  that are not deleted and have no space in their names, no two with one inode number,
  inode numbers that fit in an `int`, no descriptor on a file with `(deleted)` in its
  name, and enough descriptors. The instance of `lsof_scan` meets them.

The inductive invariants were checked with TLC on the instances of the runs before they
were proved.

Only model-checked is liveness (`PromptReturns`, `LauncherEnds`, `ScriptEnds`,
`QuitIsTaken`, `PauseEnds`, `ClientsEnd`, `ListerEnds`), which is out of this prover's
reach.

## 5. What is not modelled

* Debugger: registers other than `rip` (setting them changes what the program
  computes, which `Succ` leaves open already); the disassembly, hex dump and map that
  are printed; how the text section is found in the ELF file; a traced program that
  modifies its text, forks, or calls exec; and the moment between fork and
  `PTRACE_SETOPTIONS`, in which the death of the debugger would leave the process alive.
* Command loop: the characters of a line. Words that are no command are `unknown`.
* Logger: the text of a line, and lines of two threads that get mixed (a line of
  `read`, `write`, `fread` or `fwrite` is several writes); the argument vector of 32
  entries; environment variables changed by the command itself.
* libmini: the wrappers that have nothing to do with signals are one operator (`plain`)
  with the errors they may give; `fork` is left out, and `nanosleep` is there only as
  `sleep` calls it. The writes of one `perror` are one step. `errno` is changed by the
  calls of a handler too; the one program with such a handler, `sig1`, never gets to
  `perror` (`NoPerror`), and `PerrorTells` says nothing of programs that would.
* Lister: a regular expression is the set of words it finds; pids are not used again
  while a listing runs. Kernel threads (no `exe`), users that are not in the data
  base, names with a space and inode numbers that do not fit in an `int` are in the model
  and not in the instance: for each of them the lister does print a wrong line or leaves
  one out, as the hazards in `PROJECT.json` say.
* Scripts and samples: `guess` is left out, its text is far larger than `hello64` and
  shows the debugger nothing new.

## 6. Plan

Every part of the system has its model, and every safety property of the passing runs
its theorem. What is left: `Armed` and `TextIntact` with weaker conditions, that is,
which sequences of commands are safe when two breakpoints lie in one word.
