------------------------- MODULE TransparentTracing -------------------------
(***************************************************************************)
(* What a breakpoint debugger promises of the program it runs.  The        *)
(* program executes its own instructions and nothing else; the user may    *)
(* stop it, resume it and move its program counter; and once it runs on    *)
(* its own it never executes an instruction that has a breakpoint.  There  *)
(* is no text to patch here and no trap to interpret.                      *)
(***************************************************************************)
CONSTANTS
    Succ, Entry, EXIT,  \* the program: where each instruction may go
    Targets,            \* where the user may move the program counter
    Points              \* where the user may set a breakpoint

VARIABLES
    mode,   \* "dead", "stopped", "resumed" (no instruction yet), "running"
    at,     \* the next instruction of the program
    bps     \* the breakpoints

Init == mode = "dead" /\ at = Entry /\ bps = {}

Launch ==
    /\ mode = "dead"
    /\ mode' \in {"stopped", "resumed"}
    /\ at' = Entry
    /\ UNCHANGED bps

Resume == mode = "stopped" /\ mode' = "resumed" /\ UNCHANGED <<at, bps>>

\* The first instruction after a resume is executed even under a breakpoint.
Execute ==
    /\ mode = "resumed" \/ (mode = "running" /\ at \notin bps)
    /\ \E next \in Succ[at] :
          \/ next # EXIT /\ at' = next /\ mode' \in {"running", "stopped"}
          \/ next = EXIT /\ mode' = "dead" /\ UNCHANGED at
    /\ UNCHANGED bps

Stop ==
    /\ mode \in {"resumed", "running"}
    /\ mode' = "stopped"
    /\ UNCHANGED <<at, bps>>

Move == mode = "stopped" /\ at' \in Targets /\ UNCHANGED <<mode, bps>>

\* break and delete: one breakpoint more or one less, the others stay.
Change ==
    /\ mode = "stopped"
    /\ \/ \E a \in Points : bps' = bps \cup {a}
       \/ \E a \in bps : bps' = bps \ {a}
    /\ UNCHANGED <<mode, at>>

\* Of a dead program the next instruction means nothing.
Die == mode' = "dead" /\ UNCHANGED bps

Next == Launch \/ Resume \/ Execute \/ Stop \/ Move \/ Change \/ Die

Spec == Init /\ [][Next]_<<mode, at, bps>>
=============================================================================
