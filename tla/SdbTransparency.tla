-------------------------- MODULE SdbTransparency --------------------------
(***************************************************************************)
(* The debugger implements TransparentTracing.  The abstract program       *)
(* counter is rip, except between the trap of a breakpoint byte and the    *)
(* step of check_process that takes rip back onto the breakpoint.          *)
(***************************************************************************)
EXTENDS Sdb

AbstractMode ==
    CASE child = "stopped" -> "stopped"
      [] child \in {"resumed", "stepping"} -> "resumed"
      [] child = "running" -> "running"
      [] OTHER -> "dead"

AbstractAt ==
    IF child = "stopped" /\ why = "int3" /\ pc = "waiting" THEN rip - 1 ELSE rip

TT == INSTANCE TransparentTracing
        WITH mode <- AbstractMode, at <- AbstractAt, bps <- DOMAIN addr_list,
             Targets <- RipArgs, Points <- BreakArgs

\* Breakpoints are transparent: the program behaves as if its text had never
\* been touched, and stops at each breakpoint it gets to.
Transparency == TT!Spec
=============================================================================
