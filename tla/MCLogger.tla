------------------------------ MODULE MCLogger ------------------------------
(***************************************************************************)
(* Instances of Logger for TLC.  Threads are interchangeable: no action    *)
(* and no property of the runs that use Interchangeable names one.         *)
(***************************************************************************)
EXTENDS Logger, TLC

Interchangeable == Permutations(Threads)

\* Every wrapper of logger.c.
EveryCall == AllOps

\* Calls that fight for descriptors and names.
Contended == {"open", "close", "fclose", "read", "remove"}
=============================================================================
