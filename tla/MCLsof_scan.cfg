CONSTANTS
    Proc <- MCProc
    Fds0 <- MCFds0
    FdNumbers = {0, 1}
    File <- MCFile
    Deleted0 = {"log"}
    Options <- MCOptions
    Modes = {"r", "none"}
    Bits = 4
    MaxOpen = 3
    MaxChanges = 2
SPECIFICATION Spec
INVARIANTS TypeOK NoWrongLine NothingMissing FailsForAReason
PROPERTY ListerEnds
