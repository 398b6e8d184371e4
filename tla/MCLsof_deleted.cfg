CONSTANTS
    Proc <- MCDeletedProc
    Fds0 <- MCDeletedFds
    FdNumbers = {0, 1}
    File <- MCFile
    Deleted0 = {"lib"}
    Options <- MCOptionsAll
    Modes = {"r"}
    Bits = 4
    MaxOpen = 2
    MaxChanges = 0
SPECIFICATION Spec
INVARIANT DeletedMarked
