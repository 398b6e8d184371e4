SPECIFICATION Spec
CONSTANTS
    Threads = {t1}
    Paths = {"a"}
    Inodes = {i1}
    MaxFd = 3
    MaxBytes = 1
    LogLimit = 2
    SizeBits = 4
    Ops <- Contended
    OArgs = {"writable"}
    OwnStreams = {}
    Libc = {TRUE}
INVARIANT NoSpill
