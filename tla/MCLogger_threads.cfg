SPECIFICATION Spec
SYMMETRY Interchangeable
CONSTANTS
    Threads = {t1, t2}
    Paths = {"a"}
    Inodes = {i1}
    MaxFd = 3
    MaxBytes = 1
    LogLimit = 2
    SizeBits = 4
    Ops <- Contended
    OArgs = {}
    OwnStreams = {3}
    Libc = {TRUE}
INVARIANTS LogArrives ErrnoKept
