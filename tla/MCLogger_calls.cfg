SPECIFICATION FairSpec
CONSTANTS
    Threads = {t1}
    Paths = {"a", "b"}
    Inodes = {i1, i2}
    MaxFd = 3
    MaxBytes = 1
    LogLimit = 2
    SizeBits = 4
    Ops <- EveryCall
    OArgs = {"writable", "unwritable"}
    OwnStreams = {3}
    Libc = {TRUE, FALSE}
INVARIANTS TypeOK SuccessNamed
PROPERTIES LogStays LauncherEnds
