SPECIFICATION ShellSpec
CONSTANTS
    WordSize = 2
    Mapped <- TinyMapped
    Code <- TinyCode
    TextStart = 8
    TextSize = 5
    Insns <- TinyInsns
    InsnLen <- TinyLen
    Succ <- TinySucc
    Entry = 8
    Files = {"program", "missing"}
    BreakArgs = {9, 11}
    DeleteArgs = {0, 1}
    RipArgs = {9}
    Faults = {"cs_open", "fork", "kill", "stop"}
    MaxStarts = 2
    MaxFiles = 1
    MaxLines = 6
INVARIANTS ShellTypeOK OneProcess
PROPERTIES UsesSdb ScriptEnds EofHarmless
CHECK_DEADLOCK FALSE
