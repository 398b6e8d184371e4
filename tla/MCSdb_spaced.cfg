SPECIFICATION Spec
CONSTANTS
    WordSize = 8
    Mapped <- LoopMapped
    Code <- LoopCode
    TextStart = 8
    TextSize = 12
    Insns <- LoopInsns
    InsnLen <- LoopLen
    Succ <- LoopSucc
    Entry = 8
    Files = {"missing", "notelf", "program", "unrunnable"}
    BreakArgs = {8, 16, 20}
    DeleteArgs <- AnyNumber
    RipArgs = {}
    Faults = {"stop", "fork"}
    MaxStarts = 2
    MaxFiles = 2
INVARIANTS TypeOK Armed IdleClean
PROPERTY StoppedSurvives
