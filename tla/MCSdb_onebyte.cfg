SPECIFICATION FairSpec
CONSTANTS
    WordSize = 8
    Mapped <- LoopMapped
    Code <- LoopCode
    TextStart = 8
    TextSize = 12
    Insns <- LoopInsns
    InsnLen <- LoopLen
    Succ <- LoopSucc
    Entry = 8
    Files = {"program"}
    BreakArgs = {8}
    DeleteArgs = {}
    RipArgs = {}
    Faults = {}
    MaxStarts = 1
    MaxFiles = 1
PROPERTY Transparency
