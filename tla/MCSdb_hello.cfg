SPECIFICATION FairSpec
CONSTANTS
    WordSize = 8
    Mapped <- HelloMapped
    Code <- HelloCode
    TextStart = 176
    TextSize = 35
    Insns <- HelloInsns
    InsnLen <- HelloLen
    Succ <- HelloSucc
    Entry = 176
    Files = {"program"}
    BreakArgs = {176, 186, 198, 211}
    DeleteArgs = {}
    RipArgs = {176, 191}
    Faults = {"cs_open", "kill"}
    MaxStarts = 1
    MaxFiles = 1
INVARIANTS TextIntact StepsOverCurrent
PROPERTIES Transparency PromptReturns
