CONSTANTS
    Mains = {"alarm1", "alarm2", "alarm3", "sig1", "jmp1", "write1", "report", "report_prefix", "edges"}
    Code <- ClientCode
    Funs <- funs
    Signals = {2, 3, 14}
    Outside = {2, 3}
    MaxSent = 2
    SetVars = {"s", "new", "old", "pend"}
    WriteErrors = {5}
SPECIFICATION Spec
INVARIANTS TypeOK MaskIsOwn PerrorTells AlarmAnswers JumpsCounted NoPerror
PROPERTIES QuitIsTaken PauseEnds ClientsEnd
CHECK_DEADLOCK FALSE
