CONSTANTS
    Mains = {"timeout"}
    Code <- ClientCode
    Funs <- funs
    Signals = {2, 3, 14}
    Outside = {2}
    MaxSent = 1
    SetVars = {"s"}
    WriteErrors = {}
SPECIFICATION Spec
INVARIANT MaskIsOwn
CHECK_DEADLOCK FALSE
