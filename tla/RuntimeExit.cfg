SPECIFICATION Spec
CONSTANTS
    Letters = {"a"}
    NL = "nl"
    SLEEP = "sleep"
    PipeSize = 2
    BufSize = 2
    LineCap = 2
    Plans <- MCPlans
    HeirPlans <- MCHeirPlans
    Codes = {0, 1}
    Signals <- MCSignals
    MaxSignals = 2
    ReadErrors = FALSE
    FilterErrors = TRUE
INVARIANT ExitCodePropagated
CHECK_DEADLOCK FALSE
