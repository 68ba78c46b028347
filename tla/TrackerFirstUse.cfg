SPECIFICATION Spec
CONSTANTS
    Runs = {r1, r2}
    Layers = {proj}
    NULL = NULL
    Day = 1
    InvDays = 2
    RawDays = 1
    DefaultInvDays = 2
    DefaultRawDays = 1
    StartTime = 1
    MaxTime = 2
    MaxStall = 1
    MaxFaults = 0
    BrokenConfigs = FALSE
    FirstUse = TRUE
INVARIANT LostOnlyEverToFault
CHECK_DEADLOCK FALSE
