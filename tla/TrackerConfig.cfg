SPECIFICATION Spec
CONSTANTS
    Runs = {r1, r2}
    Layers = {proj}
    NULL = NULL
    Day = 1
    InvDays = 3
    RawDays = 2
    DefaultInvDays = 1
    DefaultRawDays = 1
    StartTime = 1
    MaxTime = 4
    MaxStall = 1
    MaxFaults = 0
    BrokenConfigs = TRUE
    FirstUse = FALSE
PROPERTY UserRetentionHonoured
CHECK_DEADLOCK FALSE
