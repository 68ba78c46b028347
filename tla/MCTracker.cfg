SPECIFICATION Spec
CONSTANTS
    Runs = {r1, r2, r3}
    Layers = {proj}
    NULL = NULL
    Day = 1
    InvDays = 2
    RawDays = 1
    DefaultInvDays = 1
    DefaultRawDays = 1
    StartTime = 1
    MaxTime = 3
    MaxStall = 1
    MaxFaults = 1
    BrokenConfigs = TRUE
    FirstUse = TRUE
SYMMETRY Symmetry
INVARIANTS TypeOK LinkedRawIsOwn RetentionEnforced OrphanOnlyAfterFault NoticeOnce LostOnlyToFault
PROPERTIES LedgerSpec
CHECK_DEADLOCK FALSE
