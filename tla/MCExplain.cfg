SPECIFICATION StatsFairSpec
CONSTANTS
    r1 = r1
    r2 = r2
    Runs = {r1, r2}
    Layers = {proj}
    Readers = {x}
    NULL = NULL
    Day = 1
    InvDays = 1
    RawDays = 0
    DefaultInvDays = 2
    DefaultRawDays = 1
    StartTime = 1
    MaxTime = 3
    MaxStall = 0
    MaxFaults = 1
    BrokenConfigs = FALSE
    FirstUse = TRUE
    Histories <- MCHistories
    Requests <- MCRequests
    Cwd <- MCCwd
    Disk <- MCDisk
    TempRoots <- MCTempRoots
    Flags = {"-D", "-v"}
    BypassFloor = 1
    Repository <- MCRepository
INVARIANTS StatsTypeOK ExplainFresh ReportIsTrue SectionsAgree
PROPERTIES RecordingEnds
CHECK_DEADLOCK FALSE
