SPECIFICATION Spec
CONSTANTS
    p = p
    q = q
    Inits = {p, q}
    Runs <- MCRuns
    Disks <- MCDisks
    Machines <- MCMachines
    Lines = {"blank", "import", "new", "own"}
    NoFile = NoFile
    Commands = {"lacon", "own", "other"}
    Malformed = Malformed
    MaxMishaps = 1
INVARIANTS
    SetupTypeOK
    OneHook
    ForeignHooksKept
    OwnLinesKept
    ReRunWritesTheSame
    DoctorAcceptsInit
    HalfInstalledIsReported
