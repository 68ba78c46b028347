SPECIFICATION Spec
CONSTANTS
    ProjectDirs <- MCProjectDirs
    Names <- MCNames
    Bundled <- MCBundled
    Contents <- MCContents
    Specs <- MCSpecs
    NoFile = NoFile
    Absent = Absent
    MaxEdits = 1
    Calls <- MCCalls
    Home = "home"
INVARIANTS
    HookTypeOK
    RejoinsExactly
    CutsAreSeparators
    ShellReadsTheSame
    InteractiveLeftAlone
    EscapeHatchHonoured
    HigherLayerWins
    LostOnlyByMoving
    RunsTheMatchedRule
    NoInventedRule
PROPERTY
    CallEnds
