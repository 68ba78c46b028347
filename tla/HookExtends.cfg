SPECIFICATION Spec
CONSTANTS
    ProjectDirs <- MCProjectDirs
    Names <- MCNames
    Bundled <- MCBundled
    Contents <- MCContents
    Specs <- MCSpecs
    NoFile = NoFile
    Absent = Absent
    MaxEdits = 1
    Calls <- MCCalls
    Home = "home"
INVARIANT
    ParentsOfAnyLayer
