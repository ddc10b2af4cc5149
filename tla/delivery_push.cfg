SPECIFICATION Spec
CONSTANTS
    File = {f1, f2}
    StartupFiles = {}
    PullModes <- PushOnly
    NoSet = NoSet
    MaxVersions = 2
    MaxCloses = 0
    MaxSaves = 1
    MaxToolRuns = 1
INVARIANTS
    RestIsFresh
PROPERTIES
    MergesMoveForward
SYMMETRY FileSymmetry
CHECK_DEADLOCK FALSE
