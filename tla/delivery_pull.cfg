SPECIFICATION FairSpec
CONSTANTS
    File = {f1}
    StartupFiles = {}
    PullModes <- PullOnly
    NoSet = NoSet
    MaxVersions = 2
    MaxCloses = 1
    MaxSaves = 0
    MaxToolRuns = 0
INVARIANTS
    TypeOK
    UnchangedIsSound
    NoLostWakeup
    RestIsFresh
PROPERTIES
    EventuallyFresh
CHECK_DEADLOCK FALSE
