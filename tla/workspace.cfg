SPECIFICATION Traded
CONSTANTS
    File = {1, 2}
    Edited = {1}
    Wedged = {1}
    Panics = {2}
    Workers = 2
    MaxReplacements = 1
    Refused = {1, 2, 3}
    MaxPasses = 2
    MaxEdits = 1
    MaxCloses = 1
    MaxSwitches = 2
    MaxEvents = 2
INVARIANTS
    TypeOK
    GivenUpIsStuck
    NothingLost
    RestIsCurrent
PROPERTY
    PassesEnd
CHECK_DEADLOCK FALSE
