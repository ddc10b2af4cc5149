SPECIFICATION FairSpec
CONSTANTS
    f1 = f1
    File = {f1}
    None = None
    MaxRequests = 2
    MaxScans = 1
    MaxMerges = 1
INVARIANTS
    TypeOK
PROPERTIES
    ScanYields
    RequestIsTaken
CHECK_DEADLOCK FALSE
