SPECIFICATION Spec
CONSTANTS
    c1 = c1
    c2 = c2
    Class = {c1, c2}
    Thread = {t1}
    NoThread = NoThread
    File = {1}
    Text <- WithC1
    Psr4 <- InFirst
    MaxLookups = 1
    MaxChanges = 1
    MaxPanics = 0
    MaxGiveUps = 0
INVARIANTS
    MissesAreTrue
CHECK_DEADLOCK FALSE
