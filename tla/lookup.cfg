SPECIFICATION Spec
CONSTANTS
    c1 = c1
    c2 = c2
    Class = {c1, c2}
    Thread = {t1, t2}
    NoThread = NoThread
    File = {1}
    Text <- WithC1
    Psr4 <- InFirst
    MaxLookups = 2
    MaxChanges = 1
    MaxPanics = 1
    MaxGiveUps = 1
INVARIANTS
    TypeOK
    MemoMatches
    NoPoisonedMiss
PROPERTIES
    LookupsReturn
    ImplementsClaims
CHECK_DEADLOCK FALSE
