SPECIFICATION FairSpec
CONSTANTS
    f1 = f1
    Thread = {t1, t2}
    Writer = {w1}
    Edited = {f1}
    Indexed = {f1}
    Scanned = {f1}
    NoThread = NoThread
    NoMemo = NoMemo
    MaxWrites = 1
    MaxPanics = 1
INVARIANTS
    TypeOK
    GateServes
    MemoIsCurrent
PROPERTIES
    LoadsReturn
    ImplementsGate
CHECK_DEADLOCK FALSE
