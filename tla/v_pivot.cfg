SPECIFICATION Spec
CONSTANTS
    f1 = f1
    Thread = {t1}
    Writer = {w1}
    Edited = {}
    Indexed = {f1}
    Scanned = {}
    NoThread = NoThread
    NoMemo = NoMemo
    MaxWrites = 1
    MaxPanics = 0
INVARIANTS
    IndexIsFresh
CHECK_DEADLOCK FALSE
