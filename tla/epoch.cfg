SPECIFICATION Spec
CONSTANTS
    d1 = d1
    g1 = g1
    File = {d1, g1}
    Document = {d1}
    Batches <- AnyBatch
    Project = Project
    Publisher = {t1, t2}
    Passer = {p1}
    None = None
    MaxWrites = 2
    MaxOpens = 2
INVARIANTS
    TypeOK
    BaselineIsCurrent
CHECK_DEADLOCK FALSE
