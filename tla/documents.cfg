SPECIFICATION Traded
CONSTANTS
    r1 = r1
    r2 = r2
    NoText = 0
    NoRequest = NoRequest
    Text = {1, 2, 3}
    Broken = {3}
    Length <- Lengths
    Request <- Requests
    MaxEdits = 2
    MaxCloses = 1
    MaxWrites = 1
    MaxEvents = 3
INVARIANTS
    TypeOK
    RestIsLatest
    AnswersMatch
    ScansExclude
SYMMETRY Alike
CHECK_DEADLOCK FALSE
