SPECIFICATION FromOneAccess
CONSTANTS
    d1 = d1
    f1 = f1
    f2 = f2
    Decl = {d1}
    File = {f1, f2}
    Edited = {f1}
    ClassFile = {f1}
    Text <- Marks
    MaxEdits = 1
    MaxPanics = 1
    MaxCachedMembers = 2
    MaxCachedLocations = 2
    MaxLocationsPerMember = 2
    MaxCachedUris = 2
INVARIANTS
    TypeOK
    FreshIsCurrent
    LocationsAccounted
    QueueIsServed
PROPERTIES
    BurstsEnd
    LensSettles
