SPECIFICATION Refreshing
CONSTANTS
    d1 = d1
    f1 = f1
    f2 = f2
    Decl = {d1}
    File = {f1, f2}
    Edited = {f1}
    ClassFile = {f1}
    Text <- Marks
    MaxEdits = 0
    MaxPanics = 0
    MaxCachedMembers = 2
    MaxCachedLocations = 2
    MaxLocationsPerMember = 1
    MaxCachedUris = 3
PROPERTIES
    LensSettles
