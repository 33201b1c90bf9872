\* A caller keeps a reference across args(), then the handle is released.
CONSTANTS
    f1 = f1
    f2 = f2
    v1 = v1
    v2 = v2
    h1 = h1
    h2 = h2
    r1 = r1
    Default = Default
    Absent = Absent
    Fields <- MCFields
    Values <- MCValues
    Handles <- MCHandles
    Refs <- MCRefs
    MaxMaps = 3
    HoldAcrossArgs = TRUE
SYMMETRY Perms
SPECIFICATION Spec
INVARIANT NoWriteAfterFree
