\* Callers drop their references before calling args(), as the commands of
\* the repository do (every operator* / operator[] result is a temporary).
CONSTANTS
    f1 = f1
    f2 = f2
    v1 = v1
    v2 = v2
    h1 = h1
    h2 = h2
    r1 = r1
    Default = Default
    Absent = Absent
    Fields <- MCFields
    Values <- MCValues
    Handles <- MCHandles
    Refs <- MCRefs
    MaxMaps = 3
    HoldAcrossArgs = FALSE
SYMMETRY Perms
SPECIFICATION Spec
INVARIANT CapturedImmutable NoWriteAfterFree
PROPERTY RefinesArgsValue
