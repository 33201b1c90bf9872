\* Three sessions, the ends of the valid range and a neighbour of 0, two threads, atomic counter.
CONSTANTS
    t1 = t1
    t2 = t2
    Threads <- MCThreads
    SessionBits = 2
    CounterBits = 2
    SessionIds = {0, 1, 3}
    Atomic = TRUE
    MaxCalls = 6
SPECIFICATION Spec
\* The program stops calling getNextObjectId once each State has had MaxCalls calls.
CHECK_DEADLOCK FALSE
INVARIANT IdsUnique IdLayout MintOrder
PROPERTY RefinesIdCounter
