\* Sessions 0, 4 (needs more than SessionBits bits) and 8 (reaches the sign bit), two threads, atomic counter.
CONSTANTS
    t1 = t1
    t2 = t2
    Threads <- MCThreads
    SessionBits = 2
    CounterBits = 2
    SessionIds = {0, 4, 8}
    Atomic = TRUE
    MaxCalls = 6
SPECIFICATION Spec
\* The program stops calling getNextObjectId once each State has had MaxCalls calls.
CHECK_DEADLOCK FALSE
INVARIANT IdLayout
