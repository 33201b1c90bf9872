\* A hash computation stops when the loop returns, so final states are
\* not deadlocks.
CONSTANTS
    Names <- MCNames
    TestVectors <- MCTestVectors
    CharSigned = TRUE
SPECIFICATION Spec
INVARIANT AsciiIsFnv1a MatchesTestVectors
CHECK_DEADLOCK FALSE
