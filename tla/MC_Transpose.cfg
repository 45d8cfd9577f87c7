SPECIFICATION Spec
CONSTANTS
    M = 3
    N = 2
    Value = {0, 1}
INVARIANTS
    VerdictExact
    TransCorrect
\* The check returns.
CHECK_DEADLOCK FALSE
