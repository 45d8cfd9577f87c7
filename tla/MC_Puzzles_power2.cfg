SPECIFICATION Spec
CONSTANTS
    W = 8
    F = 3
    Halves <- MC_Halves
    Sample <- MC_Sample
INVARIANT Power2Exact
\* One call is made.
CHECK_DEADLOCK FALSE
