SPECIFICATION Spec
CONSTANTS
    W = 8
    F = 3
    Halves <- MC_Halves
    Sample <- MC_Sample
INVARIANTS
    TestsAgree
    HowManyBitsMinimal
    ScaleExact
    Power2TestExact
    Power2ExactOnNormals
\* One call is made.
CHECK_DEADLOCK FALSE
