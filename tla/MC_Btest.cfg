SPECIFICATION FairSpec
CONSTANTS
    N = 3
    Rating <- MC_Rating
    TestCount <- MC_TestCount
    DeviatesAt = {1, 2}
    GlobalRatings = {0, 2}
    Limits = {0, 10}
INVARIANTS
    PointsWithinMax
    NoUndeservedCredit
    NoJumpBeforeSetjmp
    CreditedOnce
    RowsAddUp
PROPERTIES
    Terminates
    ImplementsGrader
    EveryFunctionGraded
\* The program stops: it exits, faults, or loops in a solution without -T.
CHECK_DEADLOCK FALSE
