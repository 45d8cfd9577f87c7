SPECIFICATION FairDriverSpec
CONSTANTS
    N = 2
    Rating <- MC_Rating
    TestCount <- MC_TestCount
    DeviatesAt = {1, 2}
    GlobalRatings = {0, 2}
    Limits = {0, 10}
    FloatPuzzles = {2}
INVARIANTS
    NoPerformanceWithoutCorrectness
    ScoresEarned
    TotalsOfPuzzles
PROPERTY DriverEnds
\* The driver exits.
CHECK_DEADLOCK FALSE
