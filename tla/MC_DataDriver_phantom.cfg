SPECIFICATION DriverSpec
CONSTANTS
    N = 2
    Rating <- MC_Rating
    TestCount <- MC_TestCount
    DeviatesAt = {1, 2}
    GlobalRatings = {0, 2}
    Limits = {10}
    FloatPuzzles = {2}
INVARIANT NamesArePuzzles
CHECK_DEADLOCK FALSE
