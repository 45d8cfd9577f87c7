SPECIFICATION Spec
CONSTANTS
    N = 3
    Rating <- MC_Rating
    TestCount <- MC_TestCount
    DeviatesAt = {1, 2}
    GlobalRatings = {0}
    Limits = {10}
INVARIANT TimedOutByOwnAlarm
CHECK_DEADLOCK FALSE
