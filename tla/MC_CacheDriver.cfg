SPECIFICATION FairDriverSpec
CONSTANTS
    Runs = 2
    Registrations <- MC_Registrations
    Behaviours = {"right", "wrong", "crashes", "loops"}
    SimRuns = {TRUE, FALSE}
    MaxFuncs = 2
INVARIANTS
    CorrectIsValidated
    MissesAreOwnIfSim
    TraceIsOwn
    PerformanceOfCorrect
    OneChild
    SheetIsEarned
PROPERTIES
    TestTransEnds
    DriverEndsUnlessLoop
\* The driver ends, or waits for the pipe for ever.
CHECK_DEADLOCK FALSE
