SPECIFICATION FairDriverSpec
CONSTANTS
    Runs = 1
    Registrations <- MC_AsHandedOut
    Behaviours = {"right", "loops"}
    SimRuns = {TRUE}
    MaxFuncs = 2
PROPERTY DriverEnds
\* The driver ends, or waits for the pipe for ever.
CHECK_DEADLOCK FALSE
