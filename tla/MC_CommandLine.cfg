SPECIFICATION MainSpec
CONSTANTS
    TestRange = 4
    SqrtRange = 2
    CbrtRange = 1
    ExpBits = 5
    FracBits = 1
    Ranges <- MC_Ranges
    ArgVals <- MC_ArgVals
    RandMax = 2
    Rounding = 1
    Words <- MC_Words
    CommandLines <- MC_CommandLines
INVARIANTS
    WithinBuffer
    ValuesInDomain
    RegionsTested
    ArgsAsGiven
    ShownAsTyped
\* gen_vals returns and the programs end.
CHECK_DEADLOCK FALSE
