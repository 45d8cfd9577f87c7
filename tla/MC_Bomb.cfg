SPECIFICATION FairSpec
CONSTANTS
    W = 12
    Lines <- MC_Lines
    Inputs <- MC_Inputs
INVARIANTS
    LinesInOrder
    DefusedByAll
    ZeroMeansNoMistake
    AnswersNeverExplode
    SearchesExact
    Phase6Exact
PROPERTY Ends
\* The bomb is defused, explodes or exits.
CHECK_DEADLOCK FALSE
