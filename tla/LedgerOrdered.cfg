CONSTANTS
    n1 = n1  n2 = n2  n3 = n3
    NoTurn = NoTurn
    NoRun = NoRun
    NoToken = NoToken
    NoPane = NoPane
    Turn = {n1, n2, n3}
    MaxSess = 2
    MaxEpoch = 3
    MaxHooks = 5
    MaxCrash = 1
    MaxFault = 0
    StartsUnbound = FALSE
    Reorder = FALSE
SPECIFICATION Spec
CHECK_DEADLOCK FALSE
SYMMETRY Turns
INVARIANTS TypeOK DoneMeansInactive PaneShowsRun
PROPERTIES OperatorSawIt
