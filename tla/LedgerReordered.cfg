CONSTANTS
    n1 = n1  n2 = n2  n3 = n3
    NoTurn = NoTurn
    NoRun = NoRun
    NoToken = NoToken
    NoPane = NoPane
    Turn = {n1, n2}
    MaxSess = 2
    MaxEpoch = 2
    MaxHooks = 4
    MaxCrash = 1
    MaxFault = 1
    StartsUnbound = FALSE
    Reorder = TRUE
SPECIFICATION Spec
CHECK_DEADLOCK FALSE
SYMMETRY Turns
INVARIANTS SequencesUnique OneActiveRun ActiveIsCurrent
PROPERTIES OutcomeFinal
