CONSTANTS
    o1 = o1  o2 = o2
    t1 = t1  t2 = t2
    p1 = p1  p2 = p2
    n1 = n1  n2 = n2
    NoOp = NoOp
    NoRec = NoRec
    NoRun = NoRun
    NoTurn = NoTurn
    Op = {o1, o2}
    Target = {t1}
    Prompt = {p1, p2}
    Turn = {n1, n2}
    TargetOf <- SameTarget
    PromptOf <- SamePrompt
    MaxSess = 2
    MaxCrash = 1
    MaxFault = 1
    ConfirmFaults = FALSE
SPECIFICATION DispatchSpec
CHECK_DEADLOCK FALSE
INVARIANTS TypeOK AtMostOnce RejectedNotSent FenceMatchesStore StoreReopens ConfirmedByRun
PROPERTIES ImplementsContract EverythingSettles
