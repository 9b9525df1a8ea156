CONSTANTS
    f1 = f1
    f2 = f2
    f3 = f3
    s1 = s1
    s2 = s2
    None = None
    Futures <- MCFutures
    SNs <- MCSNs
    Sn <- MCSn
    Kind <- MCKind
    AllowUserRef = TRUE
SPECIFICATION Spec
\* Every call has completed and nothing is left to happen.
CHECK_DEADLOCK FALSE
INVARIANTS
    AtMostOnce
