CONSTANTS
    Timeout <- MCTimeout
    ConnTimo <- MCConnTimo
    InLimit = 2
    NIn = 3
    NOut = 2
    Step = 500
    MaxTime = 3500
    None = None
SPECIFICATION Spec
\* The peer and the application stop after a bounded number of chunks and
\* the clock at MaxTime; a closed connection has nothing left to do.
CHECK_DEADLOCK FALSE
INVARIANTS
    TypeOK
    OutputInOrder
    InputInOrder
    WriteInterestExact
PROPERTY
    KeepaliveCloseAfterSilence
