CONSTANTS
    h1 = h1
    h2 = h2
    None = None
    Handlers <- MCHandlers
    Timeouts <- MCTimeouts
    NFalls = 2
    MaxWait = 8
    AgeCap = 30
SYMMETRY MCSymmetry
SPECIFICATION Spec
INVARIANTS
    TypeOK
    WheelConsistent
    NotOverdue
