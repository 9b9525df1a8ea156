CONSTANTS
    InitCap = 2
    Block = 4
    Limit = 10
    ReadChunk = 4
    MaxWrite = 3
    MaxStamp = 10
SPECIFICATION Spec
INVARIANTS
    TypeOK
    InBounds
PROPERTY
    QueueSpec
