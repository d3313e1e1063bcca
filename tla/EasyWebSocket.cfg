SPECIFICATION Spec
CONSTANTS
    MaxFrames = 3
    MaxLength = 1
    MaxTraffic = 3
    MaxRecv = 3
    Room = 2
    LineMax = 6
INVARIANTS
    MessagesIntact
    NothingAfterClose
    WireUnderstood
PROPERTIES
    ImplementsPipe
