SPECIFICATION FairSpec
CONSTANTS
    MaxPackets = 3
    OtherSockets = FALSE
INVARIANTS
    NoThreadOutlives
PROPERTIES
    LayersInOrder
    DestructorReturns
    SctpStarts
\* A connection that has been destroyed does nothing more.
CHECK_DEADLOCK FALSE
