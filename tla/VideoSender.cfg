SPECIFICATION FairSpec
CONSTANTS
    NStreams = 2
    MaxCalls = 2
INVARIANTS
    OfferFirst
    
    StatesAgree
PROPERTIES
    CallOffered
    ProcessEnds
\* The process may be over.
CHECK_DEADLOCK FALSE
