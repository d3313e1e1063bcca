SPECIFICATION FairSpec
CONSTANTS
    MaxConnects = 2
    MaxCalls = 2
INVARIANTS
    AssertionsInCall
    AnswerDescribes
    AnswerFirst
PROPERTIES
    OfferAnswered
\* The process may be over.
CHECK_DEADLOCK FALSE
