SPECIFICATION FairSpec
CONSTANTS
    Offers = 2
    MaxMessages = 4
    MaxCandidates = 1
    MaxOpens = 1
    MaxFrames = 3
    SeqModulus = 3
    Units = 2
    Speeds <- SomeSpeeds
    StackLimit = 5
    MaxInt = 7
    MaxLargest = 127
    Overflowing <- SomeOverflowing
    ShortText = 15
    Residues <- SomeResidues
    Strings <- SomeStrings
    Speech <- SomeSpeech
    Samples <- SomeSamples
    Numerals <- SomeNumerals
INVARIANTS
    CandidateFindsItsConnection
    FramesPaired
    PointerAlive
    CommandsMeant
    MessagesMeant
    WritingMeant
PROPERTIES
    FirstOfferAnswered
\* The process may end, and waits when the websocket is closed.
CHECK_DEADLOCK FALSE
