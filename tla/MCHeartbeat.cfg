\* Three threads, of which stop gives up waiting for two.
SPECIFICATION FairSpec
CONSTANTS
    MaxStarts = 3
    MaxBeats = 3
    MaxLate = 2
INVARIANTS
    TypeOK
    LeftBehindOnlyByGivingUp
    IdsAreUniqueUnlessGivenUp
PROPERTY ThreadsEnd
CHECK_DEADLOCK FALSE
