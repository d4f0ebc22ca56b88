SPECIFICATION FairSpec
CONSTANTS
    Keys <- Two
    m_sendmaxcount = 1
    InitChanges <- Nothing
    MaxVersion = 2
    MaxCrash = 2
INVARIANTS TypeOK CleanMeansSent DifferenceQueued
PROPERTIES ImplementsRowStore EventuallyDurable
