SPECIFICATION FairSpec
CONSTANTS
    Keys <- Two
    m_sendmaxcount = 1
    InitChanges <- First
    MaxVersion = 2
    MaxCrash = 2
INVARIANTS CleanMeansSent
