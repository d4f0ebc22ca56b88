SPECIFICATION FairSpec
CONSTANTS
    High <- HighDbCustom
    ReadyKeys <- KeysDbCustom
    Weight = 2
    MaxPost = 3
INVARIANTS TypeOK NoStrandedWork
PROPERTIES ImplementsSerialMailbox ReadyDelivers PrivilegedProgress
CHECK_DEADLOCK FALSE
