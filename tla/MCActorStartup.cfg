SPECIFICATION StartFairSpec
CONSTANTS
    High <- DbCustom
    ReadyKeys <- KeysDbCustom
    Weight = 2
    MaxPost = 2
INVARIANTS StartTypeOK
PROPERTIES StartedDelivers
CHECK_DEADLOCK FALSE
