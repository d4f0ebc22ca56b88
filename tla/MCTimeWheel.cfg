SPECIFICATION FairSpec
CONSTANTS
    oneshot = oneshot
    repeating = repeating
    Timers <- Two
    Delays <- Some
    Interval <- Intervals
    Count <- Counts
    Precision = 2
    SlotCount = 2
    Rounds = 3
    MaxNow = 13
    MaxLate = 4
INVARIANTS TypeOK OnTime CountExact
PROPERTIES Fires
CHECK_DEADLOCK FALSE
