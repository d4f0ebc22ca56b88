SPECIFICATION FairSpec
CONSTANTS
    i1 = i1
    i2 = i2
    w1 = w1
    w2 = w2
    None = None
    Inst = {i1}
    Workers = {w1, w2}
    Erasers <- CreateOnly
    MaxPost = 1
PROPERTIES SwitchCompletes
CHECK_DEADLOCK FALSE
