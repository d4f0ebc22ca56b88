SPECIFICATION FairSpec
CONSTANTS
    i1 = i1
    i2 = i2
    w1 = w1
    w2 = w2
    None = None
    Inst = {i1, i2}
    Workers = {w1, w2}
    Erasers <- Anyone
    MaxPost = 3
INVARIANTS TypeOK StatAgrees TeardownAlone HandedOverClean RouteFinds
PROPERTIES CallbackComes
CHECK_DEADLOCK FALSE
