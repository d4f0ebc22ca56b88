SPECIFICATION FairSpec
CONSTANTS
    a1 = a1
    a2 = a2
    a3 = a3
    l1 = l1
    l2 = l2
    NoActor = NoActor
    Actors <- ThreeActors
    Layers <- TwoLayers
    LayerOf <- SplitThree
    m_threadcount = 2
    Leaving <- Role
    SuspendActors <- CsvClient
    MaxPost = 2
INVARIANTS TypeOK ActorInOnePlace PoolExact DispatcherAwake 
PROPERTIES Drains
CHECK_DEADLOCK FALSE
