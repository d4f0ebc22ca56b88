SPECIFICATION Spec
CONSTANTS
    writer = writer
    other = other
    reader = reader
    Server = Server
    Peers <- Three
    Ids <- TwoRows
    Writers <- TwoWriters
    All <- JustReader
    readids <- Reads
    writeids <- Writes
    esend_maxcount = 2
    Stored <- TwoRows
    Leavers <- JustOther
    Unaddressed <- JustOther
    Places <- TwoNodes
    Layouts <- TwoLayouts
    MaxWrite = 1
    MaxRegister = 1
INVARIANTS TypeOK EveryoneKnown LoadComplete ChangeArrives
CHECK_DEADLOCK FALSE
