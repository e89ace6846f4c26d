\* TCP: both tasks send and drain; packets of one and two bytes, two bytes of room.
SPECIFICATION FairSpec
CONSTANTS
    Tasks <- BothTasks
    Senders <- BothTasks
    Framed = FALSE
    Window = 2
    FrameSpace = 2
    Lengths = {1, 2}
    Limits = {1, 2}
    MaxPackets = 3
INVARIANTS
    TypeOK
    OrderKept
    IntactUnlessRaced
    NothingLost
PROPERTIES
    EventuallySent
