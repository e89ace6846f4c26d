\* TCP: the network task and the worker send at the same time.
SPECIFICATION Spec
CONSTANTS
    Tasks <- BothTasks
    Senders <- BothTasks
    Framed = FALSE
    Window = 2
    FrameSpace = 2
    Lengths = {1, 2}
    Limits = {2}
    MaxPackets = 2
INVARIANTS
    Intact
