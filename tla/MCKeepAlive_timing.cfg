\* One second is two ticks, so that the limits are 3 and 6 ticks.
SPECIFICATION Spec
CONSTANTS
    Clients = {c1}
    KeepAlives = {0, 1}
    DefaultKeepAlive = 2
    HalfSecond = 1
    Interval = 1
    MaxGap = 3
    Word = 16
    MaxSilence = 13
INVARIANTS
    TypeOK
    OverstayBounded
PROPERTIES
    DropJustified
