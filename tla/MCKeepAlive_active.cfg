\* An active client and the check: instance of the timing run.
SPECIFICATION Spec
CONSTANTS
    Clients = {c1}
    KeepAlives = {0, 1}
    DefaultKeepAlive = 2
    HalfSecond = 1
    Interval = 1
    MaxGap = 3
    Word = 16
    MaxSilence = 13
PROPERTIES
    ActiveStaysConnected
