\* A SUBSCRIBE event outlives its client: deferred close, impatient clients.
SPECIFICATION Spec
CONSTANTS
    Conns = {t1, t2}
    NoConn = NoConn
    Topics = {a}
    MAXNUMCLIENTS = 2
    MaxChoices = {}
    MayLowerMax = FALSE
    EventQueueSize = 2
    DeleteQueueSize = 2
    MaxBatch = 1
    SyncClose = FALSE
    Reports = {}
    Patient = FALSE
    MaxClientId = 2
    MaxChained = 0
    MaxAppCalls = 0
INVARIANTS
    NoUseAfterFree
