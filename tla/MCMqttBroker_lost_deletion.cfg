\* More closed connections than the deletion queue holds, one key per report.
SPECIFICATION Spec
CONSTANTS
    Conns = {t1, t2, t3}
    NoConn = NoConn
    Topics = {a}
    MAXNUMCLIENTS = 3
    MaxChoices = {}
    MayLowerMax = FALSE
    EventQueueSize = 2
    DeleteQueueSize = 4
    MaxBatch = 2
    SyncClose = TRUE
    Reports = {"error"}
    Patient = TRUE
    MaxClientId = 3
    MaxChained = 0
    MaxAppCalls = 0
SYMMETRY ConnSymmetry
INVARIANTS
    CleanupScheduled
