\* TCP: close() reports at once, errors report twice, timeouts leave the socket open.
SPECIFICATION Spec
CONSTANTS
    Conns = {t1, t2}
    NoConn = NoConn
    Topics = {a}
    MAXNUMCLIENTS = 1
    MaxChoices = {2}
    MayLowerMax = FALSE
    EventQueueSize = 1
    DeleteQueueSize = 2
    MaxBatch = 1
    SyncClose = TRUE
    Reports = {"error", "timeout"}
    Patient = FALSE
    MaxClientId = 2
    MaxChained = 1
    MaxAppCalls = 1
SYMMETRY ConnSymmetry
INVARIANTS
    TypeOK
    RegistryConsistent
    RegistryWalksSafe
    MapAccessExclusive
    CapacityRespected
    SubscriptionsTracked
    OnlyLateSubscribersDangle
