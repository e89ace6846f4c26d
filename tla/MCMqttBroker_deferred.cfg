\* The design as documented: close() only asks, the network task reports later, and
\* departed clients are destroyed although events keep arriving.
SPECIFICATION FairSpec
CONSTANTS
    Conns = {t1, t2}
    NoConn = NoConn
    Topics = {a}
    MAXNUMCLIENTS = 2
    MaxChoices = {}
    MayLowerMax = FALSE
    EventQueueSize = 2
    DeleteQueueSize = 2
    MaxBatch = 1
    SyncClose = FALSE
    Reports = {}
    Patient = TRUE
    MaxClientId = 2
    MaxChained = 0
    MaxAppCalls = 0
INVARIANTS
    NoUseAfterFree
    SubscriptionsLive
    CleanupScheduled
    CallbacksSafe
PROPERTIES
    ImplementsLifecycle
    EventuallyDestroyed
