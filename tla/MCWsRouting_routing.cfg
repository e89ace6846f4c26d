\* Room for two of four clients; the deletion queue has a place for each of the two.
SPECIFICATION FairSpec
CONSTANTS
    Addresses = {p, q, r}
    NoAddress = NoAddress
    maxNumClients = 2
    DeleteQueueSize = 2
    MaxWsId = 4
INVARIANTS
    TypeOK
    RoutedWhileRoom
    ClientsReachable
    RoutesOfTheLiving
    DeletionsFit
    OwnedOnce
PROPERTY
    EventuallyReleased
CHECK_DEADLOCK FALSE
