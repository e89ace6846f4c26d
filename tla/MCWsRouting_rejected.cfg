\* One client too many: its events are still routed.
SPECIFICATION Spec
CONSTANTS
    Addresses = {p, q}
    NoAddress = NoAddress
    maxNumClients = 1
    DeleteQueueSize = 2
    MaxWsId = 3
SYMMETRY AddressSymmetry
INVARIANT
    RoutedToOwner
CHECK_DEADLOCK FALSE
