SPECIFICATION Spec
CONSTANTS
    Clients = {c1, c2}
    FirstNames <- SharedPrefix
    LaterNames <- LongOrEmpty
    MaxLevels = 3
    MaxFilters = 2
SYMMETRY Symmetry
INVARIANTS
    TypeOK
    RoutesExactly
    FoundOnce
    DeletedOnce
