SPECIFICATION Spec
CONSTANTS
    MaxEvents = 2
    MaxOpens = 1
    MaxCompacts = 0
    MaxDisconnects = 1
    PageSize = 1
CHECK_DEADLOCK FALSE
INVARIANT WatermarkMatchesScreen
PROPERTY ImplementsFeed
