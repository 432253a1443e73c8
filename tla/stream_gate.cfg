SPECIFICATION FairSpec
CONSTANTS
    MaxEvents = 3
    MaxOpens = 1
    MaxCompacts = 1
    MaxDisconnects = 0
    PageSize = 1
CHECK_DEADLOCK FALSE
INVARIANTS TypeOK ShownIsHistory HoleIsAttended
PROPERTIES HoleEnds OpenEnds
