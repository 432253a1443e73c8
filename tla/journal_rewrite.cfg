SPECIFICATION FairSpec
CONSTANTS
    MaxEvents = 5
    MaxCompacts = 2
    MaxCrashes = 2
    MaxTorn = 1
    HasTranscript = TRUE
CHECK_DEADLOCK FALSE
INVARIANTS TypeOK SingleNumbering WrittenIsReplayable
PROPERTY HandleReturns
