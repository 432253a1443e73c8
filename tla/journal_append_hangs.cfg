SPECIFICATION FairSpec
CONSTANTS
    MaxEvents = 3
    MaxCompacts = 1
    MaxCrashes = 0
    MaxTorn = 0
    HasTranscript = TRUE
CHECK_DEADLOCK FALSE
PROPERTY AppendsDrain
