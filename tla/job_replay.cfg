SPECIFICATION FairSpec
CONSTANTS
    MaxJobs = 2
    MaxTranscripts = 1
    MaxMessages = 0
    MaxAborts = 0
    MaxCrashes = 2
INVARIANTS ReplayedOnce
PROPERTIES FinishedIsTold
CHECK_DEADLOCK FALSE
