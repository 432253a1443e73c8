SPECIFICATION Spec
CONSTANTS
    MaxJobs = 1
    MaxTranscripts = 1
    MaxMessages = 1
    MaxAborts = 0
    MaxCrashes = 0
INVARIANTS AnswerOrDelivery
CHECK_DEADLOCK FALSE
