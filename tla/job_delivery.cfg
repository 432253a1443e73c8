SPECIFICATION Spec
CONSTANTS
    MaxJobs = 2
    MaxTranscripts = 2
    MaxMessages = 1
    MaxAborts = 1
    MaxCrashes = 0
INVARIANTS TypeOK NothingForgotten NothingStranded
PROPERTIES InjectedOnce OldResultStaysOut QuietStaysQuiet
CHECK_DEADLOCK FALSE
