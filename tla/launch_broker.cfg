SPECIFICATION FairSpec
CONSTANTS
    c1 = c1
    c2 = c2
    Callers = {c1, c2}
    MaxLaunches = 2
    MaxDeaths = 2
    Scopes <- MCScopes
INVARIANTS TypeOK ProcessOnRecord TimerMeansRestarting ReportKept ToldOnce
PROPERTIES EndIsTold
CHECK_DEADLOCK FALSE
