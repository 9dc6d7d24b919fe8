\* Two callers on one run of two events, one pause, one death.
CONSTANTS
    Callers = {1, 2}
    Handlers = {1, 2}
    Dispatchers = {{1}, {1, 2}}
    Supports <- MCSupports
    Answers <- MCAnswers
    Bindings = {1, 2, 3, 4}
    Held <- MCHeld
    Times = {1, 2}
    MaxEvents = 2
    MaxPauses = 1
    MaxDeaths = 1
SPECIFICATION FairSpec
INVARIANTS
    ProgressHasReceipts
    ReceiptsBacked
    OutputsMatchReceipts
    ReportedOnce
PROPERTIES
    StartedRunsComplete
\* A completed run is the end.
CHECK_DEADLOCK FALSE
