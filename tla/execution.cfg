\* Three calls of admit, one failing store write, and the venue moving orders on.
CONSTANTS
    e1 = e1
    e2 = e2
    m1 = m1
    x1 = x1
    c1 = c1
    c2 = c2
    c3 = c3
    NoIntent = NoIntent
    Intents = {e1, e2, m1, x1}
    Clients = {c1, c2, c3}
    ClientOf <- MCClientOf
    KindOf <- MCKindOf
    ScopeOf <- MCScopeOf
    Permissions <- MCPermissions
    Checks <- MCChecks
    Times = {1}
    Reports = {"SUBMISSION_REQUESTED", "SUBMITTED_TO_VENUE", "ACKNOWLEDGED_BY_VENUE", "FILLED"}
    MaxCalls = 3
    MaxFaults = 1
SPECIFICATION Spec
INVARIANTS
    TypeOK
    RecordBacked
    RecordsPassedEveryGate
    NoDoubleExposure
    RequestsAreJournaled
    AcceptancesHold
PROPERTIES
    ImplementsLifecycle
\* The coordinator is passive: it rests when nobody calls admit.
CHECK_DEADLOCK FALSE
