\* Two requests of one process and one of another.
SPECIFICATION Spec
CONSTANTS
    r1 = r1
    r2 = r2
    r3 = r3
    p1 = p1
    p2 = p2
    Requests = {r1, r2, r3}
    Processes = {p1, p2}
    home <- TwoAndOne
    asks <- AnyAndRivals
    Convs = 4
    Kept = 1
    Cap = 1
    MaxFailures = 1
    None = None
INVARIANTS
    TypeOK
    TurnLockHolds
    SummaryExact
    DashboardCapHolds
    
    NoDeadlock
PROPERTIES
    ImplementsCanonicalThread
    EveryRequestEnds
CHECK_DEADLOCK FALSE
