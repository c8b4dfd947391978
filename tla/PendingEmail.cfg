\* Two messages of the chat and one request of the inbox, two conversations,
\* one failing store call and one restart.
SPECIFICATION Spec
CONSTANTS
    Turns = {t1, t2}
    Calls = {c1}
    Convs = 2
    MaxFailures = 1
    MaxCrashes = 1
    None = None
INVARIANTS
    TypeOK
    SentOnceAtATime
    LeaseStands
PROPERTIES
    ResetIsFinal
CHECK_DEADLOCK FALSE
