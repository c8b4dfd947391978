\* An approval in the chat and one in the inbox.
SPECIFICATION Spec
CONSTANTS
    Turns = {t1, t2}
    Calls = {c1}
    Convs = 1
    MaxFailures = 0
    MaxCrashes = 0
    None = None
SYMMETRY RequestSymmetry
INVARIANT NoConcurrentSend
CHECK_DEADLOCK FALSE
