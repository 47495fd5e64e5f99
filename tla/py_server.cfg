\* Three connections on two loops, three requests, cut anywhere, and an interrupt.
SPECIFICATION Spec
CONSTANTS
    c1 = c1
    c2 = c2
    c3 = c3
    l1 = l1
    l2 = l2
    Clients = {c1, c2, c3}
    Keys <- OneKey
    Values <- OneValue
    MaxEach = 2
    MaxAsked = 3
    MaxCuts = 1
    Recovered <- OldValue
    Loops = {l1, l2}
    LoopOf <- TwoOnOne
INVARIANTS
    PyTypeOK
    ExecutedWereSent
    DeletesPerWrite
PROPERTY
    AllDealtWith
\* All requests may be dealt with, or the process at its end.
CHECK_DEADLOCK FALSE
