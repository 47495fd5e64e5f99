\* Requests cut anywhere, several in a read, and words of every kind.
SPECIFICATION Spec
CONSTANTS
    Clients = {c1, c2}
    Keys <- ThreeKeys
    Values <- ThreeValues
    MaxEach = 2
    MaxAsked = 3
    MaxCuts = 1
    Recovered <- EmptyTree
INVARIANTS
    DpdkTypeOK
    ExecutedWereSent
    AnsweredInTurn
PROPERTY
    UndefinedOnlyByUntidy
SYMMETRY Symmetry
\* All that is sent is read at last.
CHECK_DEADLOCK FALSE
