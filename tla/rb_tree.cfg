\* Eight keys inserted in any order, three of them removed and written over too.
SPECIFICATION Spec
CONSTANTS
    MaxKey = 8
    Removable = {4, 5, 6}
    Sizes = {1}
    Wrap = 2
INVARIANTS
    TreeTypeOK
    KeysKept
    NewKeysBalanced
    FloorFound
PROPERTY
    FixEnding
\* Where the code's behaviour is undefined the model stops.
CHECK_DEADLOCK FALSE
