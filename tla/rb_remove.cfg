\* The removal of a key, from a tree of up to six that is balanced.
SPECIFICATION Spec
CONSTANTS
    MaxKey = 6
    Removable = {1, 2, 3, 4, 5, 6}
    Sizes = {1}
    Wrap = 2
INVARIANT RemovesAreDefined
CHECK_DEADLOCK FALSE
