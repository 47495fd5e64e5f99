\* A memtable is flushed, read back after a restart and searched.
SPECIFICATION Spec
CONSTANTS
    Keys <- FewKeys
    Values <- FewValues
    Hashes <- FewHashes
    SPARSITY_FACTOR = 1
    FlushBits = 5
    MergeBits = 7
    MEMTABLE_SIZE = 4
    MaxEntries = 4
INVARIANT
    RestartFindsAll
