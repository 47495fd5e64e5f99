\* Files of up to two entries, written, merged, merged again and searched.
SPECIFICATION Spec
CONSTANTS
    Keys <- FewKeys
    Values <- FewValues
    Hashes <- FewHashes
    SPARSITY_FACTOR = 1
    FlushBits = 5
    MergeBits = 7
    MEMTABLE_SIZE = 4
    MaxEntries = 2
INVARIANTS
    FileTypeOK
    SearchFindsAll
    MergedSoFar
    IndexNotPast
PROPERTY
    MergeEnding
