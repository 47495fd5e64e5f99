\* Entries of different sizes, compaction over three levels, crashes and a kill.
SPECIFICATION Spec
CONSTANTS
    k1 = k1
    k2 = k2
    v1 = v1
    Keys = {k1, k2}
    Values = {v1}
    Empty = Empty
    Tombstone = Tombstone
    Weight <- ShortAndLong
    MemLimit = 2
    Wrap = 64
    IdWrap = 64
    MaxLevel = 2
    MaxWrites = 6
    MaxKills = 1
    WalCap = 1
SYMMETRY KeySymmetry
INVARIANTS
    TypeOK
    IInv
    HoldsLatest
    LogIsTail
    ReadsLatestWithoutPairs
    AtMostPairs
PROPERTY
    ImplementsStore
