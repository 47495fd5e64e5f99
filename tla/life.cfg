\* A kill at any point, drops, orderly ends, restarts, and readers beside.
SPECIFICATION FairReadSpec
CONSTANTS
    k1 = k1
    k2 = k2
    r1 = r1
    r2 = r2
    Keys = {k1, k2}
    Values = {}
    Empty = Empty
    Tombstone = Tombstone
    Weight <- OneEach
    MemLimit = 1
    Wrap = 64
    IdWrap = 16
    MaxLevel = 2
    MaxWrites = 4
    MaxKills = 1
    WalCap = 2
    Readers = {r1, r2}
INVARIANTS
    LifeTypeOK
    ListsMatchDisk
    LatestSinceDrop
    GetsAreAtomic
PROPERTIES
    KeysSurvive
    SegmentsImmutable
    PutEnding
    RecoveryEnding
