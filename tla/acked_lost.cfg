\* What waits in the stream of the log dies with the process.
SPECIFICATION Spec
CONSTANTS
    k1 = k1
    k2 = k2
    v1 = v1
    Keys = {k1, k2}
    Values = {v1}
    Empty = Empty
    Tombstone = Tombstone
    Weight <- AllShort
    MemLimit = 2
    Wrap = 64
    IdWrap = 64
    MaxLevel = 2
    MaxWrites = 4
    MaxKills = 0
    WalCap = 2
PROPERTY
    AcknowledgedKept
