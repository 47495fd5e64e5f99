\* What waits in the stream of the log survives a drop.
SPECIFICATION OrderlySpec
CONSTANTS
    k1 = k1
    k2 = k2
    v1 = v1
    Keys = {k1, k2}
    Values = {v1}
    Empty = Empty
    Tombstone = Tombstone
    Weight <- AllShort
    MemLimit = 1
    Wrap = 64
    IdWrap = 64
    MaxLevel = 2
    MaxWrites = 4
    MaxKills = 0
    WalCap = 2
INVARIANT
    DroppedStaysDropped
