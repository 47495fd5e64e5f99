\* Two clients of either server, packets in pieces, and an interrupt.
SPECIFICATION Spec
CONSTANTS
    c1 = c1
    c2 = c2
    Clients = {c1, c2}
    Sizes <- OneSize
    Pieces <- TwoPieces
    MaxPackets = 3
    MaxCuts = 2
INVARIANTS
    EchoTypeOK
    RoundTripsAreReal
    MeasuredAtMostRead
    KilledByPieces
PROPERTY
    EchoEnding
\* All clients come to their end.
CHECK_DEADLOCK FALSE
