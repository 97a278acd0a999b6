SPECIFICATION Spec
CONSTANTS
    nmaskbits = 18
    CHUNKSZ = 8
    Alphabet = {"0", "1", "7", "8", "f", " ", ",", "-"}
    MaxText = 5
    MaxPrinted = 3
    MaxObjects = 7
INVARIANTS  HexParsed RoundTrip TreeRead
CHECK_DEADLOCK FALSE
