SPECIFICATION FairSpec
CONSTANTS
    Byte = {1, 2, 3, 4, 5, 6, 7, 8, 9, 10, 11, 12}
    Noise = 0
    BufSize = 4
    BufLen = 2
    IntHalf = 8
    Contents <- MCContents
    Algorithms = {"zlib", "zstd", "isal", "other", "unreadable"}
    Incompressible <- MCIncompressible
    Written = {9}
    MaxWrites = 1
    Iovs <- MCIovs
    Offsets <- MCOffsets
INVARIANTS
    TypeOK
    ReadExact
    ReadInside
    CopyInside
    AllStored
    GetCopies
PROPERTIES
    TurnMoves
    ReadEnds
