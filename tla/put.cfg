SPECIFICATION TFairSpec
CONSTANTS
    p1 = p1
    p2 = p2
    b1 = b1
    b2 = b2
    Puts = {p1, p2}
    BUFLEN = 2
    Unit = {b1, b2}
    Sources <- MCSources
    Old <- MCOld
    Faults = {"open", "read", "lock", "write", "short"}
    MaxKills = 1
    MaxDbFaults = 1
INVARIANTS
    TypeOK
    TTypeOK
    OneWriter
    WriteLocked
    PutCopied
    BytesCounted
    CreatedRow
    FailureIsClean
PROPERTIES
    Spec
    ToolEnds
