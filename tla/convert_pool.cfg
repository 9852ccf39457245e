SPECIFICATION Spec
CONSTANTS
    f1 = f1
    f2 = f2
    f3 = f3
    w1 = w1
    w2 = w2
    zero = zero
    b1 = b1
    b2 = b2
    Files = {f1}
    Workers = {w1, w2}
    NoWorker = NoWorker
    NoFile = NoFile
    Absent = Absent
    Block = {zero, b1, b2}
    Hole = zero
    Contents <- MCContents
    LowSize = 1
    Blacklist = {}
    HidDirs = {}
    MaxFds = 2
    StackFds = {1, 2}
    Faults <- MCAllFaults
    MaxCrashes = 2
    MaxBlocks = 3
SYMMETRY MCSymmetry
INVARIANTS
    TypeOK
    PublishBeforeDestroy
    OwnTmp
PROPERTY
    PublishedOnce
