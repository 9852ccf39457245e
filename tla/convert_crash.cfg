SPECIFICATION Spec
CONSTANTS
    f1 = f1
    f2 = f2
    f3 = f3
    w1 = w1
    w2 = w2
    zero = zero
    b1 = b1
    b2 = b2
    Files = {f1}
    Workers = {w1}
    NoWorker = NoWorker
    NoFile = NoFile
    Absent = Absent
    Block = {zero, b1, b2}
    Hole = zero
    Contents <- MCContents
    LowSize = 1
    Blacklist = {}
    HidDirs = {}
    MaxFds = 2
    StackFds = {}
    Faults = {}
    MaxCrashes = 1
    MaxBlocks = 3
SYMMETRY MCSymmetry
INVARIANT
    NothingLost
