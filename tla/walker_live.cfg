SPECIFICATION FairSpec
CONSTANTS
    f1 = f1
    f2 = f2
    w1 = w1
    w2 = w2
    zero = zero
    b1 = b1
    Files = {f1}
    Workers = {w1, w2}
    NoWorker = NoWorker
    NoFile = NoFile
    Absent = Absent
    Block = {zero, b1}
    Hole = zero
    Contents <- MCOneBlock
    LowSize = 1
    Blacklist = {}
    HidDirs = {}
    MaxFds = 2
    StackFds = {}
    Faults = {"exit", "opendir"}
    MaxCrashes = 1
    MaxBlocks = 2
    MaxQueue = 2
PROPERTIES
    CompressedOrExited
    ExitPublished
