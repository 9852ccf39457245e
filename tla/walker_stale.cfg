SPECIFICATION RestartSpec
CONSTANTS
    f1 = f1
    f2 = f2
    w1 = w1
    w2 = w2
    zero = zero
    b1 = b1
    Files = {f1, f2}
    Workers = {w1}
    NoWorker = NoWorker
    NoFile = NoFile
    Absent = Absent
    Block = {zero, b1}
    Hole = zero
    Contents <- MCOneBlock
    LowSize = 1
    Blacklist = {}
    HidDirs = {}
    MaxFds = 2
    StackFds = {}
    Faults = {"exit"}
    MaxCrashes = 0
    MaxBlocks = 2
    MaxQueue = 2
PROPERTY
    AllCompressed
