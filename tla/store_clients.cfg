SPECIFICATION Spec
CONSTANTS
    p1 = p1
    p2 = p2
    f1 = f1
    f2 = f2
    v1 = v1
    Procs = {p1, p2}
    Files = {f1}
    NoFile = NoFile
    Values = {v1}
    Empty = Empty
    Zero = Zero
    Absent = Absent
    Closed = Closed
    MaxFds = 2
    MaxInodes = 2
    MaxOps = 5
    MaxFaults = 1
    CallsFail = TRUE
    Exclusive = TRUE
SYMMETRY MCSymmetry
INVARIANTS
    TypeOK
    MapOpen
    HiddenHasFile
    FilenumRows
    PreadOwn
