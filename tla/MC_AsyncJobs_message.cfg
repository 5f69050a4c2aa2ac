SPECIFICATION Spec
CONSTANTS
    None = None
    x1 = x1
    x2 = x2
    y1 = y1
    Jobs = {j1, j2}
    Ids = {i1, i2}
    Sessions = {x1}
    OwnerOf <- OneSession
    MaxRunning = 2
    MaxTranscript = 0
    Happenings = {"message"}
SYMMETRY Interchangeable
INVARIANTS
    NoLostResult
CHECK_DEADLOCK FALSE
