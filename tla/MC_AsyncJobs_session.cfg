SPECIFICATION Spec
CONSTANTS
    None = None
    x1 = x1
    x2 = x2
    y1 = y1
    Jobs = {j1, j2, j3}
    Ids = {i1, i2}
    Sessions = {x1}
    OwnerOf <- OneSession
    MaxRunning = 2
    MaxTranscript = 2
    Happenings = {}
SYMMETRY Interchangeable
INVARIANTS
    JobsTypeOK NoLostResult
PROPERTIES
    NeverShownTwice NoCrossTranscript
CHECK_DEADLOCK FALSE
