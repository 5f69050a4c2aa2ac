SPECIFICATION Spec
CONSTANTS
    None = None
    x1 = x1
    x2 = x2
    y1 = y1
    Jobs = {j1, j2}
    Ids = {i1}
    Sessions = {x1, x2, y1}
    OwnerOf <- Everyone
    MaxRunning = 1
    MaxTranscript = 0
    Happenings = {"fails", "reuse", "message"}
SYMMETRY Interchangeable
INVARIANTS
    RunningIsFiled OpenSessionHasSink
PROPERTIES
    OwnerRouting
CHECK_DEADLOCK FALSE
