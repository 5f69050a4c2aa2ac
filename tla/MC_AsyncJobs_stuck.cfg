SPECIFICATION Spec
CONSTANTS
    None = None
    x1 = x1
    x2 = x2
    y1 = y1
    Jobs = {j1, j2, j3}
    Ids = {i1}
    Sessions = {x1, y1}
    OwnerOf <- TwoAgents
    MaxRunning = 1
    MaxTranscript = 0
    Happenings = {"stuck"}
SYMMETRY Interchangeable
PROPERTIES
    OwnerRouting
CHECK_DEADLOCK FALSE
