SPECIFICATION FairSpec
CONSTANTS
    None = None
    x1 = x1
    x2 = x2
    y1 = y1
    Jobs = {j1, j2}
    Ids = {i1, i2}
    Sessions = {x1}
    OwnerOf <- OneSession
    MaxRunning = 2
    MaxTranscript = 1
    Happenings = {"fails", "switch"}
PROPERTIES
    ResultArrives
CHECK_DEADLOCK FALSE
