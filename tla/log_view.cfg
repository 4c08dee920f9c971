CONSTANTS
    Requests = {r1}
    MaxLine = 4
    MaxSocket = 2
    LogTail = 1
    Batch = 2
    Keep = 2
    None = None
SPECIFICATION LogViewFairSpec
INVARIANTS LogViewTypeOK ViewContiguous NoLineTwice
PROPERTY ViewFollows
CHECK_DEADLOCK FALSE
