CONSTANTS
    Requests <- Writes
    Regular = {}
    MaxRequests = 2
    ReadMax = 5
SPECIFICATION Spec
INVARIANT BlockWithinSize
