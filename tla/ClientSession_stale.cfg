CONSTANTS
    Requests <- Stale
    Regular = {}
    MaxRequests = 2
    ReadMax = 5
SPECIFICATION Spec
INVARIANT RefusedNotWritten
