CONSTANTS
    Requests <- Any
    Regular <- Good
    MaxRequests = 3
    ReadMax = 5
SPECIFICATION FairSpec
INVARIANTS
    TypeOK
    ShallowOnlyForRejected
    NoRequestLeftBehind
PROPERTIES
    ImplementsConnection
    ImplementsFairConnection
    PacedReadReturns
