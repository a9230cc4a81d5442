\* Two clients fill the server and a third descriptor is left to refuse with.
\* No symmetry: some properties are temporal.
CONSTANTS
    MaxClients = 2
    Fd = {f1, f2, f3}
    NoFd = zero
    MaxBacklog = 2
    MaxUnread = 1
SPECIFICATION FairSpec
INVARIANTS
    TypeOK
    SlotsMatchPoll
    PollTableFits
    EventsServedOnce
    CallbacksMatch
    ServedAreOpen
PROPERTIES
    RemovedForCause
    NoPeerLeftHanging
    StopHonoured
    GoneClientDropped
    AcceptQueueServed
