\* No symmetry: a property is temporal.
CONSTANTS
    MaxClients = 2
    Fd = {f1, f2}
    NoFd = zero
    MaxBacklog = 1
    MaxUnread = 2
    Requests <- Both
    MaxRequests = 2
SPECIFICATION ServerSpec
INVARIANT UnreadIsUnserved
PROPERTIES
    EveryConnectionOrderly
    EveryRequestServed
