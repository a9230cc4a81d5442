CONSTANTS
    MaxClients = 2
    Fd = {f1, f2, f3}
    NoFd = zero
    MaxBacklog = 1
    MaxUnread = 1
SPECIFICATION Spec
SYMMETRY Symmetry
PROPERTY DroppedAreDisconnected
