\* A connection that holds a whole block, which fits into the BufReader too.
CONSTANTS
    a1 = a1
    a2 = a2
    b = b
    long = long
    junk = junk
    Lines <- SomeLines
    KeyOf <- Keys
    Long = {long}
    Junk = junk
    Replies <- Blocks
    ReadAhead = 8
    SendBuffer = 8
    MaxCommands = 2
SPECIFICATION Spec
CHECK_DEADLOCK FALSE
INVARIANT BinaryEndsAtSize
