\* Three commands.  SendBuffer holds all replies but the longest; the data of the longest
\* block goes past ReadAhead.  The client stops at an error, hence no deadlock check.
CONSTANTS
    a1 = a1
    a2 = a2
    b = b
    long = long
    junk = junk
    Lines <- SomeLines
    KeyOf <- Keys
    Long = {long}
    Junk = junk
    Replies <- SomeReplies
    ReadAhead = 4
    SendBuffer = 7
    MaxCommands = 3
SPECIFICATION FairSpec
CHECK_DEADLOCK FALSE
INVARIANTS
    TypeOK
    InStep
    SimpleAsMeant
PROPERTY EveryReplyRead
