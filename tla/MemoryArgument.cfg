\* A line may overrun a buffer, and leaks use up the nodes, hence no deadlock check.
CONSTANTS
    Name <- ShortName
    Texts <- SomeTexts
    MaxArgs = 7
    CommandMax = 20
    ArgsMax = 6
    ArgMax = 22
    Nodes = {1, 2, 3, 4, 5}
    NULL = NULL
    Width = 5
SPECIFICATION Spec
CHECK_DEADLOCK FALSE
INVARIANTS
    HandlerGetsAsked
    FittingLineIsSafe
    ListIsRanges
    NoUseAfterFree
    LeaksLastNodes
