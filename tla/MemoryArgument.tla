--------------------------- MODULE MemoryArgument ---------------------------
(***************************************************************************)
(* The list of memory ranges a handler makes of its arguments, all but the *)
(* first one, which names the memory: parse_memory_argument,               *)
(* free_memory_argument and get_offset of                                  *)
(* src/generic poll server/generic_poll_server.c, node by node on a heap   *)
(* that outlives the request.                                              *)
(***************************************************************************)
EXTENDS CommandLine, FiniteSetsExt

CONSTANTS
    Nodes,   \* addresses of nodes; bound: requests that leak one
    NULL,
    Width    \* bits of an unsigned int; 32 in the code

ASSUME NodesAssumption == IsFiniteSet(Nodes) /\ NULL \notin Nodes
ASSUME WidthAssumption == Width \in Nat \ {0}

VARIABLES
    heap,      \* the nodes
    live,      \* those malloc has given out and free has not taken back
    tofree,    \* the list, toret in parse
    cur,       \* where the loop over the list is
    i,         \* the argument parse is at, from 0
    long       \* history: lists of two nodes or more

vars == <<pc, lineVars, heap, live, tofree, cur, i, long>>

Empty == [offset |-> 0, size |-> 0, next |-> NULL]

Init ==
    /\ pc = "idle"
    /\ InitLine
    /\ heap = [n \in Nodes |-> Empty]
    /\ live = {}
    /\ tofree = NULL /\ cur = NULL
    /\ i = 0
    /\ long = 0

\* The digits at the start of a text, behind its spaces, in the given base.
Number(text, base) ==
    LET Digit    == [c \in {"1", "2"} |-> IF c = "1" THEN 1 ELSE 2]
        from     == SelectInSeq(text, LAMBDA c : c # " ")
        trimmed  == IF from = 0 THEN <<>> ELSE SubSeq(text, from, Len(text))
        stop     == SelectInSeq(trimmed, LAMBDA c : c \notin DOMAIN Digit)
    IN  FoldLeft(LAMBDA n, c : base * n + Digit[c], 0,
                 IF stop = 0 THEN trimmed ELSE SubSeq(trimmed, 1, stop - 1))

\* Hexadecimal behind a '$' in the first place, decimal otherwise.
get_offset(text) ==
    IF text # <<>> /\ Head(text) = "$" THEN Number(Tail(text), 16) ELSE Number(text, 10)

\* The fields are unsigned int, get_offset returns a size_t.
Value(text) == get_offset(text) % 2 ^ Width

ag == Tail(args)
ac == Len(ag)

Free == CHOOSE n \in Nodes \ live : TRUE

\* Bound: room for the list of this request, a node for each two arguments.
Room == ac \in 0 .. 2 * Cardinality(Nodes \ live) - 1

ParseStart ==
    /\ pc = "execute"
    /\ args # <<>>
    /\ Room
    /\ tofree' = Free /\ cur' = Free
    /\ heap' = [heap EXCEPT ![Free] = Empty]
    /\ live' = live \cup {Free}
    /\ i' = 0
    /\ pc' = "parse"
    /\ UNCHANGED <<lineVars, long>>

Mut_MoreFollows == TRUE       \* mutant: a node too many behind the last size

MoreFollows == i + 1 # ac

\* One argument: an offset, or a size and a node for what follows.
ParseArgument ==
    /\ pc = "parse"
    /\ i < ac
    /\ IF i % 2 = 0
       THEN /\ heap' = [heap EXCEPT ![cur].offset = Value(ag[i + 1])]
            /\ UNCHANGED <<live, cur>>
       ELSE IF MoreFollows
       THEN /\ heap' = [heap EXCEPT ![cur].size = Value(ag[i + 1]), ![cur].next = Free,
                                    ![Free] = Empty]
            /\ live' = live \cup {Free}
            /\ cur' = Free
       ELSE /\ heap' = [heap EXCEPT ![cur].size = Value(ag[i + 1])]
            /\ UNCHANGED <<live, cur>>
    /\ i' = i + 1
    /\ UNCHANGED <<pc, lineVars, tofree, long>>

ParseDone ==
    /\ pc = "parse"
    /\ i = ac
    /\ pc' = "use"
    /\ long' = long + IF heap[tofree].next = NULL THEN 0 ELSE 1
    /\ UNCHANGED <<lineVars, heap, live, tofree, cur, i>>

Mut_FirstFreed == tofree      \* mutant: the loop takes the first node too

FirstFreed == heap[tofree].next

\* free starts behind the first node ...
FreeStart ==
    /\ pc = "use"
    /\ cur' = FirstFreed
    /\ pc' = "free"
    /\ UNCHANGED <<lineVars, heap, live, tofree, i, long>>

Mut_free(n) == live' = live   \* mutant: the node is only unlinked

free(n) == live' = live \ {n}

\* ... goes on as long as the node has a successor ...
Unfinished == cur # NULL /\ heap[cur].next # NULL

FreeNode ==
    /\ pc = "free"
    /\ Unfinished
    /\ free(cur)
    /\ cur' = heap[cur].next
    /\ UNCHANGED <<pc, lineVars, heap, tofree, i, long>>

\* ... and ends with the first node.  The last one of a longer list stays.
FreeHead ==
    /\ pc = "free"
    /\ ~Unfinished
    /\ free(tofree)
    /\ pc' = "done"
    /\ UNCHANGED <<lineVars, heap, tofree, cur, i, long>>

\* The request is over; nobody holds the list any more.
Done ==
    /\ pc = "done" \/ (pc = "execute" /\ args = <<>>)
    /\ pc' = "idle"
    /\ asked' = <<>> /\ command_data' = <<>> /\ cmd' = <<>> /\ args' = <<>>
    /\ heap' = [n \in Nodes |-> Empty]
    /\ tofree' = NULL /\ cur' = NULL
    /\ i' = 0
    /\ UNCHANGED <<overrun, live, long>>

Next ==
    \/ NextLine /\ UNCHANGED <<heap, live, tofree, cur, i, long>>
    \/ ParseStart \/ ParseArgument \/ ParseDone
    \/ FreeStart \/ FreeNode \/ FreeHead
    \/ Done

Spec == Init /\ [][Next]_vars

-----------------------------------------------------------------------------
(* Properties                                                              *)

\* The ranges of the arguments: offset and size in turn, a missing size is 0, and
\* no argument at all is one empty range.
Ranges ==
    [k \in 1 .. IF ac = 0 THEN 1 ELSE (ac + 1) \div 2 |->
       [offset |-> IF ac = 0 THEN 0 ELSE Value(ag[2 * k - 1]),
        size   |-> IF 2 * k > ac THEN 0 ELSE Value(ag[2 * k])]]

\* The list a handler walks has the ranges of its arguments and then ends.
ListIsRanges ==
    pc = "use" =>
      LET node[k \in 1 .. Len(Ranges)] == IF k = 1 THEN tofree ELSE heap[node[k - 1]].next
      IN  /\ \A k \in DOMAIN node : /\ heap[node[k]].offset = Ranges[k].offset
                                    /\ heap[node[k]].size = Ranges[k].size
          /\ heap[node[Len(Ranges)]].next = NULL

\* Whatever the loops look at is allocated: no node is used after free and none is
\* freed twice.
NoUseAfterFree ==
    /\ pc \in {"parse", "use", "free"} => tofree \in live
    /\ pc = "parse" \/ (pc = "free" /\ cur # NULL) => cur \in live

\* Between two requests nothing is allocated but the last node of each list that
\* had two or more.
LeaksLastNodes == pc = "idle" => Cardinality(live) = long

=============================================================================
