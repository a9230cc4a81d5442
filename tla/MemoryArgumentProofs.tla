------------------------ MODULE MemoryArgumentProofs ------------------------
(***************************************************************************)
(* A request from its line to its list of memory ranges, for every heap,   *)
(* name, text and bound.                                                   *)
(*                                                                         *)
(* The first part follows the list itself: at every moment of a request    *)
(* there are a length and a function from places to addresses, no address  *)
(* in two places, that the fields `next` walk along.  How many arguments   *)
(* parse has read says how long the list is; how far the loop of free has  *)
(* come says which places are still allocated; and as no address is in two *)
(* places, every free takes exactly one node off the count.                *)
(*                                                                         *)
(* The second part follows the line, character by character: Split takes a *)
(* text without semicolons into its last argument whole and opens another  *)
(* one at a semicolon, so it undoes Join; and the spaces the server skips  *)
(* are those in front of the first argument.  What a loop computes is      *)
(* shown by taking the set of the lengths for which it is right: that set  *)
(* has 0 and the successor of each of its members (SetInduction).          *)
(***************************************************************************)
EXTENDS MemoryArgument, FiniteSetTheorems, SequenceTheorems, WellFoundedInduction, TLAPS

\* A list of n nodes from tofree on: node gives the address in each place.
IsList(node, n) ==
    /\ n \in Nat \ {0}
    /\ node \in [1 .. n -> Nodes]
    /\ \A j, k \in 1 .. n : node[j] = node[k] => j = k
    /\ node[1] = tofree
    /\ \A k \in 1 .. n - 1 : heap[node[k]].next = node[k + 1]
    /\ heap[node[n]].next = NULL

\* The nodes hold what the first r arguments say.
HoldsFirst(node, n, r) ==
    \A k \in 1 .. n :
       /\ heap[node[k]].offset = IF 2 * k - 1 <= r THEN Value(ag[2 * k - 1]) ELSE 0
       /\ heap[node[k]].size = IF 2 * k <= r THEN Value(ag[2 * k]) ELSE 0

\* parse is at the last node: fresh, with its offset, or filled by the last
\* argument.  There is a free node for each it may still need.
Building(node, n) ==
    /\ IsList(node, n)
    /\ \A k \in 1 .. n : node[k] \in live
    /\ cur = node[n]
    /\ ac \in Nat /\ i \in Nat /\ i <= ac
    /\ \/ i = 2 * n - 2 /\ (n = 1 \/ i < ac)
       \/ i = 2 * n - 1
       \/ i = 2 * n /\ i = ac
    /\ HoldsFirst(node, n, i)
    /\ ac <= 2 * (Cardinality(Nodes \ live) + n) - 1
    /\ Cardinality(live) = long + n

\* The list a handler has.
Built(node, n) ==
    /\ IsList(node, n)
    /\ \A k \in 1 .. n : node[k] \in live
    /\ n = Len(Ranges)
    /\ ac \in Nat
    /\ HoldsFirst(node, n, ac)
    /\ Cardinality(live) = long + n - IF n = 1 THEN 0 ELSE 1

\* The loop of free is at place m: the first node and those from m on are left.
Freeing(node, n, m) ==
    /\ IsList(node, n)
    /\ node[1] \in live
    /\ \/ n = 1 /\ cur = NULL /\ Cardinality(live) = long + 1
       \/ /\ m \in 2 .. n
          /\ cur = node[m]
          /\ \A k \in m .. n : node[k] \in live
          /\ Cardinality(live) = long + 1 + (n - m)

HeapType == \E V : heap \in [Nodes -> [offset : V, size : V, next : Nodes \cup {NULL}]]

IInv ==
    /\ live \subseteq Nodes
    /\ long \in Nat
    /\ HeapType
    /\ pc = "parse" => \E n : \E node : Building(node, n)
    /\ pc = "use"   => \E n : \E node : Built(node, n)
    /\ pc = "free"  => \E n, m : \E node : Freeing(node, n, m)
    /\ pc \notin {"parse", "use", "free"} => Cardinality(live) = long

-----------------------------------------------------------------------------
(* malloc and free                                                         *)

LEMMA LiveFinite ==
    ASSUME live \subseteq Nodes
    PROVE  /\ IsFiniteSet(live) /\ Cardinality(live) \in Nat
           /\ IsFiniteSet(Nodes \ live) /\ Cardinality(Nodes \ live) \in Nat
BY NodesAssumption, FS_Subset, FS_CardinalityType

\* As long as one is left, malloc gives out a node nobody has.
LEMMA MallocFresh ==
    ASSUME live \subseteq Nodes, Cardinality(Nodes \ live) > 0
    PROVE  /\ Free \in Nodes /\ Free \notin live
           /\ Cardinality(live \cup {Free}) = Cardinality(live) + 1
           /\ Cardinality(Nodes \ (live \cup {Free})) = Cardinality(Nodes \ live) - 1
<1>1. Nodes \ live # {}
  BY FS_EmptySet
<1>2. Free \in Nodes \ live
  BY <1>1 DEF Free
<1>3. Nodes \ (live \cup {Free}) = (Nodes \ live) \ {Free}
  OBVIOUS
<1>4. Cardinality(live \cup {Free}) = Cardinality(live) + 1
  BY <1>2, LiveFinite, FS_AddElement
<1>5. Cardinality((Nodes \ live) \ {Free}) = Cardinality(Nodes \ live) - 1
  BY <1>2, LiveFinite, FS_RemoveElement
<1> QED BY <1>2, <1>3, <1>4, <1>5

LEMMA FreeOne ==
    ASSUME live \subseteq Nodes, NEW n \in live, free(n)
    PROVE  /\ live' \subseteq Nodes
           /\ Cardinality(live') = Cardinality(live) - 1
BY LiveFinite, FS_RemoveElement DEF free

-----------------------------------------------------------------------------
(* parse                                                                   *)

LEMMA ArgumentsStay == args' = args => ag' = ag /\ ac' = ac
BY DEF ag, ac

LEMMA StartBuilds ==
    ASSUME IInv, ParseStart
    PROVE  IInv'
<1>0. ag' = ag /\ ac' = ac
  BY ArgumentsStay DEF ParseStart, lineVars
<1>1. Cardinality(Nodes \ live) \in Nat /\ live \subseteq Nodes /\ long \in Nat
  BY LiveFinite DEF IInv
<1>2. ac \in Nat /\ ac <= 2 * Cardinality(Nodes \ live) - 1
  BY <1>1 DEF ParseStart, Room
<1>3. Cardinality(Nodes \ live) > 0
  BY <1>1, <1>2
<1>4. /\ Free \in Nodes /\ Free \notin live
      /\ Cardinality(live \cup {Free}) = Cardinality(live) + 1
      /\ Cardinality(Nodes \ (live \cup {Free})) = Cardinality(Nodes \ live) - 1
  BY <1>1, <1>3, MallocFresh
<1>5. PICK f : f = Free
  OBVIOUS
<1>6. /\ tofree' = f /\ cur' = f /\ live' = live \cup {f} /\ i' = 0
      /\ heap' = [heap EXCEPT ![f] = Empty]
      /\ pc = "execute" /\ pc' = "parse" /\ long' = long
  BY <1>5 DEF ParseStart
<1>7. HeapType' /\ heap'[f] = Empty
  <2>1. PICK V : heap \in [Nodes -> [offset : V, size : V, next : Nodes \cup {NULL}]]
    BY DEF IInv, HeapType
  <2>2. heap' \in [Nodes -> [offset : V \cup {0}, size : V \cup {0}, next : Nodes \cup {NULL}]]
    BY <1>4, <1>5, <1>6, <2>1 DEF Empty
  <2> QED BY <1>4, <1>5, <1>6, <2>1, <2>2 DEF HeapType
<1> DEFINE node == [k \in 1 .. 1 |-> f]
<1>a. /\ node \in [1 .. 1 -> Nodes] /\ node[1] = f
      /\ \A k \in 1 .. 1 : k = 1
      /\ 1 \in 1 .. 1 /\ 1 .. (1 - 1) = {}
  BY <1>4, <1>5
<1> HIDE DEF node
<1>8. IsList(node, 1)'
  BY <1>6, <1>7, <1>a DEF IsList, Empty
<1>9. HoldsFirst(node, 1, 0)'
  BY <1>7, <1>a DEF HoldsFirst, Empty
<1>10. Cardinality(live') = long' + 1 /\ ac' <= 2 * (Cardinality(Nodes \ live') + 1) - 1
  BY <1>0, <1>1, <1>2, <1>4, <1>5, <1>6 DEF IInv
<1>11. Building(node, 1)'
  BY <1>0, <1>2, <1>6, <1>8, <1>9, <1>10, <1>a DEF Building
<1> QED BY <1>1, <1>4, <1>5, <1>6, <1>7, <1>11 DEF IInv

\* The field of the last node that the next argument fills.
LEMMA ArgumentBuilds ==
    ASSUME IInv, ParseArgument
    PROVE  IInv'
<1>0. /\ ag' = ag /\ ac' = ac /\ pc = "parse" /\ pc' = "parse" /\ i < ac /\ i' = i + 1
      /\ tofree' = tofree /\ long' = long
  BY ArgumentsStay DEF ParseArgument, lineVars
<1>1. PICK n, node : Building(node, n)
  BY <1>0 DEF IInv
<1>2. /\ n \in Nat \ {0} /\ i \in Nat /\ ac \in Nat /\ cur = node[n]
      /\ node \in [1 .. n -> Nodes]
      /\ \A j, k \in 1 .. n : node[j] = node[k] => j = k
      /\ node[1] = tofree
      /\ \A k \in 1 .. n - 1 : heap[node[k]].next = node[k + 1]
      /\ heap[node[n]].next = NULL
      /\ \A k \in 1 .. n : node[k] \in live
      /\ n \in 1 .. n
  BY <1>1 DEF Building, IsList
<1>3. /\ live \subseteq Nodes /\ long \in Nat
      /\ Cardinality(live) \in Nat /\ Cardinality(Nodes \ live) \in Nat
      /\ Cardinality(live) = long + n
      /\ ac <= 2 * (Cardinality(Nodes \ live) + n) - 1
  BY <1>1, LiveFinite DEF IInv, Building
<1>4. PICK V : heap \in [Nodes -> [offset : V, size : V, next : Nodes \cup {NULL}]]
  BY DEF IInv, HeapType
<1>5. PICK v : v = Value(ag[i + 1])
  OBVIOUS
<1>6. CASE i % 2 = 0
  <2>1. i = 2 * n - 2
    BY <1>0, <1>1, <1>2, <1>6 DEF Building
  <2>2. heap' = [heap EXCEPT ![node[n]].offset = v] /\ UNCHANGED <<live, cur>>
    BY <1>2, <1>5, <1>6 DEF ParseArgument
  <2>3. /\ heap' \in [Nodes -> [offset : V \cup {v}, size : V \cup {v}, next : Nodes \cup {NULL}]]
        /\ \A m \in Nodes : /\ heap'[m].offset = IF m = node[n] THEN v ELSE heap[m].offset
                            /\ heap'[m].size = heap[m].size
                            /\ heap'[m].next = heap[m].next
    BY <1>2, <1>4, <2>2
  <2>4. IsList(node, n)'
    BY <1>0, <1>2, <2>3 DEF IsList
  <2>5. HoldsFirst(node, n, i)'
    <3> SUFFICES ASSUME NEW k \in 1 .. n
                 PROVE  /\ heap'[node[k]].offset
                             = IF 2 * k - 1 <= i + 1 THEN Value(ag[2 * k - 1]) ELSE 0
                        /\ heap'[node[k]].size
                             = IF 2 * k <= i + 1 THEN Value(ag[2 * k]) ELSE 0
      BY <1>0 DEF HoldsFirst
    <3>1. /\ heap[node[k]].offset = IF 2 * k - 1 <= i THEN Value(ag[2 * k - 1]) ELSE 0
          /\ heap[node[k]].size = IF 2 * k <= i THEN Value(ag[2 * k]) ELSE 0
      BY <1>1 DEF Building, HoldsFirst
    <3>2. CASE k = n
      <4>1. 2 * k - 1 = i + 1 /\ ~(2 * k <= i + 1)
        BY <1>2, <2>1, <3>2
      <4> QED BY <1>2, <1>5, <2>1, <2>3, <3>1, <3>2, <4>1
    <3>3. CASE k # n
      <4>1. 2 * k - 1 <= i /\ 2 * k <= i
        BY <1>2, <2>1, <3>3
      <4> QED BY <1>2, <2>3, <3>1, <3>3, <4>1
    <3> QED BY <3>2, <3>3
  <2>6. Building(node, n)'
    BY <1>0, <1>2, <1>3, <2>1, <2>2, <2>4, <2>5 DEF Building
  <2> QED BY <1>0, <1>3, <2>2, <2>3, <2>6 DEF IInv, HeapType
<1>7. CASE i % 2 # 0
  <2>1. i = 2 * n - 1
    BY <1>0, <1>1, <1>2, <1>7 DEF Building
  \* What both branches have in common: the size.
  <2>2. ASSUME \A m \in live : /\ heap'[m].offset = heap[m].offset
                              /\ heap'[m].size = IF m = node[n] THEN v ELSE heap[m].size,
               NEW k \in 1 .. n
        PROVE  /\ heap'[node[k]].offset
                    = IF 2 * k - 1 <= i + 1 THEN Value(ag[2 * k - 1]) ELSE 0
               /\ heap'[node[k]].size
                    = IF 2 * k <= i + 1 THEN Value(ag[2 * k]) ELSE 0
    <3>1. /\ heap[node[k]].offset = IF 2 * k - 1 <= i THEN Value(ag[2 * k - 1]) ELSE 0
          /\ heap[node[k]].size = IF 2 * k <= i THEN Value(ag[2 * k]) ELSE 0
      BY <1>1 DEF Building, HoldsFirst
    <3>2. 2 * k - 1 <= i /\ 2 * k - 1 <= i + 1 /\ 2 * k <= i + 1 /\ node[k] \in live
      BY <1>2, <2>1
    <3>3. CASE k = n
      <4>1. 2 * k = i + 1
        BY <1>2, <2>1, <3>3
      <4> QED BY <1>2, <1>5, <2>2, <3>1, <3>2, <3>3, <4>1
    <3>4. CASE k # n
      <4>1. 2 * k <= i /\ node[k] # node[n]
        BY <1>2, <2>1, <3>4
      <4> QED BY <2>2, <3>1, <3>2, <4>1
    <3> QED BY <3>3, <3>4
  <2>3. CASE ~MoreFollows
    <3>1. heap' = [heap EXCEPT ![node[n]].size = v] /\ UNCHANGED <<live, cur>>
      BY <1>2, <1>5, <1>7, <2>3 DEF ParseArgument
    <3>2. /\ heap' \in [Nodes -> [offset : V \cup {v}, size : V \cup {v}, next : Nodes \cup {NULL}]]
          /\ \A m \in Nodes : /\ heap'[m].offset = heap[m].offset
                              /\ heap'[m].size = IF m = node[n] THEN v ELSE heap[m].size
                              /\ heap'[m].next = heap[m].next
      BY <1>2, <1>4, <3>1
    <3>3. IsList(node, n)'
      BY <1>0, <1>2, <3>2 DEF IsList
    <3>4. HoldsFirst(node, n, i)'
      BY <1>0, <1>3, <2>2, <3>2 DEF HoldsFirst
    <3>5. i + 1 = ac
      BY <2>3 DEF MoreFollows
    <3>6. Building(node, n)'
      BY <1>0, <1>2, <1>3, <2>1, <3>1, <3>3, <3>4, <3>5 DEF Building
    <3> QED BY <1>0, <1>3, <3>1, <3>2, <3>6 DEF IInv, HeapType
  <2>4. CASE MoreFollows
    <3>1. i + 1 < ac
      BY <1>0, <1>2, <2>4 DEF MoreFollows
    <3>2. Cardinality(Nodes \ live) > 0
      BY <1>2, <1>3, <2>1, <3>1
    <3>3. /\ Free \in Nodes /\ Free \notin live
          /\ Cardinality(live \cup {Free}) = Cardinality(live) + 1
          /\ Cardinality(Nodes \ (live \cup {Free})) = Cardinality(Nodes \ live) - 1
      BY <1>3, <3>2, MallocFresh
    <3>4. PICK f : f = Free
      OBVIOUS
    <3> DEFINE longer == [k \in 1 .. n + 1 |-> IF k = n + 1 THEN f ELSE node[k]]
    <3>5. /\ heap' = [heap EXCEPT ![node[n]].size = v, ![node[n]].next = f, ![f] = Empty]
          /\ live' = live \cup {f} /\ cur' = f
      BY <1>2, <1>5, <1>7, <2>4, <3>4 DEF ParseArgument
    <3>6. /\ heap' \in [Nodes -> [offset : V \cup {0, v}, size : V \cup {0, v},
                                  next : Nodes \cup {NULL}]]
          /\ \A m \in Nodes \ {f} : /\ heap'[m].offset = heap[m].offset
                                    /\ heap'[m].size = IF m = node[n] THEN v ELSE heap[m].size
                                    /\ heap'[m].next = IF m = node[n] THEN f ELSE heap[m].next
          /\ heap'[f] = Empty
      <4>1. PICK p \in Nodes : p = node[n] /\ p # f
        BY <1>2, <3>3, <3>4
      <4> DEFINE Node == [offset : V \cup {0, v}, size : V \cup {0, v}, next : Nodes \cup {NULL}]
      <4>2. PICK q : q = [heap[p] EXCEPT !.size = v, !.next = f]
        OBVIOUS
      <4>3. q \in Node /\ q.offset = heap[p].offset /\ q.size = v /\ q.next = f
        <5>1. PICK e \in [offset : V, size : V, next : Nodes \cup {NULL}] : heap[p] = e
          BY <1>4
        <5> DEFINE d == [e EXCEPT !.size = v]
        <5>2. d = [offset |-> e.offset, size |-> v, next |-> e.next]
          BY <5>1
        <5>3. [d EXCEPT !.next = f] = [offset |-> e.offset, size |-> v, next |-> f]
          <6> HIDE DEF d
          <6> QED BY <5>2
        <5>4. q = [offset |-> e.offset, size |-> v, next |-> f]
          BY <4>2, <5>1, <5>3, Zenon
        <5> HIDE DEF d
        <5> QED BY <3>3, <3>4, <5>1, <5>4
      <4>4. \A m \in Nodes : heap'[m] = IF m = f THEN Empty ELSE IF m = p THEN q ELSE heap[m]
        BY <1>4, <3>3, <3>4, <3>5, <4>1, <4>2
      <4>5. Empty \in Node /\ \A m \in Nodes : heap[m] \in Node
        BY <1>4 DEF Empty
      <4>6. heap' = [m \in Nodes |-> heap'[m]]
        BY <1>4, <3>5
      <4> HIDE DEF Node
      <4>7. heap' \in [Nodes -> Node]
        BY <4>3, <4>4, <4>5, <4>6
      <4>8. \A m \in Nodes \ {f} : /\ heap'[m].offset = heap[m].offset
                                   /\ heap'[m].size = IF m = p THEN v ELSE heap[m].size
                                   /\ heap'[m].next = IF m = p THEN f ELSE heap[m].next
        BY <4>3, <4>4
      <4> QED BY <3>3, <3>4, <4>1, <4>4, <4>7, <4>8 DEF Node
    <3>7. /\ longer \in [1 .. n + 1 -> Nodes]
          /\ \A k \in 1 .. n : k \in 1 .. n + 1 /\ longer[k] = node[k] /\ node[k] # f
          /\ n + 1 \in 1 .. n + 1 /\ longer[n + 1] = f
          /\ \A k \in 1 .. n + 1 : k = n + 1 \/ k \in 1 .. n
      BY <1>2, <3>3, <3>4
    <3> HIDE DEF longer
    <3>8. IsList(longer, n + 1)'
      <4>1. \A j, k \in 1 .. n + 1 : longer[j] = longer[k] => j = k
        BY <1>2, <3>7
      <4>2. ASSUME NEW k \in 1 .. n PROVE heap'[longer[k]].next = longer[k + 1]
        <5>1. CASE k = n
          BY <1>2, <3>6, <3>7, <5>1
        <5>2. CASE k # n
          <6>1. k \in 1 .. n - 1 /\ k + 1 \in 1 .. n /\ node[k] # node[n]
            BY <1>2, <5>2
          <6> QED BY <1>2, <3>6, <3>7, <6>1
        <5> QED BY <5>1, <5>2
      <4>3. longer[1] = tofree'
        BY <1>0, <1>2, <3>7
      <4>4. heap'[longer[n + 1]].next = NULL
        BY <3>6, <3>7 DEF Empty
      <4>5. (n + 1) - 1 = n /\ n + 1 \in Nat \ {0}
        BY <1>2
      <4> QED BY <3>7, <4>1, <4>2, <4>3, <4>4, <4>5 DEF IsList
    <3>9. HoldsFirst(longer, n + 1, i)'
      <4> SUFFICES ASSUME NEW k \in 1 .. n + 1
                   PROVE  /\ heap'[longer[k]].offset
                               = IF 2 * k - 1 <= i + 1 THEN Value(ag[2 * k - 1]) ELSE 0
                          /\ heap'[longer[k]].size
                               = IF 2 * k <= i + 1 THEN Value(ag[2 * k]) ELSE 0
        BY <1>0 DEF HoldsFirst
      <4>1. CASE k = n + 1
        <5>1. ~(2 * k - 1 <= i + 1) /\ ~(2 * k <= i + 1)
          BY <1>2, <2>1, <4>1
        <5> QED BY <3>6, <3>7, <4>1, <5>1 DEF Empty
      <4>2. CASE k \in 1 .. n
        <5>1. \A m \in live : /\ heap'[m].offset = heap[m].offset
                              /\ heap'[m].size = IF m = node[n] THEN v ELSE heap[m].size
          BY <1>3, <3>3, <3>4, <3>6
        <5> QED BY <2>2, <3>7, <4>2, <5>1
      <4> QED BY <3>7, <4>1, <4>2
    <3>10. \A k \in 1 .. n + 1 : longer[k] \in live'
      BY <1>2, <3>5, <3>7
    <3>11. /\ Cardinality(live') = long' + (n + 1)
           /\ ac' <= 2 * (Cardinality(Nodes \ live') + (n + 1)) - 1
      BY <1>0, <1>2, <1>3, <3>3, <3>4, <3>5, SMTT(30)
    <3>12. i' = 2 * (n + 1) - 2 /\ i' < ac' /\ i' \in Nat /\ ac' \in Nat
      BY <1>0, <1>2, <2>1, <3>1
    <3>13. cur' = longer[n + 1]
      BY <3>5, <3>7
    <3>14. Building(longer, n + 1)'
      BY <3>8, <3>9, <3>10, <3>11, <3>12, <3>13 DEF Building
    <3> QED BY <1>0, <1>3, <3>3, <3>4, <3>5, <3>6, <3>14 DEF IInv, HeapType
  <2> QED BY <2>3, <2>4
<1> QED BY <1>6, <1>7

LEMMA RangesLength ==
    ASSUME ac \in Nat
    PROVE  /\ Len(Ranges) = IF ac = 0 THEN 1 ELSE (ac + 1) \div 2
           /\ \A k \in 1 .. Len(Ranges) :
                 Ranges[k] = [offset |-> IF ac = 0 THEN 0 ELSE Value(ag[2 * k - 1]),
                              size   |-> IF 2 * k > ac THEN 0 ELSE Value(ag[2 * k])]
BY DEF Ranges

LEMMA ParseEnds ==
    ASSUME IInv, ParseDone
    PROVE  IInv'
<1>0. /\ ag' = ag /\ ac' = ac /\ pc = "parse" /\ pc' = "use" /\ i = ac
      /\ UNCHANGED <<heap, live, tofree, cur, args>>
      /\ long' = long + IF heap[tofree].next = NULL THEN 0 ELSE 1
  BY ArgumentsStay DEF ParseDone, lineVars
<1>1. PICK n, node : Building(node, n)
  BY <1>0 DEF IInv
<1>2. IsList(node, n) /\ n \in Nat \ {0} /\ ac \in Nat /\ long \in Nat
  BY <1>1 DEF Building, IsList, IInv
<1>3. ac \in {2 * n - 1, 2 * n} \/ (ac = 0 /\ n = 1)
  BY <1>0, <1>1, <1>2 DEF Building
<1>4. n = Len(Ranges)
  <2>1. n = IF ac = 0 THEN 1 ELSE (ac + 1) \div 2
    BY <1>2, <1>3
  <2> QED BY <1>2, <2>1, RangesLength
<1>5. Len(Ranges') = Len(Ranges)
  BY <1>0, <1>2, RangesLength DEF Ranges
<1>6. heap[tofree].next = NULL <=> n = 1
  <2>1. CASE n = 1
    BY <1>2, <2>1 DEF IsList
  <2>2. CASE n # 1
    <3>1. 1 \in 1 .. n - 1 /\ 2 \in 1 .. n
      BY <1>2, <2>2
    <3>2. heap[tofree].next = node[2] /\ node[2] \in Nodes
      BY <1>2, <3>1 DEF IsList
    <3> QED BY <2>2, <3>2, NodesAssumption
  <2> QED BY <2>1, <2>2
<1>7. Cardinality(live) = long' + n - IF n = 1 THEN 0 ELSE 1
  BY <1>0, <1>1, <1>2, <1>6 DEF Building
<1>8. IsList(node, n)' /\ HoldsFirst(node, n, ac)'
  BY <1>0, <1>1, <1>2 DEF Building, IsList, HoldsFirst
<1>9. Built(node, n)'
  BY <1>0, <1>1, <1>2, <1>4, <1>5, <1>7, <1>8 DEF Built, Building
<1> QED BY <1>0, <1>2, <1>9 DEF IInv, HeapType

-----------------------------------------------------------------------------
(* free                                                                    *)

LEMMA FreeStarts ==
    ASSUME IInv, FreeStart
    PROVE  IInv'
<1>0. /\ pc = "use" /\ pc' = "free" /\ cur' = heap[tofree].next
      /\ UNCHANGED <<heap, live, tofree, long>>
  BY DEF FreeStart, FirstFreed
<1>1. PICK n, node : Built(node, n)
  BY <1>0 DEF IInv
<1>2. IsList(node, n) /\ n \in Nat \ {0} /\ long \in Nat
  BY <1>1 DEF Built, IsList, IInv
<1>3. IsList(node, n)'
  BY <1>0, <1>2 DEF IsList
<1>4. Freeing(node, n, 2)'
  <2>1. CASE n = 1
    BY <1>0, <1>1, <1>2, <1>3, <2>1 DEF Freeing, Built, IsList
  <2>2. CASE n # 1
    <3>1. 1 \in 1 .. n - 1 /\ 2 \in 2 .. n /\ \A k \in 2 .. n : k \in 1 .. n
      BY <1>2, <2>2
    <3>2. cur' = node[2]
      BY <1>0, <1>2, <3>1 DEF IsList
    <3>3. Cardinality(live') = long' + 1 + (n - 2)
      BY <1>0, <1>1, <1>2, <2>2 DEF Built
    <3>4. node[1] \in live' /\ \A k \in 2 .. n : node[k] \in live'
      BY <1>0, <1>1, <1>2, <3>1 DEF Built
    <3> QED BY <1>3, <3>1, <3>2, <3>3, <3>4 DEF Freeing
  <2> QED BY <2>1, <2>2
<1> QED BY <1>0, <1>2, <1>4 DEF IInv, HeapType

LEMMA FreeGoesOn ==
    ASSUME IInv, FreeNode
    PROVE  IInv'
<1>0. /\ pc = "free" /\ pc' = "free" /\ cur # NULL /\ heap[cur].next # NULL
      /\ free(cur) /\ cur' = heap[cur].next
      /\ UNCHANGED <<heap, tofree, long>>
  BY DEF FreeNode, Unfinished
<1>1. PICK n, m, node : Freeing(node, n, m)
  BY <1>0 DEF IInv
<1>2. /\ IsList(node, n) /\ n \in Nat \ {0} /\ long \in Nat
      /\ m \in 2 .. n /\ cur = node[m] /\ node[1] \in live
      /\ \A k \in m .. n : node[k] \in live
      /\ Cardinality(live) = long + 1 + (n - m)
  BY <1>0, <1>1 DEF Freeing, IsList, IInv
<1>3. m # n
  BY <1>0, <1>2 DEF IsList
<1>4. /\ m \in 1 .. n - 1 /\ m + 1 \in 2 .. n /\ m \in m .. n /\ 1 \in 1 .. n /\ 1 # m
      /\ \A k \in m + 1 .. n : k \in m .. n /\ k \in 1 .. n /\ k # m
  BY <1>2, <1>3
<1>5. cur' = node[m + 1]
  BY <1>0, <1>2, <1>4 DEF IsList
<1>6. live' \subseteq Nodes /\ Cardinality(live') = Cardinality(live) - 1
  BY <1>0, <1>2, <1>4, FreeOne DEF IInv
<1>7. node[1] \in live' /\ \A k \in m + 1 .. n : node[k] \in live'
  BY <1>0, <1>2, <1>4 DEF free, IsList
<1>8. Cardinality(live') = long' + 1 + (n - (m + 1))
  BY <1>0, <1>2, <1>6
<1>9. IsList(node, n)'
  BY <1>0, <1>2 DEF IsList
<1>10. Freeing(node, n, m + 1)'
  BY <1>4, <1>5, <1>7, <1>8, <1>9 DEF Freeing
<1> QED BY <1>0, <1>2, <1>6, <1>10 DEF IInv, HeapType

LEMMA FreeEnds ==
    ASSUME IInv, FreeHead
    PROVE  IInv'
<1>0. /\ pc = "free" /\ pc' = "done" /\ (cur = NULL \/ heap[cur].next = NULL)
      /\ free(tofree) /\ UNCHANGED <<heap, long>>
  BY DEF FreeHead, Unfinished
<1>1. PICK n, m, node : Freeing(node, n, m)
  BY <1>0 DEF IInv
<1>2. IsList(node, n) /\ n \in Nat \ {0} /\ long \in Nat /\ tofree = node[1] /\ tofree \in live
  BY <1>1 DEF Freeing, IsList, IInv
<1>3. Cardinality(live) = long + 1
  <2>1. CASE m \in 2 .. n /\ cur = node[m] /\ Cardinality(live) = long + 1 + (n - m)
    <3>1. m = n
      <4> SUFFICES ASSUME m # n PROVE FALSE
        OBVIOUS
      <4>1. m \in 1 .. n - 1 /\ m + 1 \in 1 .. n /\ m \in 1 .. n
        BY <1>2, <2>1
      <4>2. heap[cur].next = node[m + 1] /\ node[m + 1] \in Nodes /\ cur \in Nodes
        BY <1>2, <2>1, <4>1 DEF IsList
      <4> QED BY <1>0, <4>2, NodesAssumption
    <3> QED BY <1>2, <2>1, <3>1
  <2> QED BY <1>1, <2>1 DEF Freeing
<1>4. live' \subseteq Nodes /\ Cardinality(live') = Cardinality(live) - 1
  BY <1>0, <1>2, FreeOne DEF IInv
<1>5. Cardinality(live') = long'
  BY <1>0, <1>2, <1>3, <1>4
<1> QED BY <1>0, <1>2, <1>4, <1>5 DEF IInv, HeapType

-----------------------------------------------------------------------------
(* The inductive invariant                                                 *)

LEMMA InitIInv == Init => IInv
<1> SUFFICES ASSUME Init PROVE IInv
  OBVIOUS
<1>1. heap \in [Nodes -> [offset : {0}, size : {0}, next : Nodes \cup {NULL}]]
  BY DEF Init, Empty
<1>2. Cardinality(live) = 0
  BY FS_EmptySet DEF Init
<1> QED BY <1>1, <1>2 DEF Init, IInv, HeapType

LEMMA StepIInv == IInv /\ [Next]_vars => IInv'
<1> SUFFICES ASSUME IInv, [Next]_vars PROVE IInv'
  OBVIOUS
<1>1. CASE NextLine /\ UNCHANGED <<heap, live, tofree, cur, i, long>>
  <2>1. /\ pc \notin {"parse", "use", "free"} /\ pc' \notin {"parse", "use", "free"}
        /\ UNCHANGED <<heap, live, long>>
    BY <1>1 DEF NextLine, process_command, execute_command
  <2> QED BY <2>1 DEF IInv, HeapType
<1>2. CASE Done
  <2>1. /\ pc \notin {"parse", "use", "free"} /\ pc' = "idle"
        /\ heap' = [n \in Nodes |-> Empty] /\ UNCHANGED <<live, long>>
    BY <1>2 DEF Done
  <2>2. heap' \in [Nodes -> [offset : {0}, size : {0}, next : Nodes \cup {NULL}]]
    BY <2>1 DEF Empty
  <2> QED BY <2>1, <2>2 DEF IInv, HeapType
<1>3. CASE UNCHANGED vars
  <2>1. /\ UNCHANGED <<pc, heap, live, tofree, cur, i, long>>
        /\ ag' = ag /\ ac' = ac /\ Ranges' = Ranges
    BY <1>3 DEF vars, lineVars, ag, ac, Ranges
  <2>2. ASSUME NEW n, NEW node
        PROVE  /\ Building(node, n) => Building(node, n)'
               /\ Built(node, n) => Built(node, n)'
    BY <2>1 DEF Building, Built, IsList, HoldsFirst
  <2>3. ASSUME NEW n, NEW m, NEW node, Freeing(node, n, m) PROVE Freeing(node, n, m)'
    BY <2>1, <2>3 DEF Freeing, IsList
  <2> QED BY <2>1, <2>2, <2>3 DEF IInv, HeapType
<1> QED
  BY <1>1, <1>2, <1>3, StartBuilds, ArgumentBuilds, ParseEnds, FreeStarts, FreeGoesOn, FreeEnds
     DEF Next

LEMMA IInvHolds == Spec => []IInv
BY InitIInv, StepIInv, PTL DEF Spec

\* Neither parse nor free looks at a node it does not own, and free takes none twice.
THEOREM OnlyOwnNodesTouched == Spec => []NoUseAfterFree
<1>1. IInv => NoUseAfterFree
  <2> SUFFICES ASSUME IInv PROVE NoUseAfterFree
    OBVIOUS
  <2>1. CASE pc = "parse"
    <3>1. PICK n, node : Building(node, n)
      BY <2>1 DEF IInv
    <3> QED BY <2>1, <3>1 DEF Building, IsList, NoUseAfterFree
  <2>2. CASE pc = "use"
    <3>1. PICK n, node : Built(node, n)
      BY <2>2 DEF IInv
    <3> QED BY <2>2, <3>1 DEF Built, IsList, NoUseAfterFree
  <2>3. CASE pc = "free"
    <3>1. PICK n, m, node : Freeing(node, n, m)
      BY <2>3 DEF IInv
    <3>2. tofree \in live
      BY <3>1 DEF Freeing, IsList
    <3>3. cur # NULL => cur \in live
      <4>1. CASE m \in 2 .. n /\ cur = node[m] /\ \A k \in m .. n : node[k] \in live
        <5>1. n \in Nat
          BY <3>1 DEF Freeing, IsList
        <5> QED BY <4>1, <5>1
      <4> QED BY <3>1, <4>1 DEF Freeing
    <3> QED BY <2>3, <3>2, <3>3 DEF NoUseAfterFree
  <2> QED BY <2>1, <2>2, <2>3 DEF NoUseAfterFree
<1> QED BY IInvHolds, <1>1, PTL

\* What free leaves allocated is one node for each list of two or more, no less and
\* no more.
THEOREM ExactlyLastNodesLeak == Spec => []LeaksLastNodes
<1>1. IInv => LeaksLastNodes
  BY DEF IInv, LeaksLastNodes
<1> QED BY IInvHolds, <1>1, PTL

\* A list that is walked as ListIsRanges walks it visits the places in order: the
\* first one where it did not would have one before it where it did.
LEMMA WalkFollowsList ==
    ASSUME NEW node, NEW n, IsList(node, n), NEW w,
           w = [k \in 1 .. n |-> IF k = 1 THEN tofree ELSE heap[w[k - 1]].next]
    PROVE  \A k \in 1 .. n : w[k] = node[k]
<1> DEFINE Astray == {k \in 1 .. n : w[k] # node[k]}
<1> SUFFICES ASSUME Astray # {} PROVE FALSE
  OBVIOUS
<1>1. n \in Nat \ {0} /\ Astray \subseteq Nat
  BY DEF IsList
<1>2. PICK k \in Astray : \A j \in Astray : ~(<<j, k>> \in OpToRel(<, Nat))
  BY <1>1, WFMin, NatLessThanWellFounded
<1>3. k \in 1 .. n /\ w[k] # node[k] /\ \A j \in Astray : ~(j < k)
  BY <1>1, <1>2 DEF OpToRel
<1>4. k # 1
  BY <1>1, <1>3 DEF IsList
<1>5. k - 1 \in 1 .. n - 1 /\ k - 1 \in 1 .. n /\ k - 1 < k /\ (k - 1) + 1 = k
  BY <1>1, <1>3, <1>4
<1>6. w[k - 1] = node[k - 1]
  BY <1>3, <1>5
<1>7. w[k] = heap[w[k - 1]].next
  BY <1>3, <1>4
<1>8. heap[node[k - 1]].next = node[k]
  BY <1>5 DEF IsList
<1> QED BY <1>3, <1>6, <1>7, <1>8

\* A handler walks the ranges of its arguments, in their order and no others.
THEOREM HandlerWalksRanges == Spec => []ListIsRanges
<1>1. IInv => ListIsRanges
  <2> SUFFICES ASSUME IInv, pc = "use" PROVE ListIsRanges
    BY DEF ListIsRanges
  <2>1. PICK n, nd : Built(nd, n)
    BY DEF IInv
  <2>2. IsList(nd, n) /\ n \in Nat \ {0} /\ n = Len(Ranges) /\ ac \in Nat /\ HoldsFirst(nd, n, ac)
    BY <2>1 DEF Built, IsList
  <2> DEFINE node[k \in 1 .. Len(Ranges)] == IF k = 1 THEN tofree ELSE heap[node[k - 1]].next
  <2>3. nd = [k \in 1 .. n |-> IF k = 1 THEN tofree ELSE heap[nd[k - 1]].next]
    <3> SUFFICES ASSUME NEW k \in 1 .. n
                 PROVE  nd[k] = IF k = 1 THEN tofree ELSE heap[nd[k - 1]].next
      BY <2>2 DEF IsList
    <3>1. CASE k = 1
      BY <2>2, <3>1 DEF IsList
    <3>2. CASE k # 1
      <4>1. k - 1 \in 1 .. n - 1 /\ (k - 1) + 1 = k
        BY <2>2, <3>2
      <4> QED BY <2>2, <3>2, <4>1 DEF IsList
    <3> QED BY <3>1, <3>2
  <2>4. node = CHOOSE w : w = [k \in 1 .. Len(Ranges) |->
                                 IF k = 1 THEN tofree ELSE heap[w[k - 1]].next]
    OBVIOUS
  <2> HIDE DEF node
  <2>5. node = [k \in 1 .. n |-> IF k = 1 THEN tofree ELSE heap[node[k - 1]].next]
    BY <2>2, <2>3, <2>4
  <2>6. \A k \in 1 .. n : node[k] = nd[k]
    BY <2>2, <2>5, WalkFollowsList
  <2>7. DOMAIN node = 1 .. n
    BY <2>5
  <2>8. heap[node[Len(Ranges)]].next = NULL
    BY <2>2, <2>6 DEF IsList
  <2>9. ASSUME NEW k \in 1 .. n
        PROVE  heap[node[k]].offset = Ranges[k].offset /\ heap[node[k]].size = Ranges[k].size
    <3>1. Ranges[k] = [offset |-> IF ac = 0 THEN 0 ELSE Value(ag[2 * k - 1]),
                       size   |-> IF 2 * k > ac THEN 0 ELSE Value(ag[2 * k])]
      BY <2>2, RangesLength
    <3>2. /\ heap[nd[k]].offset = IF 2 * k - 1 <= ac THEN Value(ag[2 * k - 1]) ELSE 0
          /\ heap[nd[k]].size = IF 2 * k <= ac THEN Value(ag[2 * k]) ELSE 0
      BY <2>2 DEF HoldsFirst
    <3>3. 2 * k - 1 <= ac <=> ac # 0
      <4>1. n = IF ac = 0 THEN 1 ELSE (ac + 1) \div 2
        BY <2>2, RangesLength
      <4> QED BY <2>2, <4>1
    <3>4. 2 * k <= ac <=> ~(2 * k > ac)
      BY <2>2
    <3> QED BY <2>6, <3>1, <3>2, <3>3, <3>4
  <2>10. \A k \in DOMAIN node : /\ heap[node[k]].offset = Ranges[k].offset
                               /\ heap[node[k]].size = Ranges[k].size
    BY <2>7, <2>9
  <2> QED BY <2>8, <2>10 DEF ListIsRanges, node
<1> QED BY IInvHolds, <1>1, PTL

-----------------------------------------------------------------------------
(* The loops over a line                                                   *)

\* A set of numbers that has 0 and the successor of each of its members has all.
LEMMA SetInduction ==
    ASSUME NEW P, P \subseteq Nat, 0 \in P, \A n \in P : n + 1 \in P
    PROVE  \A n \in Nat : n \in P
<1> SUFFICES ASSUME Nat \ P # {} PROVE FALSE
  OBVIOUS
<1>1. PICK n \in Nat \ P : \A j \in Nat \ P : ~(<<j, n>> \in OpToRel(<, Nat))
  BY WFMin, NatLessThanWellFounded
<1>2. \A j \in Nat \ P : ~(j < n)
  BY <1>1 DEF OpToRel
<1>3. n \in Nat /\ n # 0
  BY <1>1
<1>4. n - 1 \in Nat /\ n - 1 < n /\ (n - 1) + 1 = n
  BY <1>3
<1>5. n - 1 \in P
  BY <1>2, <1>4
<1> QED BY <1>1, <1>4, <1>5

\* What one turn of the loop of Join does.
Joined(line, a) == line \o <<Semicolon>> \o a

\* The loops of Join and of Split do what their bodies say.
LEMMA JoinLoop ==
    ASSUME NEW list, Len(list) \in Nat \ {0}
    PROVE  \E line : /\ line[1] = list[1]
                     /\ \A k \in 2 .. Len(list) : line[k] = Joined(line[k - 1], list[k])
                     /\ Join(list) = line[Len(list)]
<1> DEFINE Body(l, k) == IF k = 1 THEN list[1] ELSE Joined(l[k - 1], list[k])
           P == {n \in Nat : \E l : l = [k \in 1 .. n |-> Body(l, k)]}
           line[k \in 1 .. Len(list)] == IF k = 1 THEN list[1] ELSE line[k - 1] \o <<Semicolon>> \o list[k]
<1>0. \A u, v, k : (k # 1 => u[k - 1] = v[k - 1]) => Body(u, k) = Body(v, k)
  BY Zenon
<1>1. 0 \in P
  <2>1. \A l : [k \in 1 .. 0 |-> Body(l, k)] = [k \in 1 .. 0 |-> 0]
    OBVIOUS
  <2> QED BY <2>1
<1>2. ASSUME NEW n \in P PROVE n + 1 \in P
  <2>1. PICK l : l = [k \in 1 .. n |-> Body(l, k)]
    OBVIOUS
  <2>2. n \in Nat
    OBVIOUS
  <2> DEFINE m == [k \in 1 .. n + 1 |-> IF k = n + 1 THEN Body(l, k) ELSE l[k]]
  <2>3. m = [k \in 1 .. n + 1 |-> Body(m, k)]
    <3> SUFFICES ASSUME NEW k \in 1 .. n + 1 PROVE m[k] = Body(m, k)
      OBVIOUS
    <3>1. k # 1 => k - 1 \in 1 .. n /\ k - 1 \in 1 .. n + 1 /\ k - 1 # n + 1
      BY <2>2
    <3>2. k # 1 => m[k - 1] = l[k - 1]
      BY <3>1
    <3>3. Body(m, k) = Body(l, k)
      <4> HIDE DEF m, Body
      <4> QED BY <1>0, <3>2, Zenon
    <3>4. CASE k = n + 1
      BY <3>3, <3>4
    <3>5. CASE k # n + 1
      <4>1. k \in 1 .. n
        BY <2>2, <3>5
      <4>2. l[k] = Body(l, k)
        BY <2>1, <4>1, Zenon
      <4>3. m[k] = l[k]
        BY <3>5
      <4> QED BY <3>3, <4>2, <4>3, Zenon
    <3> QED BY <3>4, <3>5
  <2> HIDE DEF m
  <2>4. \E u : u = [k \in 1 .. n + 1 |-> Body(u, k)]
    BY <2>3, Zenon
  <2> QED BY <2>2, <2>4
<1>3. Len(list) \in P
  <2> HIDE DEF P
  <2>1. P \subseteq Nat
    BY DEF P
  <2> QED BY <1>1, <1>2, <2>1, SetInduction
<1>4. \E l : l = [k \in 1 .. Len(list) |-> Body(l, k)]
  BY <1>3
<1>5. line = CHOOSE l : l = [k \in 1 .. Len(list) |-> Body(l, k)]
  BY DEF Joined
<1>6. Join(list) = line[Len(list)]
  BY DEF Join
<1> HIDE DEF line
<1>7. line = [k \in 1 .. Len(list) |-> Body(line, k)]
  BY <1>4, <1>5, Zenon
<1>8. \A k \in 1 .. Len(list) : line[k] = Body(line, k)
  BY <1>7, Zenon
<1>9. line[1] = list[1]
  <2>1. 1 \in 1 .. Len(list)
    OBVIOUS
  <2> QED BY <1>8, <2>1, Zenon
<1>10. \A k \in 2 .. Len(list) : line[k] = Joined(line[k - 1], list[k])
  <2>1. \A k \in 2 .. Len(list) : k \in 1 .. Len(list) /\ k # 1
    OBVIOUS
  <2> QED BY <1>8, <2>1, Zenon
<1> QED BY <1>6, <1>9, <1>10

LEMMA SplitLoop ==
    ASSUME NEW text, Len(text) \in Nat
    PROVE  \E upTo : /\ upTo[0] = <<<<>>>>
                     /\ \A n \in 1 .. Len(text) : upTo[n] = Collect(upTo[n - 1], text[n])
                     /\ Split(text) = upTo[Len(text)]
<1> DEFINE Body(u, n) == IF n = 0 THEN <<<<>>>> ELSE Collect(u[n - 1], text[n])
           P == {k \in Nat : \E u : u = [n \in 0 .. k |-> Body(u, n)]}
           upTo[n \in 0 .. Len(text)] == IF n = 0 THEN <<<<>>>> ELSE Collect(upTo[n - 1], text[n])
<1>1. 0 \in P
  <2>1. \A u : [n \in 0 .. 0 |-> Body(u, n)] = [n \in 0 .. 0 |-> <<<<>>>>]
    OBVIOUS
  <2> QED BY <2>1
<1>2. ASSUME NEW k \in P PROVE k + 1 \in P
  <2>1. PICK u : u = [n \in 0 .. k |-> Body(u, n)]
    OBVIOUS
  <2>2. k \in Nat
    OBVIOUS
  <2> DEFINE v == [n \in 0 .. k + 1 |-> IF n = k + 1 THEN Body(u, n) ELSE u[n]]
  <2>3. v = [n \in 0 .. k + 1 |-> Body(v, n)]
    <3> SUFFICES ASSUME NEW n \in 0 .. k + 1 PROVE v[n] = Body(v, n)
      OBVIOUS
    <3>1. n # 0 => n - 1 \in 0 .. k /\ n - 1 \in 0 .. k + 1 /\ n - 1 # k + 1
      BY <2>2
    <3>2. n # 0 => v[n - 1] = u[n - 1]
      BY <3>1
    <3>3. Body(v, n) = Body(u, n)
      BY <3>2
    <3>4. CASE n = k + 1
      BY <3>3, <3>4
    <3>5. CASE n # k + 1
      <4>1. n \in 0 .. k
        BY <2>2, <3>5
      <4>2. u[n] = Body(u, n)
        BY <2>1, <4>1, Zenon
      <4> QED BY <3>3, <3>5, <4>2
    <3> QED BY <3>4, <3>5
  <2> HIDE DEF v
  <2> QED BY <2>2, <2>3
<1>3. Len(text) \in P
  <2> HIDE DEF P
  <2>1. P \subseteq Nat
    BY DEF P
  <2> QED BY <1>1, <1>2, <2>1, SetInduction
<1>4. \E u : u = [n \in 0 .. Len(text) |-> Body(u, n)]
  BY <1>3
<1>5. upTo = CHOOSE u : u = [n \in 0 .. Len(text) |-> Body(u, n)]
  OBVIOUS
<1>6. Split(text) = upTo[Len(text)]
  BY DEF Split
<1> HIDE DEF upTo
<1>7. upTo = [n \in 0 .. Len(text) |-> Body(upTo, n)]
  BY <1>4, <1>5, Zenon
<1>8. \A n \in 0 .. Len(text) : upTo[n] = Body(upTo, n)
  BY <1>7, Zenon
<1>9. upTo[0] = <<<<>>>>
  BY <1>8
<1>10. \A n \in 1 .. Len(text) : upTo[n] = Collect(upTo[n - 1], text[n])
  BY <1>8
<1> QED BY <1>6, <1>9, <1>10

-----------------------------------------------------------------------------
(* Split, a character and an argument at a time                            *)

\* What a line is made of.
Chars == STRING \cup Separators

LEMMA Characters ==
    /\ Space # Semicolon /\ Space # Newline /\ Semicolon # Newline
    /\ Space \in Chars /\ Semicolon \in Chars /\ Newline \in Chars
    /\ STRING \subseteq Chars
BY Zenon DEF Space, Semicolon, Newline, Separators, Chars

LEMMA OneMore ==
    ASSUME NEW S, NEW s \in Seq(S), NEW n \in Nat, n < Len(s)
    PROVE  /\ SubSeq(s, 1, n) \in Seq(S) /\ Len(SubSeq(s, 1, n)) = n
           /\ SubSeq(s, 1, n + 1) = Append(SubSeq(s, 1, n), s[n + 1])
<1>1. Len(s) \in Nat /\ 1 \in 1 .. Len(s) /\ n + 1 \in 1 .. Len(s) /\ (n + 1) - 1 = n
  BY LenProperties
<1>2. SubSeq(s, 1, n + 1) = SubSeq(s, 1, n) \o <<s[n + 1]>>
  BY <1>1, SubSeqRecursiveSecond
<1>3. /\ SubSeq(s, 1, n) \in Seq(S)
      /\ Len(SubSeq(s, 1, n)) = IF 1 <= n THEN n - 1 + 1 ELSE 0
  <2>1. \A q \in 1 .. n : s[q] \in S
    BY <1>1, ElementOfSeq
  <2> QED BY <2>1, SubSeqProperties
<1>4. s[n + 1] \in S
  BY <1>1, ElementOfSeq
<1>5. SubSeq(s, 1, n) \o <<s[n + 1]>> = Append(SubSeq(s, 1, n), s[n + 1])
  BY <1>3, <1>4, AppendIsConcat
<1>6. (IF 1 <= n THEN n - 1 + 1 ELSE 0) = n
  OBVIOUS
<1> QED BY <1>2, <1>3, <1>5, <1>6

LEMMA LastReplaced ==
    ASSUME NEW S, NEW s \in Seq(S), NEW n \in 1 .. Len(s), NEW e \in S
    PROVE  /\ [s EXCEPT ![n] = e] \in Seq(S)
           /\ Len([s EXCEPT ![n] = e]) = Len(s)
           /\ \A k \in 1 .. Len(s) : [s EXCEPT ![n] = e][k] = IF k = n THEN e ELSE s[k]
BY ExceptSeq

\* The arguments with a text behind the last one.
Extend(list, a) == [list EXCEPT ![Len(list)] = @ \o a]

LEMMA ExtendProperties ==
    ASSUME NEW S, NEW list \in Seq(Seq(S)), list # <<>>, NEW a \in Seq(S)
    PROVE  /\ Extend(list, a) \in Seq(Seq(S)) /\ Extend(list, a) # <<>>
           /\ Len(Extend(list, a)) = Len(list) /\ Len(list) \in Nat \ {0}
           /\ \A k \in 1 .. Len(list) :
                Extend(list, a)[k] = IF k = Len(list) THEN list[k] \o a ELSE list[k]
<1>1. Len(list) \in Nat \ {0} /\ Len(list) \in 1 .. Len(list)
  BY EmptySeq, LenProperties
<1>2. list[Len(list)] \in Seq(S)
  BY <1>1, ElementOfSeq
<1>3. list[Len(list)] \o a \in Seq(S)
  BY <1>2, ConcatProperties
<1>4. /\ Extend(list, a) \in Seq(Seq(S)) /\ Len(Extend(list, a)) = Len(list)
      /\ \A k \in 1 .. Len(list) :
           Extend(list, a)[k] = IF k = Len(list) THEN list[Len(list)] \o a ELSE list[k]
  <2>1. PICK e : e = list[Len(list)] \o a
    OBVIOUS
  <2>2. Extend(list, a) = [list EXCEPT ![Len(list)] = e]
    BY <2>1, Zenon DEF Extend
  <2>3. e \in Seq(S)
    BY <1>3, <2>1
  <2>4. PICK n : n = Len(list)
    OBVIOUS
  <2>5. PICK T : T = Seq(S)
    OBVIOUS
  <2>6. list \in Seq(T) /\ n \in 1 .. Len(list) /\ e \in T
    BY <1>1, <2>3, <2>4, <2>5, Zenon
  <2>7. /\ [list EXCEPT ![n] = e] \in Seq(T) /\ Len([list EXCEPT ![n] = e]) = Len(list)
        /\ \A k \in 1 .. Len(list) :
             [list EXCEPT ![n] = e][k] = IF k = n THEN e ELSE list[k]
    <3> HIDE <2>1, <2>2, <2>3, <2>4, <2>5
    <3> QED BY <2>6, LastReplaced
  <2> QED BY <2>1, <2>2, <2>4, <2>5, <2>7, Zenon
<1>5. Extend(list, a) # <<>>
  BY <1>1, <1>4, EmptySeq
<1> QED BY <1>1, <1>4, <1>5

\* To collect a character that is no semicolon is to extend by it.
LEMMA CollectOne ==
    ASSUME NEW list \in Seq(Seq(Chars)), list # <<>>, NEW c \in Chars
    PROVE  /\ Collect(list, c) \in Seq(Seq(Chars)) /\ Collect(list, c) # <<>>
           /\ c = Semicolon => Collect(list, c) = Append(list, <<>>)
           /\ c # Semicolon => Collect(list, c) = Extend(list, <<c>>)
<1>1. <<>> \in Seq(Chars) /\ <<c>> \in Seq(Chars)
  BY EmptySeq
<1>2. Len(list) \in Nat \ {0} /\ Len(list) \in 1 .. Len(list)
  BY EmptySeq, LenProperties
<1>3. list[Len(list)] \in Seq(Chars)
  BY <1>2, ElementOfSeq
<1>4. Append(list[Len(list)], c) = list[Len(list)] \o <<c>>
  BY <1>3, AppendIsConcat
<1>5. c = Semicolon => Collect(list, c) = Append(list, <<>>)
  BY Zenon DEF Collect
<1>6. c # Semicolon => Collect(list, c) = Extend(list, <<c>>)
  BY <1>4, Zenon DEF Collect, Extend
<1>7. Append(list, <<>>) \in Seq(Seq(Chars)) /\ Append(list, <<>>) # <<>>
  BY <1>1, AppendProperties
<1>8. Extend(list, <<c>>) \in Seq(Seq(Chars)) /\ Extend(list, <<c>>) # <<>>
  BY <1>1, ExtendProperties
<1> QED BY <1>5, <1>6, <1>7, <1>8

LEMMA ExtendTwice ==
    ASSUME NEW S, NEW list \in Seq(Seq(S)), list # <<>>, NEW a \in Seq(S), NEW b \in Seq(S)
    PROVE  Extend(Extend(list, a), b) = Extend(list, a \o b)
<1>1. a \o b \in Seq(S)
  BY ConcatProperties
<1>2. /\ Extend(list, a) \in Seq(Seq(S)) /\ Extend(list, a) # <<>>
      /\ Len(Extend(list, a)) = Len(list) /\ Len(list) \in Nat \ {0}
      /\ \A k \in 1 .. Len(list) :
           Extend(list, a)[k] = IF k = Len(list) THEN list[k] \o a ELSE list[k]
  BY ExtendProperties, Zenon
<1>3. PICK l : l = Extend(list, a)
  OBVIOUS
<1>4. /\ Extend(l, b) \in Seq(Seq(S)) /\ Len(Extend(l, b)) = Len(list)
      /\ \A k \in 1 .. Len(list) :
           Extend(l, b)[k] = IF k = Len(list) THEN l[k] \o b ELSE l[k]
  <2>0. Len(l) = Len(list)
    BY <1>2, <1>3, Zenon
  <2>1. l \in Seq(Seq(S)) /\ l # <<>>
    BY <1>2, <1>3
  <2>2. /\ Extend(l, b) \in Seq(Seq(S)) /\ Len(Extend(l, b)) = Len(l)
        /\ \A k \in 1 .. Len(l) :
             Extend(l, b)[k] = IF k = Len(l) THEN l[k] \o b ELSE l[k]
    BY <2>1, ExtendProperties
  <2> QED BY <2>0, <2>2, Zenon
<1>5. /\ Extend(list, a \o b) \in Seq(Seq(S)) /\ Len(Extend(list, a \o b)) = Len(list)
      /\ \A k \in 1 .. Len(list) :
           Extend(list, a \o b)[k] = IF k = Len(list) THEN list[k] \o (a \o b) ELSE list[k]
  BY <1>1, ExtendProperties, ZenonT(40)
<1>6. ASSUME NEW k \in 1 .. Len(list)
      PROVE  Extend(l, b)[k] = Extend(list, a \o b)[k]
  <2>1. CASE k = Len(list)
    <3>1. list[k] \in Seq(S)
      BY ElementOfSeq
    <3>2. (list[k] \o a) \o b = list[k] \o (a \o b)
      <4>1. PICK x : x = list[k]
        OBVIOUS
      <4>2. x \in Seq(S)
        BY <3>1, <4>1
      <4>3. (x \o a) \o b = x \o (a \o b)
        BY <4>2, SMTT(40)
      <4> QED BY <4>1, <4>3, Zenon
    <3>3. l[k] = list[k] \o a
      BY <1>2, <1>3, <2>1, Zenon
    <3>4. Extend(l, b)[k] = l[k] \o b
      BY <1>4, <2>1, Zenon
    <3>5. Extend(list, a \o b)[k] = list[k] \o (a \o b)
      BY <1>5, <2>1, Zenon
    <3> QED BY <3>2, <3>3, <3>4, <3>5, Zenon
  <2>2. CASE k # Len(list)
    BY <1>2, <1>3, <1>4, <1>5, <2>2, Zenon
  <2> QED BY <2>1, <2>2
<1>7. Extend(l, b) = Extend(list, a \o b)
  BY <1>4, <1>5, <1>6, SeqEqual, Zenon
<1> QED BY <1>3, <1>7, Zenon

\* Split a character further.
LEMMA SplitOneMore ==
    ASSUME NEW text \in Seq(Chars), NEW c \in Chars
    PROVE  Split(Append(text, c)) = Collect(Split(text), c)
<1>0. PICK more : more = Append(text, c)
  OBVIOUS
<1>1. /\ Len(text) \in Nat /\ Len(more) = Len(text) + 1
      /\ \A n \in 1 .. Len(text) : more[n] = text[n]
      /\ more[Len(text) + 1] = c
  BY <1>0, AppendProperties, LenProperties
<1>2. PICK u : /\ u[0] = <<<<>>>>
               /\ \A n \in 1 .. Len(text) : u[n] = Collect(u[n - 1], text[n])
               /\ Split(text) = u[Len(text)]
  BY <1>1, SplitLoop, Zenon
<1>3. Len(more) \in Nat
  BY <1>1
<1>4. PICK v : /\ v[0] = <<<<>>>>
               /\ \A n \in 1 .. Len(more) : v[n] = Collect(v[n - 1], more[n])
               /\ Split(more) = v[Len(more)]
  BY <1>3, SplitLoop, Zenon
<1> DEFINE P == {n \in Nat : n <= Len(text) => u[n] = v[n]}
<1>5. 0 \in P
  BY <1>2, <1>4
<1>6. ASSUME NEW n \in P PROVE n + 1 \in P
  <2> SUFFICES ASSUME n + 1 <= Len(text) PROVE u[n + 1] = v[n + 1]
    OBVIOUS
  <2>1. /\ n \in Nat /\ n <= Len(text) /\ (n + 1) - 1 = n
        /\ n + 1 \in 1 .. Len(text) /\ n + 1 \in 1 .. Len(more)
    BY <1>1
  <2>2. u[n] = v[n]
    BY <2>1
  <2>3. u[n + 1] = Collect(u[n], text[n + 1])
    BY <1>2, <2>1
  <2>4. v[n + 1] = Collect(v[n], more[n + 1])
    BY <1>4, <2>1
  <2>5. more[n + 1] = text[n + 1]
    BY <1>1, <2>1
  <2> QED BY <2>2, <2>3, <2>4, <2>5, Zenon
<1>7. Len(text) \in P
  <2>1. P \subseteq Nat
    OBVIOUS
  <2> HIDE DEF P
  <2> QED BY <1>1, <1>5, <1>6, <2>1, SetInduction
<1>8. u[Len(text)] = v[Len(text)]
  BY <1>1, <1>7
<1>9. Len(more) \in 1 .. Len(more) /\ Len(more) - 1 = Len(text)
  BY <1>1
<1>10. v[Len(more)] = Collect(v[Len(text)], more[Len(more)])
  BY <1>4, <1>9
<1>11. more[Len(more)] = c
  BY <1>1
<1> QED BY <1>0, <1>2, <1>4, <1>8, <1>10, <1>11, Zenon

LEMMA SplitNothing == Split(<<>>) = <<<<>>>>
<1>1. Len(<<>>) = 0 /\ Len(<<>>) \in Nat
  OBVIOUS
<1>2. PICK u : u[0] = <<<<>>>> /\ Split(<<>>) = u[Len(<<>>)]
  BY <1>1, SplitLoop
<1> QED BY <1>1, <1>2, Zenon

\* There is always a last argument.
LEMMA SplitProperties ==
    ASSUME NEW text \in Seq(Chars)
    PROVE  /\ Split(text) \in Seq(Seq(Chars)) /\ Split(text) # <<>>
<1>1. Len(text) \in Nat
  BY LenProperties
<1> DEFINE P == {n \in Nat : n <= Len(text) =>
                   /\ Split(SubSeq(text, 1, n)) \in Seq(Seq(Chars))
                   /\ Split(SubSeq(text, 1, n)) # <<>>}
<1>2. 0 \in P
  <2>1. SubSeq(text, 1, 0) = <<>>
    BY SubSeqEmpty
  <2>2. <<<<>>>> \in Seq(Seq(Chars)) /\ <<<<>>>> # <<>>
    OBVIOUS
  <2> QED BY <2>1, <2>2, SplitNothing
<1>3. ASSUME NEW n \in P PROVE n + 1 \in P
  <2> SUFFICES ASSUME n + 1 <= Len(text)
               PROVE  /\ Split(SubSeq(text, 1, n + 1)) \in Seq(Seq(Chars))
                      /\ Split(SubSeq(text, 1, n + 1)) # <<>>
    OBVIOUS
  <2>1. n \in Nat /\ n < Len(text) /\ n <= Len(text) /\ n + 1 \in 1 .. Len(text)
    BY <1>1
  <2>2. /\ SubSeq(text, 1, n) \in Seq(Chars)
        /\ SubSeq(text, 1, n + 1) = Append(SubSeq(text, 1, n), text[n + 1])
    BY <2>1, OneMore
  <2>3. text[n + 1] \in Chars
    BY <2>1, ElementOfSeq
  <2>4. Split(SubSeq(text, 1, n + 1)) = Collect(Split(SubSeq(text, 1, n)), text[n + 1])
    BY <2>2, <2>3, SplitOneMore, Zenon
  <2>5. Split(SubSeq(text, 1, n)) \in Seq(Seq(Chars)) /\ Split(SubSeq(text, 1, n)) # <<>>
    BY <2>1
  <2> QED BY <2>3, <2>4, <2>5, CollectOne, Zenon
<1>4. Len(text) \in P
  <2>1. P \subseteq Nat
    OBVIOUS
  <2> HIDE DEF P
  <2> QED BY <1>1, <1>2, <1>3, <2>1, SetInduction
<1>5. SubSeq(text, 1, Len(text)) = text
  BY SubSeqFull
<1>6. /\ Split(SubSeq(text, 1, Len(text))) \in Seq(Seq(Chars))
      /\ Split(SubSeq(text, 1, Len(text))) # <<>>
  <2>1. Len(text) <= Len(text)
    BY <1>1
  <2> QED BY <1>4, <2>1, Zenon
<1> QED BY <1>5, <1>6, Zenon

Plain(a) == \A q \in 1 .. Len(a) : a[q] # Semicolon

\* A text without semicolons goes to the last argument whole.
LEMMA SplitPlain ==
    ASSUME NEW text \in Seq(Chars), NEW a \in Seq(Chars), Plain(a)
    PROVE  Split(text \o a) = Extend(Split(text), a)
<1>1. Len(a) \in Nat
  BY LenProperties
<1>2. PICK list : list = Split(text)
  OBVIOUS
<1>3. list \in Seq(Seq(Chars)) /\ list # <<>>
  BY <1>2, SplitProperties
<1> DEFINE P == {n \in Nat : n <= Len(a) =>
                   Split(text \o SubSeq(a, 1, n)) = Extend(list, SubSeq(a, 1, n))}
<1>4. 0 \in P
  <2>1. SubSeq(a, 1, 0) = <<>>
    BY SubSeqEmpty
  <2>2. text \o <<>> = text
    BY ConcatEmptySeq
  <2>3. Extend(list, <<>>) = list
    <3>1. <<>> \in Seq(Chars)
      BY EmptySeq
    <3>2. /\ Extend(list, <<>>) \in Seq(Seq(Chars)) /\ Len(Extend(list, <<>>)) = Len(list)
          /\ \A k \in 1 .. Len(list) :
               Extend(list, <<>>)[k] = IF k = Len(list) THEN list[k] \o <<>> ELSE list[k]
      BY <1>3, <3>1, ExtendProperties, ZenonT(40)
    <3>3. ASSUME NEW k \in 1 .. Len(list)
          PROVE  list[k] \o <<>> = list[k]
      BY <1>3, ElementOfSeq, ConcatEmptySeq
    <3>4. \A k \in 1 .. Len(list) : Extend(list, <<>>)[k] = list[k]
      BY <3>2, <3>3, Zenon
    <3> QED BY <1>3, <3>2, <3>4, SeqEqual, Zenon
  <2> QED BY <1>2, <2>1, <2>2, <2>3
<1>5. ASSUME NEW n \in P PROVE n + 1 \in P
  <2> SUFFICES ASSUME n + 1 <= Len(a)
               PROVE  Split(text \o SubSeq(a, 1, n + 1)) = Extend(list, SubSeq(a, 1, n + 1))
    OBVIOUS
  <2>1. n \in Nat /\ n < Len(a) /\ n <= Len(a) /\ n + 1 \in 1 .. Len(a)
    BY <1>1
  <2>2. PICK b, c : b = SubSeq(a, 1, n) /\ c = a[n + 1]
    OBVIOUS
  <2>3. b \in Seq(Chars) /\ SubSeq(a, 1, n + 1) = Append(b, c)
    BY <2>1, <2>2, OneMore, Zenon
  <2>4. c \in Chars /\ c # Semicolon
    BY <2>1, <2>2, ElementOfSeq DEF Plain
  <2>5. Append(b, c) = b \o <<c>>
    BY <2>3, <2>4, AppendIsConcat
  <2>6. text \o b \in Seq(Chars)
    BY <2>3, ConcatProperties
  <2>7. text \o Append(b, c) = Append(text \o b, c)
    BY <2>3, <2>4, SMT
  <2>8. Split(Append(text \o b, c)) = Collect(Split(text \o b), c)
    BY <2>4, <2>6, SplitOneMore, Zenon
  <2>9. Split(text \o b) = Extend(list, b)
    BY <2>1, <2>2
  <2>10. Extend(list, b) \in Seq(Seq(Chars)) /\ Extend(list, b) # <<>>
    BY <1>3, <2>3, ExtendProperties, Zenon
  <2>11. Collect(Extend(list, b), c) = Extend(Extend(list, b), <<c>>)
    BY <2>4, <2>10, CollectOne, Zenon
  <2>12. <<c>> \in Seq(Chars)
    BY <2>4
  <2>13. Extend(Extend(list, b), <<c>>) = Extend(list, b \o <<c>>)
    <3>1. PICK d : d = <<c>>
      OBVIOUS
    <3>2. d \in Seq(Chars)
      BY <2>12, <3>1, Zenon
    <3>3. b \in Seq(Chars)
      BY <2>3
    <3>4. Extend(Extend(list, b), d) = Extend(list, b \o d)
      BY <1>3, <3>2, <3>3, ExtendTwice, SMT
    <3> QED BY <3>1, <3>4, Zenon
  <2> QED BY <2>3, <2>5, <2>7, <2>8, <2>9, <2>11, <2>13, Zenon
<1>6. Len(a) \in P
  <2>1. P \subseteq Nat
    OBVIOUS
  <2> HIDE DEF P
  <2> QED BY <1>1, <1>4, <1>5, <2>1, SetInduction
<1>7. SubSeq(a, 1, Len(a)) = a
  BY SubSeqFull
<1>8. Split(text \o SubSeq(a, 1, Len(a))) = Extend(list, SubSeq(a, 1, Len(a)))
  <2>1. Len(a) <= Len(a)
    BY <1>1
  <2> QED BY <1>6, <2>1, Zenon
<1> QED BY <1>2, <1>7, <1>8, Zenon

-----------------------------------------------------------------------------
(* Split undoes Join                                                       *)

\* What Join does at one argument.
LEMMA JoinedProperties ==
    ASSUME NEW l \in Seq(Chars), NEW a \in Seq(Chars)
    PROVE  /\ Joined(l, a) \in Seq(Chars)
           /\ Joined(l, a) = Append(l, Semicolon) \o a
           /\ Len(Joined(l, a)) = Len(l) + 1 + Len(a)
           /\ Len(l) \in Nat /\ Len(a) \in Nat
<1>0. PICK s : s = Semicolon
  OBVIOUS
<1>1. s \in Chars
  BY <1>0, Characters
<1>2. /\ Append(l, s) \in Seq(Chars) /\ Len(Append(l, s)) = Len(l) + 1
      /\ Append(l, s) = l \o <<s>>
  BY <1>1, AppendProperties, AppendIsConcat
<1>3. PICK m : m = Append(l, s)
  OBVIOUS
<1>4. m \o a \in Seq(Chars) /\ Len(m \o a) = Len(m) + Len(a)
  BY <1>2, <1>3, ConcatProperties
<1>5. Len(l) \in Nat /\ Len(a) \in Nat
  BY LenProperties
<1>6. Joined(l, a) = m \o a
  BY <1>0, <1>2, <1>3, Zenon DEF Joined
<1> QED BY <1>0, <1>2, <1>3, <1>4, <1>5, <1>6

\* The line is made of characters and no shorter than any of its arguments.
LEMMA JoinProperties ==
    ASSUME NEW list \in Seq(Seq(Chars)), list # <<>>
    PROVE  /\ Join(list) \in Seq(Chars)
           /\ \A k \in 1 .. Len(list) : Len(list[k]) <= Len(Join(list))
<1>1. Len(list) \in Nat \ {0}
  BY EmptySeq
<1>2. PICK line : /\ line[1] = list[1]
                  /\ \A k \in 2 .. Len(list) : line[k] = Joined(line[k - 1], list[k])
                  /\ Join(list) = line[Len(list)]
  BY <1>1, JoinLoop, Zenon
<1> DEFINE P == {n \in Nat : n + 1 <= Len(list) =>
                   /\ line[n + 1] \in Seq(Chars)
                   /\ \A k \in 1 .. n + 1 : Len(list[k]) <= Len(line[n + 1])}
<1>3. 0 \in P
  <2>1. list[1] \in Seq(Chars)
    BY <1>1, ElementOfSeq
  <2>2. Len(list[1]) \in Nat
    BY <2>1, LenProperties
  <2>3. \A k \in 1 .. 1 : k = 1
    OBVIOUS
  <2> QED BY <1>2, <2>1, <2>2, <2>3
<1>4. ASSUME NEW n \in P PROVE n + 1 \in P
  <2> SUFFICES ASSUME (n + 1) + 1 <= Len(list)
               PROVE  /\ line[(n + 1) + 1] \in Seq(Chars)
                      /\ \A k \in 1 .. (n + 1) + 1 : Len(list[k]) <= Len(line[(n + 1) + 1])
    OBVIOUS
  <2>1. /\ n \in Nat /\ n + 1 <= Len(list) /\ (n + 1) + 1 \in 2 .. Len(list)
        /\ (n + 1) + 1 \in 1 .. Len(list) /\ ((n + 1) + 1) - 1 = n + 1
    BY <1>1
  <2>2. PICK l, a, m : l = line[n + 1] /\ a = list[(n + 1) + 1] /\ m = line[(n + 1) + 1]
    OBVIOUS
  <2>3. l \in Seq(Chars) /\ \A k \in 1 .. n + 1 : Len(list[k]) <= Len(l)
    BY <2>1, <2>2
  <2>4. a \in Seq(Chars)
    BY <2>1, <2>2, ElementOfSeq
  <2>5. m = Joined(l, a)
    BY <1>2, <2>1, <2>2
  <2>6. m \in Seq(Chars) /\ Len(m) = Len(l) + 1 + Len(a) /\ Len(l) \in Nat /\ Len(a) \in Nat
    BY <2>3, <2>4, <2>5, JoinedProperties
  <2>7. ASSUME NEW k \in 1 .. (n + 1) + 1 PROVE Len(list[k]) <= Len(m)
    <3>1. CASE k = (n + 1) + 1
      <4>1. Len(list[k]) = Len(a)
        BY <2>2, <3>1, Zenon
      <4> QED BY <2>6, <4>1
    <3>2. CASE k # (n + 1) + 1
      <4>1. k \in 1 .. n + 1 /\ k \in 1 .. Len(list)
        BY <2>1, <3>2
      <4>2. list[k] \in Seq(Chars)
        BY <4>1, ElementOfSeq
      <4>3. Len(list[k]) \in Nat
        BY <4>2, LenProperties
      <4>4. Len(list[k]) <= Len(l)
        BY <2>3, <4>1
      <4> QED BY <2>6, <4>3, <4>4
    <3> QED BY <3>1, <3>2
  <2> QED BY <2>2, <2>6, <2>7, Zenon
<1>5. Len(list) - 1 \in P
  <2>1. P \subseteq Nat /\ Len(list) - 1 \in Nat
    BY <1>1
  <2> HIDE DEF P
  <2> QED BY <1>3, <1>4, <2>1, SetInduction
<1>6. (Len(list) - 1) + 1 = Len(list) /\ Len(list) <= Len(list)
  BY <1>1
<1>7. /\ line[Len(list)] \in Seq(Chars)
      /\ \A k \in 1 .. Len(list) : Len(list[k]) <= Len(line[Len(list)])
  BY <1>5, <1>6
<1> QED BY <1>2, <1>7, Zenon

\* The server gets out of a line what the client has put into it.
LEMMA SplitJoin ==
    ASSUME NEW list \in Seq(Seq(Chars)), list # <<>>,
           \A k \in 1 .. Len(list) : Plain(list[k])
    PROVE  Split(Join(list)) = list
<1>1. Len(list) \in Nat \ {0}
  BY EmptySeq
<1>2. PICK line : /\ line[1] = list[1]
                  /\ \A k \in 2 .. Len(list) : line[k] = Joined(line[k - 1], list[k])
                  /\ Join(list) = line[Len(list)]
  BY <1>1, JoinLoop, Zenon
<1>3. <<>> \in Seq(Chars) /\ <<<<>>>> \in Seq(Seq(Chars)) /\ <<<<>>>> # <<>>
  OBVIOUS
<1> DEFINE P == {n \in Nat : n + 1 <= Len(list) =>
                   /\ line[n + 1] \in Seq(Chars)
                   /\ Split(line[n + 1]) = SubSeq(list, 1, n + 1)}
<1>4. 0 \in P
  <2>1. PICK a : a = list[1]
    OBVIOUS
  <2>2. a \in Seq(Chars) /\ Plain(a)
    BY <1>1, <2>1, ElementOfSeq
  <2>3. Split(<<>> \o a) = Extend(<<<<>>>>, a)
    BY <1>3, <2>2, SplitPlain, SplitNothing, Zenon
  <2>4. <<>> \o a = a
    BY <2>2, ConcatEmptySeq
  <2>5. Extend(<<<<>>>>, a) = <<a>>
    <3>1. Extend(<<<<>>>>, a) = [<<<<>>>> EXCEPT ![1] = <<>> \o a]
      BY DEF Extend
    <3> QED BY <2>2, <2>4, <3>1
  <2>6. SubSeq(list, 1, 1) = <<a>>
    <3>1. PICK z : z = 0
      OBVIOUS
    <3>2. z \in Nat /\ z < Len(list) /\ z + 1 = 1
      BY <1>1, <3>1
    <3>3. SubSeq(list, 1, z + 1) = Append(SubSeq(list, 1, z), list[z + 1])
      BY <3>2, OneMore
    <3>4. SubSeq(list, 1, z) = <<>>
      BY <3>1, SubSeqEmpty
    <3>5. Append(<<>>, a) = <<a>>
      OBVIOUS
    <3> QED BY <2>1, <3>2, <3>3, <3>4, <3>5, Zenon
  <2> QED BY <1>2, <2>1, <2>2, <2>3, <2>4, <2>5, <2>6
<1>5. ASSUME NEW n \in P PROVE n + 1 \in P
  <2> SUFFICES ASSUME (n + 1) + 1 <= Len(list)
               PROVE  /\ line[(n + 1) + 1] \in Seq(Chars)
                      /\ Split(line[(n + 1) + 1]) = SubSeq(list, 1, (n + 1) + 1)
    OBVIOUS
  <2>1. /\ n \in Nat /\ n + 1 \in Nat /\ n + 1 <= Len(list) /\ n + 1 < Len(list)
        /\ (n + 1) + 1 \in 2 .. Len(list)
        /\ (n + 1) + 1 \in 1 .. Len(list) /\ ((n + 1) + 1) - 1 = n + 1
    BY <1>1
  <2>2. PICK l, a, m, s : /\ l = line[n + 1] /\ a = list[(n + 1) + 1] /\ m = line[(n + 1) + 1]
                          /\ s = SubSeq(list, 1, n + 1)
    OBVIOUS
  <2>3. l \in Seq(Chars) /\ Split(l) = s
    BY <2>1, <2>2
  <2>4. a \in Seq(Chars) /\ Plain(a)
    BY <2>1, <2>2, ElementOfSeq
  <2>5. m = Joined(l, a)
    BY <1>2, <2>1, <2>2
  <2>6. m \in Seq(Chars) /\ m = Append(l, Semicolon) \o a
    BY <2>3, <2>4, <2>5, JoinedProperties, Zenon
  <2>7. Append(l, Semicolon) \in Seq(Chars)
    BY <2>3, Characters, AppendProperties
  <2>8. Split(m) = Extend(Split(Append(l, Semicolon)), a)
    BY <2>4, <2>6, <2>7, SplitPlain, Zenon
  <2>9. Split(Append(l, Semicolon)) = Collect(s, Semicolon)
    BY <2>3, Characters, SplitOneMore, Zenon
  <2>10. s \in Seq(Seq(Chars)) /\ SubSeq(list, 1, (n + 1) + 1) = Append(s, a)
    BY <2>1, <2>2, OneMore, Zenon
  <2>11. s # <<>>
    BY <2>3, SplitProperties, Zenon
  <2>12. Collect(s, Semicolon) = Append(s, <<>>)
    BY <2>10, <2>11, Characters, CollectOne, Zenon
  <2>13. Extend(Append(s, <<>>), a) = Append(s, a)
    <3>1. PICK t, e : t = Append(s, e) /\ e = <<>>
      OBVIOUS
    <3>2. PICK T : T = Seq(Chars)
      OBVIOUS
    <3>3. e \in T /\ a \in T /\ s \in Seq(T) /\ e \o a = a
      BY <1>3, <2>4, <2>10, <3>1, <3>2, ConcatEmptySeq
    <3>4. /\ t \in Seq(T) /\ Len(t) = Len(s) + 1 /\ Len(s) \in Nat
          /\ \A k \in 1 .. Len(s) : t[k] = s[k]
          /\ t[Len(t)] = e /\ t # <<>>
      <4>1. /\ t \in Seq(T) /\ Len(t) = Len(s) + 1
            /\ \A k \in 1 .. Len(s) : t[k] = s[k]
            /\ t[Len(s) + 1] = e
        <5>1. /\ Append(s, e) \in Seq(T) /\ Len(Append(s, e)) = Len(s) + 1
              /\ \A k \in 1 .. Len(s) : Append(s, e)[k] = s[k]
              /\ Append(s, e)[Len(s) + 1] = e
          BY <3>3, AppendProperties
        <5> QED BY <3>1, <5>1, Zenon
      <4>2. Len(s) \in Nat
        BY <3>3, LenProperties
      <4>3. t # <<>>
        <5>1. Len(<<>>) # Len(s) + 1
          BY <4>2
        <5> QED BY <4>1, <5>1, Zenon
      <4> QED BY <4>1, <4>2, <4>3, Zenon
    <3>5. /\ Append(s, a) \in Seq(T) /\ Len(Append(s, a)) = Len(s) + 1
          /\ \A k \in 1 .. Len(s) : Append(s, a)[k] = s[k]
          /\ Append(s, a)[Len(s) + 1] = a
      BY <3>3, AppendProperties
    <3>6. t \in Seq(Seq(Chars))
      BY <3>2, <3>4, Zenon
    <3>7. /\ Extend(t, a) \in Seq(Seq(Chars)) /\ Len(Extend(t, a)) = Len(t)
          /\ \A k \in 1 .. Len(t) :
               Extend(t, a)[k] = IF k = Len(t) THEN t[k] \o a ELSE t[k]
      BY <2>4, <3>4, <3>6, ExtendProperties, ZenonT(40)
    <3>8. ASSUME NEW k \in 1 .. Len(t) PROVE Extend(t, a)[k] = Append(s, a)[k]
      <4>1. CASE k = Len(t)
        <5>1. Extend(t, a)[k] = t[k] \o a
          BY <3>7, <4>1, Zenon
        <5>2. t[k] = e
          BY <3>4, <4>1, Zenon
        <5>3. Append(s, a)[k] = a
          BY <3>4, <3>5, <4>1, Zenon
        <5> QED BY <3>3, <5>1, <5>2, <5>3, Zenon
      <4>2. CASE k # Len(t)
        <5>1. k \in 1 .. Len(s)
          BY <3>4, <4>2
        <5>2. Extend(t, a)[k] = t[k]
          BY <3>7, <4>2, Zenon
        <5> QED BY <3>4, <3>5, <5>1, <5>2, Zenon
      <4> QED BY <4>1, <4>2
    <3>9. Extend(t, a) \in Seq(T) /\ Len(Extend(t, a)) = Len(Append(s, a))
      BY <3>2, <3>4, <3>5, <3>7, Zenon
    <3>10. PICK x, y : x = Extend(t, a) /\ y = Append(s, a)
      OBVIOUS
    <3>11. /\ x \in Seq(T) /\ y \in Seq(T) /\ Len(x) = Len(y)
           /\ \A k \in 1 .. Len(x) : x[k] = y[k]
      BY <3>5, <3>7, <3>8, <3>9, <3>10, Zenon
    <3>12. x = y
      BY <3>11, SeqEqual
    <3> QED BY <3>1, <3>10, <3>12, Zenon
  <2> QED BY <2>2, <2>6, <2>8, <2>9, <2>10, <2>12, <2>13, Zenon
<1>6. Len(list) - 1 \in P
  <2>1. P \subseteq Nat /\ Len(list) - 1 \in Nat
    BY <1>1
  <2> HIDE DEF P
  <2> QED BY <1>4, <1>5, <2>1, SetInduction
<1>7. (Len(list) - 1) + 1 = Len(list) /\ Len(list) <= Len(list)
  BY <1>1
<1>8. Split(line[Len(list)]) = SubSeq(list, 1, Len(list))
  BY <1>6, <1>7
<1>9. SubSeq(list, 1, Len(list)) = list
  BY SubSeqFull
<1> QED BY <1>2, <1>8, <1>9, Zenon

-----------------------------------------------------------------------------
(* The spaces in front of the first argument                               *)

LEMMA Least ==
    ASSUME NEW P, P \subseteq Nat, P # {}
    PROVE  \E p \in P : \A q \in P : p <= q
<1>1. PICK p \in P : \A q \in P : ~(<<q, p>> \in OpToRel(<, Nat))
  BY WFMin, NatLessThanWellFounded
<1>2. \A q \in P : ~(q < p)
  BY <1>1 DEF OpToRel
<1>3. \A q \in P : q \in Nat /\ p \in Nat
  OBVIOUS
<1> QED BY <1>2, <1>3

\* A text is its leading spaces and what stands behind them.
LEMMA LeadingSpaces ==
    ASSUME NEW a \in Seq(Chars)
    PROVE  \E pre, b \in Seq(Chars) : /\ a = pre \o b
                                      /\ \A q \in 1 .. Len(pre) : pre[q] = Space
                                      /\ b = <<>> \/ b[1] # Space
<1>1. Len(a) \in Nat /\ \A q \in 1 .. Len(a) : a[q] \in Chars
  BY LenProperties, ElementOfSeq
<1> DEFINE P == {q \in 1 .. Len(a) : a[q] # Space}
<1>2. CASE P = {}
  <2>1. \A q \in 1 .. Len(a) : a[q] = Space
    BY <1>2
  <2>2. a = a \o <<>> /\ <<>> \in Seq(Chars)
    BY ConcatEmptySeq, EmptySeq
  <2> QED BY <2>1, <2>2, Zenon
<1>3. CASE P # {}
  <2>1. P \subseteq Nat
    BY <1>1
  <2>2. PICK p \in P : \A q \in P : p <= q
    <3> HIDE DEF P
    <3> QED BY <1>3, <2>1, Least
  <2>3. p \in 1 .. Len(a) /\ a[p] # Space /\ p \in Nat /\ p - 1 \in Int /\ Len(a) \in Int
    BY <1>1
  <2>4. \A q \in 1 .. p - 1 : a[q] = Space
    <3> SUFFICES ASSUME NEW q \in 1 .. p - 1, a[q] # Space PROVE FALSE
      OBVIOUS
    <3>1. q \in 1 .. Len(a) /\ ~(p <= q)
      BY <1>1, <2>3
    <3> QED BY <2>2, <3>1
  <2>5. PICK pre, b : pre = SubSeq(a, 1, p - 1) /\ b = SubSeq(a, p, Len(a))
    OBVIOUS
  <2>6. \A q \in 1 .. p - 1 : a[q] \in Chars
    BY <1>1, <2>3
  <2>7. /\ pre \in Seq(Chars) /\ Len(pre) = IF 1 <= p - 1 THEN p - 1 - 1 + 1 ELSE 0
        /\ \A q \in 1 .. p - 1 - 1 + 1 : pre[q] = a[1 + q - 1]
    BY <2>3, <2>5, <2>6, SubSeqProperties
  <2>8. \A q \in p .. Len(a) : a[q] \in Chars
    BY <1>1, <2>3
  <2>9. /\ b \in Seq(Chars)
        /\ \A q \in 1 .. Len(a) - p + 1 : b[q] = a[p + q - 1]
    BY <2>3, <2>5, <2>8, SubSeqProperties
  <2>10. \A q \in 1 .. Len(pre) : pre[q] = Space
    <3> SUFFICES ASSUME NEW q \in 1 .. Len(pre) PROVE pre[q] = Space
      OBVIOUS
    <3>1. Len(pre) = p - 1
      BY <2>3, <2>7
    <3>2. q \in 1 .. p - 1 - 1 + 1 /\ 1 + q - 1 = q /\ q \in 1 .. p - 1
      BY <2>3, <3>1
    <3> QED BY <2>4, <2>7, <3>2
  <2>11. b[1] # Space
    <3>1. 1 \in 1 .. Len(a) - p + 1 /\ p + 1 - 1 = p
      BY <1>1, <2>3
    <3>2. b[1] = a[p]
      BY <2>9, <3>1
    <3> QED BY <2>3, <3>2
  <2>12. a = pre \o b
    <3>1. PICK k : k = p - 1
      OBVIOUS
    <3>2. PICK o : o = 1
      OBVIOUS
    <3>3. /\ o \in 1 .. Len(a) + 1 /\ k \in o - 1 .. Len(a) /\ Len(a) \in k .. Len(a)
          /\ k + 1 = p
      BY <1>1, <2>3, <3>1, <3>2
    <3>4. SubSeq(a, o, k) \o SubSeq(a, k + 1, Len(a)) = SubSeq(a, o, Len(a))
      BY <3>3, ConcatAdjacentSubSeq
    <3>5. SubSeq(a, 1, Len(a)) = a
      BY SubSeqFull
    <3> QED BY <2>5, <3>1, <3>2, <3>3, <3>4, <3>5, Zenon
  <2> QED BY <2>7, <2>9, <2>10, <2>11, <2>12, Zenon
<1> QED BY <1>2, <1>3

\* What stands in front of a line stays in front of the longer line.
StaysInFront(pre, l, a) == Joined(pre \o l, a) = pre \o Joined(l, a)

LEMMA JoinedBehind ==
    ASSUME NEW pre \in Seq(Chars), NEW l \in Seq(Chars), NEW a \in Seq(Chars)
    PROVE  StaysInFront(pre, l, a)
<1>1. PICK s : s = <<Semicolon>>
  OBVIOUS
<1>2. s \in Seq(Chars)
  <2>1. PICK c : c = Semicolon
    OBVIOUS
  <2>2. c \in Chars
    BY <2>1, Characters
  <2>3. <<c>> \in Seq(Chars)
    BY <2>2
  <2> QED BY <1>1, <2>1, <2>3
<1>3. l \o s \in Seq(Chars) /\ pre \o l \in Seq(Chars)
  BY <1>2, ConcatProperties
<1>4. (pre \o l) \o s = pre \o (l \o s)
  BY <1>2, SMT
<1>5. PICK m : m = l \o s
  OBVIOUS
<1>6. m \in Seq(Chars)
  BY <1>3, <1>5
<1>7. (pre \o m) \o a = pre \o (m \o a)
  BY <1>6, SMT
<1> QED BY <1>1, <1>4, <1>5, <1>7, Zenon DEF Joined, StaysInFront

\* The longer line begins like the line, or with the semicolon.
LEMMA JoinedFirst ==
    ASSUME NEW l \in Seq(Chars), NEW a \in Seq(Chars)
    PROVE  /\ l = <<>> => Joined(l, a)[1] = Semicolon
           /\ l # <<>> => Joined(l, a)[1] = l[1]
<1>1. PICK s : s = <<Semicolon>>
  OBVIOUS
<1>2. s \in Seq(Chars) /\ Len(s) = 1 /\ s[1] = Semicolon
  <2>1. PICK c : c = Semicolon
    OBVIOUS
  <2>2. c \in Chars
    BY <2>1, Characters
  <2>3. <<c>> \in Seq(Chars) /\ Len(<<c>>) = 1 /\ <<c>>[1] = c
    BY <2>2
  <2> QED BY <1>1, <2>1, <2>3
<1>3. PICK m : m = l \o s
  OBVIOUS
<1>4. m \in Seq(Chars)
  BY <1>2, <1>3, ConcatProperties
<1>5. /\ Len(m) = Len(l) + Len(s) /\ Len(l) \in Nat /\ Len(a) \in Nat
      /\ \A q \in 1 .. Len(l) + Len(s) : m[q] = IF q <= Len(l) THEN l[q] ELSE s[q - Len(l)]
  BY <1>2, <1>3, ConcatProperties, LenProperties
<1>6. \A q \in 1 .. Len(m) + Len(a) : (m \o a)[q] = IF q <= Len(m) THEN m[q] ELSE a[q - Len(m)]
  BY <1>4, ConcatProperties
<1>7. (m \o a)[1] = m[1]
  <2>1. 1 \in 1 .. Len(m) + Len(a) /\ 1 <= Len(m)
    BY <1>2, <1>5
  <2> QED BY <1>6, <2>1
<1>8. Joined(l, a)[1] = m[1]
  BY <1>1, <1>3, <1>7, Zenon DEF Joined
<1>9. 1 \in 1 .. Len(l) + Len(s)
  BY <1>2, <1>5
<1>10. CASE l = <<>>
  <2>1. ~(1 <= Len(l)) /\ 1 - Len(l) = 1
    BY <1>10
  <2>2. m[1] = s[1]
    BY <1>5, <1>9, <2>1
  <2> QED BY <1>2, <1>8, <1>10, <2>2, Zenon
<1>11. CASE l # <<>>
  <2>1. 1 <= Len(l)
    BY <1>11, EmptySeq
  <2>2. m[1] = l[1]
    BY <1>5, <1>9, <2>1
  <2> QED BY <1>8, <1>11, <2>2, Zenon
<1> QED BY <1>10, <1>11

\* The first argument of list is the first one of cut behind pre.
CutOf(list, cut, pre) ==
    /\ list[1] = pre \o cut[1]
    /\ \A k \in 2 .. Len(list) : cut[k] = list[k]
    /\ cut[1] = <<>> \/ cut[1][1] # Space

\* The spaces in front of the first argument are in front of the line.
LEMMA JoinBehind ==
    ASSUME NEW list \in Seq(Seq(Chars)), list # <<>>,
           NEW cut \in Seq(Seq(Chars)), Len(cut) = Len(list),
           NEW pre \in Seq(Chars), CutOf(list, cut, pre)
    PROVE  /\ Join(list) = pre \o Join(cut)
           /\ Join(cut) = <<>> \/ Join(cut)[1] # Space
<1>1. Len(list) \in Nat \ {0} /\ Len(cut) \in Nat \ {0}
  BY EmptySeq
<1>2. PICK line : /\ line[1] = list[1]
                  /\ \A k \in 2 .. Len(list) : line[k] = Joined(line[k - 1], list[k])
                  /\ Join(list) = line[Len(list)]
  BY <1>1, JoinLoop, Zenon
<1>3. PICK rest : /\ rest[1] = cut[1]
                  /\ \A k \in 2 .. Len(cut) : rest[k] = Joined(rest[k - 1], cut[k])
                  /\ Join(cut) = rest[Len(cut)]
  BY <1>1, JoinLoop, Zenon
<1> DEFINE Goes(l, r) == /\ r \in Seq(Chars)
                         /\ l = pre \o r
                         /\ r = <<>> \/ r[1] # Space
           P == {n \in Nat : n + 1 <= Len(list) => Goes(line[n + 1], rest[n + 1])}
<1>4. 0 \in P
  <2>1. cut[1] \in Seq(Chars)
    BY <1>1, ElementOfSeq
  <2>2. Goes(list[1], cut[1])
    BY <2>1, Zenon DEF CutOf
  <2> HIDE DEF Goes
  <2> QED BY <1>2, <1>3, <2>2
<1>5. ASSUME NEW n \in P PROVE n + 1 \in P
  <2> SUFFICES ASSUME (n + 1) + 1 <= Len(list)
               PROVE  Goes(line[(n + 1) + 1], rest[(n + 1) + 1])
    <3> HIDE DEF Goes
    <3> QED OBVIOUS
  <2>1. /\ n \in Nat /\ n + 1 <= Len(list) /\ (n + 1) + 1 \in 2 .. Len(list)
        /\ (n + 1) + 1 \in 2 .. Len(cut)
        /\ (n + 1) + 1 \in 1 .. Len(list) /\ ((n + 1) + 1) - 1 = n + 1
    BY <1>1
  <2>2. PICK l, a : l = rest[n + 1] /\ a = list[(n + 1) + 1]
    OBVIOUS
  <2>3. l \in Seq(Chars) /\ line[n + 1] = pre \o l /\ (l = <<>> \/ l[1] # Space)
    <3>1. Goes(line[n + 1], rest[n + 1])
      <4> HIDE DEF Goes
      <4> QED BY <2>1
    <3> QED BY <2>2, <3>1, Zenon
  <2>4. a \in Seq(Chars) /\ cut[(n + 1) + 1] = a
    <3>1. a \in Seq(Chars)
      BY <2>1, <2>2, ElementOfSeq
    <3> QED BY <2>1, <2>2, <3>1, Zenon DEF CutOf
  <2>5. line[(n + 1) + 1] = Joined(pre \o l, a)
    BY <1>2, <2>1, <2>2, <2>3
  <2>6. rest[(n + 1) + 1] = Joined(l, a)
    BY <1>3, <2>1, <2>2, <2>4
  <2>7. Joined(pre \o l, a) = pre \o Joined(l, a)
    BY <2>3, <2>4, JoinedBehind, Zenon DEF StaysInFront
  <2>8. Joined(l, a) \in Seq(Chars)
    BY <2>3, <2>4, JoinedProperties
  <2>9. Joined(l, a)[1] # Space
    <3>1. CASE l = <<>>
      BY <2>3, <2>4, <3>1, JoinedFirst, Characters, ZenonT(40)
    <3>2. CASE l # <<>>
      BY <2>3, <2>4, <3>2, JoinedFirst, ZenonT(40)
    <3> QED BY <3>1, <3>2
  <2> QED BY <2>5, <2>6, <2>7, <2>8, <2>9, Zenon
<1>6. Len(list) - 1 \in P
  <2>1. P \subseteq Nat /\ Len(list) - 1 \in Nat
    BY <1>1
  <2> HIDE DEF P
  <2> QED BY <1>4, <1>5, <2>1, SetInduction
<1>7. (Len(list) - 1) + 1 = Len(list) /\ Len(list) <= Len(list)
  BY <1>1
<1>8. /\ line[Len(list)] = pre \o rest[Len(list)]
      /\ rest[Len(list)] = <<>> \/ rest[Len(list)][1] # Space
  <2>1. Goes(line[Len(list)], rest[Len(list)])
    <3> HIDE DEF Goes
    <3> QED BY <1>6, <1>7
  <2> QED BY <2>1, Zenon
<1> QED BY <1>2, <1>3, <1>8, Zenon

\* The first place a test holds at.
LEMMA FirstPlace ==
    ASSUME NEW I, I \subseteq Nat, NEW p \in I, \A q \in I : p <= q
    PROVE  I # {} /\ Min(I) = p
<1>1. \A q \in I : (\A r \in I : q <= r) => q = p
  <2> SUFFICES ASSUME NEW q \in I, \A r \in I : q <= r PROVE q = p
    OBVIOUS
  <2>1. q \in Nat /\ p \in Nat /\ q <= p /\ p <= q
    OBVIOUS
  <2> QED BY <2>1
<1>2. Min(I) = p
  BY <1>1, Zenon DEF Min
<1> QED BY <1>2

LEMMA NameEndIs ==
    ASSUME Len(command_data) \in Nat, NEW p \in 1 .. Len(command_data),
           command_data[p] \in {Space, Newline},
           \A q \in 1 .. p - 1 : command_data[q] \notin {Space, Newline}
    PROVE  NameEnd = p
<1> DEFINE I == {q \in 1 .. Len(command_data) : command_data[q] \in {Space, Newline}}
<1>1. p \in I /\ I \subseteq Nat
  OBVIOUS
<1>2. ASSUME NEW q \in I PROVE p <= q
  <2>1. q \notin 1 .. p - 1 /\ q \in 1 .. Len(command_data)
    OBVIOUS
  <2>2. p \in Nat /\ q \in Nat
    BY <1>1
  <2> HIDE DEF I
  <2> QED BY <2>1, <2>2
<1>3. I # {} /\ Min(I) = p
  <2> HIDE DEF I
  <2> QED BY <1>1, <1>2, FirstPlace
<1> QED BY <1>3, Zenon DEF NameEnd, SelectInSeq

LEMMA RestIs ==
    ASSUME Len(command_data) \in Nat, NameEnd \in 1 .. Len(command_data),
           NEW p \in NameEnd .. Len(command_data),
           command_data[p] # Space,
           \A q \in NameEnd .. p - 1 : command_data[q] = Space
    PROVE  Rest = SubSeq(command_data, p, Len(command_data) - 1)
<1> DEFINE I == {q \in NameEnd .. Len(command_data) : command_data[q] # Space}
<1>1. p \in I /\ I \subseteq Nat
  OBVIOUS
<1>2. ASSUME NEW q \in I PROVE p <= q
  <2>1. q \notin NameEnd .. p - 1 /\ q \in NameEnd .. Len(command_data)
    OBVIOUS
  <2>2. p \in Nat /\ q \in Nat
    BY <1>1
  <2> HIDE DEF I
  <2> QED BY <2>1, <2>2
<1>3. I # {} /\ Min(I) = p
  <2> HIDE DEF I
  <2> QED BY <1>1, <1>2, FirstPlace
<1> QED BY <1>3, Zenon DEF Rest, SelectInSubSeq

-----------------------------------------------------------------------------
(* How the server reads a line                                             *)

LEMMA ConcatPlaces ==
    ASSUME NEW S, NEW s \in Seq(S), NEW t \in Seq(S)
    PROVE  /\ s \o t \in Seq(S) /\ Len(s \o t) = Len(s) + Len(t)
           /\ Len(s) \in Nat /\ Len(t) \in Nat
           /\ \A q \in 1 .. Len(s) : (s \o t)[q] = s[q]
           /\ \A q \in 1 .. Len(t) : (s \o t)[Len(s) + q] = t[q]
<1>1. /\ s \o t \in Seq(S) /\ Len(s \o t) = Len(s) + Len(t)
      /\ \A q \in 1 .. Len(s) + Len(t) : (s \o t)[q] = IF q <= Len(s) THEN s[q] ELSE t[q - Len(s)]
  BY ConcatProperties
<1>2. Len(s) \in Nat /\ Len(t) \in Nat
  BY LenProperties
<1>3. ASSUME NEW q \in 1 .. Len(s) PROVE (s \o t)[q] = s[q]
  <2>1. q \in 1 .. Len(s) + Len(t) /\ q <= Len(s)
    BY <1>2
  <2> QED BY <1>1, <2>1, Zenon
<1>4. ASSUME NEW q \in 1 .. Len(t) PROVE (s \o t)[Len(s) + q] = t[q]
  <2>1. PICK r : r = Len(s) + q
    OBVIOUS
  <2>2. r \in 1 .. Len(s) + Len(t) /\ ~(r <= Len(s)) /\ r - Len(s) = q
    BY <1>2, <2>1
  <2>3. (s \o t)[r] = t[r - Len(s)]
    BY <1>1, <2>2, Zenon
  <2> QED BY <2>1, <2>2, <2>3, Zenon
<1> QED BY <1>1, <1>2, <1>3, <1>4, Zenon

LEMMA OneCharacter ==
    ASSUME NEW c \in Chars
    PROVE  <<c>> \in Seq(Chars) /\ Len(<<c>>) = 1 /\ <<c>>[1] = c
OBVIOUS

LEMMA NameIs ==
    /\ Name \in Seq(Chars) /\ Len(Name) \in Nat \ {0}
    /\ \A q \in 1 .. Len(Name) : Name[q] \notin {Space, Newline}
<1>1. Name \in Seq(STRING) /\ Name # <<>> /\ Separators \cap ToSet(Name) = {}
  BY NameAssumption, Zenon
<1>2. Name \in Seq(Chars)
  BY <1>1, Characters, SeqMonotonic, Zenon
<1>3. Len(Name) \in Nat \ {0} /\ DOMAIN Name = 1 .. Len(Name)
  BY <1>1, EmptySeq, LenProperties
<1>4. \A q \in 1 .. Len(Name) : Name[q] \in ToSet(Name)
  BY <1>3, Zenon DEF ToSet
<1>5. \A q \in 1 .. Len(Name) : Name[q] \notin {Space, Newline}
  BY <1>1, <1>4, Zenon DEF Separators
<1> QED BY <1>2, <1>3, <1>5, Zenon

\* A line whose arguments begin with the spaces of pre.
LineOf(pre, j) == (Name \o (<<Space>> \o (pre \o j))) \o <<Newline>>

\* Where the parts of such a line stand.
HasPlaces(line, pre, j) ==
    /\ line \in Seq(Chars) /\ Len(line) = Len(Name) + Len(pre) + Len(j) + 2
    /\ Len(pre) \in Nat /\ Len(j) \in Nat
    /\ \A q \in 1 .. Len(Name) : line[q] = Name[q]
    /\ line[Len(Name) + 1] = Space
    /\ \A q \in 1 .. Len(pre) : line[Len(Name) + 1 + q] = pre[q]
    /\ \A q \in 1 .. Len(j) : line[Len(Name) + 1 + Len(pre) + q] = j[q]
    /\ line[Len(line)] = Newline

LEMMA LinePlaces ==
    ASSUME NEW pre \in Seq(Chars), NEW j \in Seq(Chars)
    PROVE  HasPlaces(LineOf(pre, j), pre, j)
<1>0. PICK line : line = LineOf(pre, j)
  OBVIOUS
<1>1. PICK s, e : s = <<Space>> /\ e = <<Newline>>
  OBVIOUS
<1>2. PICK x : x = pre \o j
  OBVIOUS
<1>3. PICK y : y = s \o x
  OBVIOUS
<1>4. PICK z : z = Name \o y
  OBVIOUS
<1>5. line = z \o e
  BY <1>0, <1>1, <1>2, <1>3, <1>4, Zenon DEF LineOf
<1>6. /\ s \in Seq(Chars) /\ Len(s) = 1 /\ s[1] = Space
      /\ e \in Seq(Chars) /\ Len(e) = 1 /\ e[1] = Newline
  BY <1>1, Characters, OneCharacter, Zenon
<1>7. /\ x \in Seq(Chars) /\ Len(x) = Len(pre) + Len(j)
      /\ Len(pre) \in Nat /\ Len(j) \in Nat
      /\ \A q \in 1 .. Len(pre) : x[q] = pre[q]
      /\ \A q \in 1 .. Len(j) : x[Len(pre) + q] = j[q]
  <2> HIDE <1>2
  <2>1. /\ pre \o j \in Seq(Chars) /\ Len(pre \o j) = Len(pre) + Len(j)
        /\ Len(pre) \in Nat /\ Len(j) \in Nat
        /\ \A q \in 1 .. Len(pre) : (pre \o j)[q] = pre[q]
        /\ \A q \in 1 .. Len(j) : (pre \o j)[Len(pre) + q] = j[q]
    BY ConcatPlaces
  <2> QED BY <1>2, <2>1, Zenon
<1>8. /\ y \in Seq(Chars) /\ Len(y) = 1 + Len(x)
      /\ y[1] = Space
      /\ \A q \in 1 .. Len(x) : y[1 + q] = x[q]
  <2>1. /\ s \o x \in Seq(Chars) /\ Len(s \o x) = Len(s) + Len(x)
        /\ \A q \in 1 .. Len(s) : (s \o x)[q] = s[q]
        /\ \A q \in 1 .. Len(x) : (s \o x)[Len(s) + q] = x[q]
    <3>1. s \in Seq(Chars) /\ x \in Seq(Chars)
      BY <1>6, <1>7
    <3> QED BY <3>1, ConcatPlaces
  <2>2. 1 \in 1 .. 1
    OBVIOUS
  <2> QED BY <1>3, <1>6, <2>1, <2>2, Zenon
<1>9. /\ z \in Seq(Chars) /\ Len(z) = Len(Name) + Len(y)
      /\ \A q \in 1 .. Len(Name) : z[q] = Name[q]
      /\ \A q \in 1 .. Len(y) : z[Len(Name) + q] = y[q]
  <2>1. /\ Name \o y \in Seq(Chars) /\ Len(Name \o y) = Len(Name) + Len(y)
        /\ \A q \in 1 .. Len(Name) : (Name \o y)[q] = Name[q]
        /\ \A q \in 1 .. Len(y) : (Name \o y)[Len(Name) + q] = y[q]
    <3>1. Name \in Seq(Chars) /\ y \in Seq(Chars)
      BY <1>8, NameIs
    <3> QED BY <3>1, ConcatPlaces
  <2> QED BY <1>4, <2>1, Zenon
<1>10. /\ line \in Seq(Chars) /\ Len(line) = Len(z) + 1
       /\ \A q \in 1 .. Len(z) : line[q] = z[q]
       /\ line[Len(z) + 1] = Newline
  <2>1. /\ z \o e \in Seq(Chars) /\ Len(z \o e) = Len(z) + Len(e)
        /\ \A q \in 1 .. Len(z) : (z \o e)[q] = z[q]
        /\ \A q \in 1 .. Len(e) : (z \o e)[Len(z) + q] = e[q]
    <3>1. z \in Seq(Chars) /\ e \in Seq(Chars)
      BY <1>6, <1>9
    <3> QED BY <3>1, ConcatPlaces
  <2>2. 1 \in 1 .. 1
    OBVIOUS
  <2> QED BY <1>5, <1>6, <2>1, <2>2, Zenon
<1>11. /\ Len(Name) \in Nat \ {0} /\ Len(x) \in Nat /\ Len(y) \in Nat /\ Len(z) \in Nat
       /\ Len(y) = 1 + Len(pre) + Len(j) /\ Len(z) = Len(Name) + 1 + Len(pre) + Len(j)
       /\ Len(line) = Len(Name) + Len(pre) + Len(j) + 2
  BY <1>7, <1>8, <1>9, <1>10, NameIs
<1>12. ASSUME NEW q \in 1 .. Len(Name) PROVE line[q] = Name[q]
  <2>1. q \in 1 .. Len(z)
    BY <1>7, <1>11
  <2> QED BY <1>9, <1>10, <2>1, Zenon
<1>13. ASSUME NEW q \in 1 .. Len(y) PROVE line[Len(Name) + q] = y[q]
  <2>1. Len(Name) + q \in 1 .. Len(z)
    BY <1>9, <1>11
  <2> QED BY <1>9, <1>10, <2>1, Zenon
<1>14. line[Len(Name) + 1] = Space
  <2>1. 1 \in 1 .. Len(y)
    BY <1>7, <1>11
  <2> QED BY <1>8, <1>13, <2>1, Zenon
<1>15. ASSUME NEW q \in 1 .. Len(x) PROVE line[Len(Name) + 1 + q] = x[q]
  <2>1. 1 + q \in 1 .. Len(y) /\ Len(Name) + 1 + q = Len(Name) + (1 + q)
    BY <1>8, <1>11
  <2> QED BY <1>8, <1>13, <2>1, Zenon
<1>16. ASSUME NEW q \in 1 .. Len(pre) PROVE line[Len(Name) + 1 + q] = pre[q]
  <2>1. q \in 1 .. Len(x)
    BY <1>7
  <2> QED BY <1>7, <1>15, <2>1, Zenon
<1>17. ASSUME NEW q \in 1 .. Len(j) PROVE line[Len(Name) + 1 + Len(pre) + q] = j[q]
  <2>1. /\ Len(pre) + q \in 1 .. Len(x)
        /\ Len(Name) + 1 + Len(pre) + q = Len(Name) + 1 + (Len(pre) + q)
    BY <1>7, <1>11
  <2> QED BY <1>7, <1>15, <2>1, Zenon
<1>18. line[Len(line)] = Newline
  BY <1>10, Zenon
<1>19. HasPlaces(line, pre, j)
  BY <1>7, <1>10, <1>11, <1>12, <1>14, <1>16, <1>17, <1>18, Zenon DEF HasPlaces
<1> QED BY <1>0, <1>19, Zenon

\* The server finds the end of the name and what stands behind the spaces.
LEMMA LineRead ==
    ASSUME NEW pre \in Seq(Chars), NEW j \in Seq(Chars),
           \A q \in 1 .. Len(pre) : pre[q] = Space,
           j = <<>> \/ j[1] # Space,
           command_data = LineOf(pre, j)
    PROVE  /\ NameEnd = Len(Name) + 1
           /\ command_data[NameEnd] = Space
           /\ SubSeq(command_data, 1, NameEnd - 1) = Name
           /\ Rest = j
           /\ Len(command_data) \in Nat /\ Len(j) \in Nat /\ Len(Name) \in Nat
           /\ Len(Name) + Len(j) + 2 <= Len(command_data)
<1>1. /\ command_data \in Seq(Chars)
      /\ Len(command_data) = Len(Name) + Len(pre) + Len(j) + 2
      /\ Len(pre) \in Nat /\ Len(j) \in Nat
      /\ \A q \in 1 .. Len(Name) : command_data[q] = Name[q]
      /\ command_data[Len(Name) + 1] = Space
      /\ \A q \in 1 .. Len(pre) : command_data[Len(Name) + 1 + q] = pre[q]
      /\ \A q \in 1 .. Len(j) : command_data[Len(Name) + 1 + Len(pre) + q] = j[q]
      /\ command_data[Len(command_data)] = Newline
  <2>1. HasPlaces(LineOf(pre, j), pre, j)
    BY LinePlaces
  <2>2. HasPlaces(command_data, pre, j)
    BY <2>1
  <2> QED BY <2>2, Zenon DEF HasPlaces
<1>2. /\ Name \in Seq(Chars) /\ Len(Name) \in Nat \ {0}
      /\ \A q \in 1 .. Len(Name) : Name[q] \notin {Space, Newline}
  BY NameIs
<1>3. Len(command_data) \in Nat
  BY <1>1, <1>2
<1>4. PICK p : p = Len(Name) + 1
  OBVIOUS
<1>5. NameEnd = p
  <2>1. p \in 1 .. Len(command_data)
    BY <1>1, <1>2, <1>4
  <2>2. command_data[p] \in {Space, Newline}
    BY <1>1, <1>4
  <2>3. ASSUME NEW q \in 1 .. p - 1 PROVE command_data[q] \notin {Space, Newline}
    <3>1. q \in 1 .. Len(Name)
      BY <1>2, <1>4
    <3> QED BY <1>1, <1>2, <3>1, Zenon
  <2> QED BY <1>3, <2>1, <2>2, <2>3, NameEndIs, Zenon
<1>6. PICK r : r = Len(Name) + 1 + Len(pre) + 1
  OBVIOUS
<1>7. r \in NameEnd .. Len(command_data) /\ NameEnd \in 1 .. Len(command_data)
  BY <1>1, <1>2, <1>4, <1>5, <1>6
<1>8. ASSUME NEW q \in NameEnd .. r - 1 PROVE command_data[q] = Space
  <2>1. CASE q = p
    BY <1>1, <1>4, <2>1
  <2>2. CASE q # p
    <3>1. PICK k : k = q - (Len(Name) + 1)
      OBVIOUS
    <3>2. k \in 1 .. Len(pre) /\ Len(Name) + 1 + k = q
      BY <1>1, <1>2, <1>4, <1>5, <1>6, <2>2, <3>1
    <3> QED BY <1>1, <3>2, Zenon
  <2> QED BY <2>1, <2>2
<1>9. command_data[r] # Space
  <2>1. CASE j = <<>>
    <3>1. r = Len(command_data)
      <4>1. Len(j) = 0
        BY <2>1
      <4> QED BY <1>1, <1>2, <1>6, <4>1
    <3> QED BY <1>1, <3>1, Characters, Zenon
  <2>2. CASE j # <<>>
    <3>1. 1 \in 1 .. Len(j)
      BY <2>2, EmptySeq
    <3>2. command_data[r] = j[1]
      BY <1>1, <1>6, <3>1
    <3> QED BY <2>2, <3>2
  <2> QED BY <2>1, <2>2
<1>10. Rest = SubSeq(command_data, r, Len(command_data) - 1)
  BY <1>3, <1>7, <1>8, <1>9, RestIs, Zenon
<1>11. \A q \in 1 .. Len(command_data) : command_data[q] \in Chars
  BY <1>1, ElementOfSeq
<1>12. Rest = j
  <2>1. PICK e, x : e = Len(command_data) - 1 /\ x = SubSeq(command_data, r, e)
    OBVIOUS
  <2>2. r \in Int /\ e \in Int /\ e - r + 1 = Len(j) /\ (r <= e \/ Len(j) = 0)
    BY <1>1, <1>2, <1>6, <2>1
  <2>3. \A q \in r .. e : command_data[q] \in Chars
    <3>1. \A q \in r .. e : q \in 1 .. Len(command_data)
      BY <1>1, <1>2, <1>6, <2>1
    <3> QED BY <1>11, <3>1
  <2>4. /\ x \in Seq(Chars) /\ Len(x) = IF r <= e THEN e - r + 1 ELSE 0
        /\ \A q \in 1 .. e - r + 1 : x[q] = command_data[r + q - 1]
    BY <2>1, <2>2, <2>3, SubSeqProperties
  <2>5. Len(x) = Len(j)
    BY <1>1, <2>2, <2>4
  <2>6. ASSUME NEW q \in 1 .. Len(x) PROVE x[q] = j[q]
    <3>1. /\ q \in 1 .. e - r + 1 /\ q \in 1 .. Len(j)
          /\ r + q - 1 = Len(Name) + 1 + Len(pre) + q
      BY <1>1, <1>2, <1>6, <2>2, <2>5
    <3> QED BY <1>1, <2>4, <3>1, ZenonT(40)
  <2>7. x = j
    BY <2>4, <2>5, <2>6, SeqEqual
  <2> QED BY <1>10, <2>1, <2>7, Zenon
<1>13. SubSeq(command_data, 1, NameEnd - 1) = Name
  <2>1. PICK n, x : n = Len(Name) /\ x = SubSeq(command_data, 1, n)
    OBVIOUS
  <2>2. \A q \in 1 .. n : command_data[q] \in Chars /\ command_data[q] = Name[q]
    BY <1>1, <1>2, <1>11, <2>1
  <2>3. n \in Int /\ 1 <= n /\ n - 1 + 1 = n
    BY <1>2, <2>1
  <2>4. /\ x \in Seq(Chars) /\ Len(x) = IF 1 <= n THEN n - 1 + 1 ELSE 0
        /\ \A q \in 1 .. n - 1 + 1 : x[q] = command_data[1 + q - 1]
    BY <2>1, <2>2, <2>3, SubSeqProperties
  <2>5. Len(x) = Len(Name)
    BY <2>1, <2>3, <2>4
  <2>6. ASSUME NEW q \in 1 .. Len(x) PROVE x[q] = Name[q]
    <3>1. q \in 1 .. n - 1 + 1 /\ q \in 1 .. n /\ 1 + q - 1 = q
      BY <2>1, <2>3, <2>5
    <3> QED BY <2>2, <2>4, <3>1, Zenon
  <2>7. x = Name
    BY <1>2, <2>4, <2>5, <2>6, SeqEqual
  <2>8. NameEnd - 1 = n
    BY <1>2, <1>4, <1>5, <2>1
  <2> QED BY <2>1, <2>7, <2>8, Zenon
<1>14. Len(Name) + Len(j) + 2 <= Len(command_data)
  BY <1>1, <1>2
<1> QED BY <1>1, <1>2, <1>3, <1>4, <1>5, <1>12, <1>13, <1>14, Zenon

\* A line without arguments is the name and the newline.
LEMMA BareLineRead ==
    ASSUME command_data = (Name \o <<>>) \o <<Newline>>
    PROVE  /\ NameEnd = Len(Name) + 1
           /\ command_data[NameEnd] = Newline
           /\ SubSeq(command_data, 1, NameEnd - 1) = Name
           /\ Len(Name) \in Nat /\ Len(command_data) = Len(Name) + 1
<1>1. /\ Name \in Seq(Chars) /\ Len(Name) \in Nat \ {0}
      /\ \A q \in 1 .. Len(Name) : Name[q] \notin {Space, Newline}
  BY NameIs
<1>2. PICK e : e = <<Newline>>
  OBVIOUS
<1>3. e \in Seq(Chars) /\ Len(e) = 1 /\ e[1] = Newline
  BY <1>2, Characters, OneCharacter, Zenon
<1>4. Name \o <<>> = Name
  BY <1>1, ConcatEmptySeq
<1>5. /\ Name \o e \in Seq(Chars) /\ Len(Name \o e) = Len(Name) + Len(e)
      /\ \A q \in 1 .. Len(Name) : (Name \o e)[q] = Name[q]
      /\ \A q \in 1 .. Len(e) : (Name \o e)[Len(Name) + q] = e[q]
  BY <1>1, <1>3, ConcatPlaces, SMTT(40)
<1>6. /\ command_data \in Seq(Chars) /\ Len(command_data) = Len(Name) + 1
      /\ \A q \in 1 .. Len(Name) : command_data[q] = Name[q]
      /\ command_data[Len(Name) + 1] = Newline
  <2>1. 1 \in 1 .. 1
    OBVIOUS
  <2> QED BY <1>2, <1>3, <1>4, <1>5, <2>1, Zenon
<1>7. PICK p : p = Len(Name) + 1
  OBVIOUS
<1>8. NameEnd = p
  <2>1. p \in 1 .. Len(command_data) /\ Len(command_data) \in Nat
    BY <1>1, <1>6, <1>7
  <2>2. command_data[p] \in {Space, Newline}
    BY <1>6, <1>7
  <2>3. ASSUME NEW q \in 1 .. p - 1 PROVE command_data[q] \notin {Space, Newline}
    <3>1. q \in 1 .. Len(Name)
      BY <1>1, <1>7
    <3> QED BY <1>1, <1>6, <3>1, Zenon
  <2> QED BY <2>1, <2>2, <2>3, NameEndIs, Zenon
<1>9. SubSeq(command_data, 1, NameEnd - 1) = Name
  <2>1. PICK n, x : n = Len(Name) /\ x = SubSeq(command_data, 1, n)
    OBVIOUS
  <2>2. \A q \in 1 .. n : command_data[q] \in Chars /\ command_data[q] = Name[q]
    <3>1. \A q \in 1 .. n : Name[q] \in Chars
      BY <1>1, <2>1, ElementOfSeq
    <3> QED BY <1>6, <2>1, <3>1
  <2>3. n \in Int /\ 1 <= n /\ n - 1 + 1 = n
    BY <1>1, <2>1
  <2>4. /\ x \in Seq(Chars) /\ Len(x) = IF 1 <= n THEN n - 1 + 1 ELSE 0
        /\ \A q \in 1 .. n - 1 + 1 : x[q] = command_data[1 + q - 1]
    BY <2>1, <2>2, <2>3, SubSeqProperties
  <2>5. Len(x) = Len(Name)
    BY <2>1, <2>3, <2>4
  <2>6. ASSUME NEW q \in 1 .. Len(x) PROVE x[q] = Name[q]
    <3>1. q \in 1 .. n - 1 + 1 /\ q \in 1 .. n /\ 1 + q - 1 = q
      BY <2>1, <2>3, <2>5
    <3> QED BY <2>2, <2>4, <3>1, Zenon
  <2>7. x = Name
    BY <1>1, <2>4, <2>5, <2>6, SeqEqual
  <2>8. NameEnd - 1 = n
    BY <1>1, <1>7, <1>8, <2>1
  <2> QED BY <2>1, <2>7, <2>8, Zenon
<1> QED BY <1>1, <1>6, <1>7, <1>8, <1>9, Zenon

\* What the arguments the handler gets have to do with those asked for.
GetsAsked(got, list) ==
    /\ DOMAIN got = 1 .. Len(list) /\ Len(got) = Len(list)
    /\ \A k \in 1 .. Len(list) :
          IF k > 1 THEN got[k] = list[k]
          ELSE \E n \in 0 .. Len(list[1]) : /\ list[1] = [q \in 1 .. n |-> Space] \o got[1]
                                            /\ got[1] # <<>> => Head(got[1]) # Space

LEMMA RequestedTexts ==
    ASSUME NEW list \in Requested
    PROVE  /\ list \in Seq(Seq(Chars)) /\ Len(list) \in Nat
           /\ \A k \in 1 .. Len(list) : Plain(list[k])
<1>1. PICK n \in 0 .. MaxArgs : list \in [1 .. n -> Texts]
  BY DEF Requested
<1>2. n \in Nat /\ list \in Seq(Texts) /\ Len(list) = n
  BY <1>1
<1>3. ASSUME NEW t \in Texts PROVE t \in Seq(Chars) /\ Plain(t)
  <2>1. t \in Seq(STRING) /\ {Semicolon, Newline} \cap ToSet(t) = {}
    BY TextsAssumption, Zenon
  <2>2. t \in Seq(Chars)
    BY <2>1, Characters, SeqMonotonic, Zenon
  <2>3. DOMAIN t = 1 .. Len(t)
    BY <2>1, LenProperties
  <2>4. \A q \in 1 .. Len(t) : t[q] \in ToSet(t)
    BY <2>3, Zenon DEF ToSet
  <2>5. Plain(t)
    BY <2>1, <2>4, Zenon DEF Plain
  <2> QED BY <2>2, <2>5
<1>4. Texts \subseteq Seq(Chars)
  BY <1>3
<1>5. list \in Seq(Seq(Chars))
  BY <1>2, <1>4, SeqMonotonic, Zenon
<1>6. ASSUME NEW k \in 1 .. Len(list) PROVE Plain(list[k])
  <2>1. list[k] \in Texts
    BY <1>1, <1>2
  <2> QED BY <1>3, <2>1
<1> QED BY <1>2, <1>5, <1>6, Zenon

\* The first argument without its spaces, and what becomes of the line.
LEMMA CutIt ==
    ASSUME NEW list \in Seq(Seq(Chars)), list # <<>>
    PROVE  \E pre, cut : /\ pre \in Seq(Chars) /\ cut \in Seq(Seq(Chars)) /\ Len(cut) = Len(list)
                         /\ CutOf(list, cut, pre)
                         /\ \A q \in 1 .. Len(pre) : pre[q] = Space
<1>1. Len(list) \in Nat \ {0} /\ 1 \in 1 .. Len(list)
  BY EmptySeq
<1>2. list[1] \in Seq(Chars)
  BY <1>1, ElementOfSeq
<1>3. PICK pre, b : /\ pre \in Seq(Chars) /\ b \in Seq(Chars)
                    /\ list[1] = pre \o b
                    /\ \A q \in 1 .. Len(pre) : pre[q] = Space
                    /\ b = <<>> \/ b[1] # Space
  BY <1>2, LeadingSpaces, Zenon
<1>4. PICK cut : cut = [list EXCEPT ![1] = b]
  OBVIOUS
<1>5. PICK T, o : T = Seq(Chars) /\ o = 1
  OBVIOUS
<1>6. list \in Seq(T) /\ b \in T /\ o \in 1 .. Len(list)
  BY <1>1, <1>3, <1>5, Zenon
<1>7. /\ [list EXCEPT ![o] = b] \in Seq(T) /\ Len([list EXCEPT ![o] = b]) = Len(list)
      /\ \A k \in 1 .. Len(list) : [list EXCEPT ![o] = b][k] = IF k = o THEN b ELSE list[k]
  <2> HIDE <1>1, <1>2, <1>3, <1>4, <1>5
  <2> QED BY <1>6, LastReplaced
<1>8. /\ cut \in Seq(Seq(Chars)) /\ Len(cut) = Len(list)
      /\ \A k \in 1 .. Len(list) : cut[k] = IF k = 1 THEN b ELSE list[k]
  BY <1>4, <1>5, <1>7, Zenon
<1>9. cut[1] = b
  BY <1>1, <1>8, Zenon
<1>10. \A k \in 2 .. Len(list) : k \in 1 .. Len(list) /\ k # 1
  BY <1>1
<1>11. \A k \in 2 .. Len(list) : cut[k] = list[k]
  BY <1>8, <1>10, Zenon
<1>12. CutOf(list, cut, pre)
  BY <1>3, <1>9, <1>11, Zenon DEF CutOf
<1> QED BY <1>3, <1>8, <1>12, Zenon

LEMMA CutGetsAsked ==
    ASSUME NEW list \in Seq(Seq(Chars)), list # <<>>,
           NEW cut \in Seq(Seq(Chars)), Len(cut) = Len(list),
           NEW pre \in Seq(Chars), CutOf(list, cut, pre),
           \A q \in 1 .. Len(pre) : pre[q] = Space
    PROVE  GetsAsked(cut, list)
<1>1. /\ Len(list) \in Nat \ {0} /\ 1 \in 1 .. Len(list) /\ 1 \in 1 .. Len(cut)
      /\ DOMAIN cut = 1 .. Len(list)
  BY EmptySeq, LenProperties
<1>2. ASSUME NEW k \in 1 .. Len(list), k > 1 PROVE cut[k] = list[k]
  <2>1. k \in 2 .. Len(list)
    BY <1>1, <1>2
  <2> QED BY <2>1, Zenon DEF CutOf
<1>3. cut[1] \in Seq(Chars)
  BY <1>1, ElementOfSeq
<1>4. PICK n : n = Len(pre)
  OBVIOUS
<1>5. n \in Nat /\ pre \in [1 .. n -> Chars]
  BY <1>4, LenProperties
<1>6. pre = [q \in 1 .. n |-> Space]
  BY <1>4, <1>5
<1>7. n \in 0 .. Len(list[1])
  <2>1. list[1] = pre \o cut[1]
    BY Zenon DEF CutOf
  <2>2. PICK c : c = cut[1]
    OBVIOUS
  <2>3. c \in Seq(Chars)
    BY <1>3, <2>2
  <2>4. Len(pre \o c) = Len(pre) + Len(c) /\ Len(c) \in Nat
    BY <2>3, ConcatPlaces
  <2>5. Len(list[1]) = n + Len(c)
    BY <1>4, <2>1, <2>2, <2>4, Zenon
  <2> QED BY <1>5, <2>4, <2>5
<1>8. list[1] = [q \in 1 .. n |-> Space] \o cut[1]
  BY <1>6, Zenon DEF CutOf
<1>9. cut[1] # <<>> => Head(cut[1]) # Space
  <2>1. PICK c : c = cut[1]
    OBVIOUS
  <2>2. c \in Seq(Chars) /\ (c = <<>> \/ c[1] # Space)
    BY <1>3, <2>1, Zenon DEF CutOf
  <2>3. c # <<>> => Head(c) = c[1]
    BY <2>2
  <2> QED BY <2>1, <2>2, <2>3, Zenon
<1>10. ASSUME NEW k \in 1 .. Len(list), ~(k > 1) PROVE k = 1
  BY <1>1, <1>10
<1> QED BY <1>1, <1>2, <1>7, <1>8, <1>9, <1>10, Zenon DEF GetsAsked

\* What the server makes of the line of a request with arguments.
LEMMA ArgumentsRead ==
    ASSUME asked \in Requested, asked # <<>>, command_data = Line(asked)
    PROVE  /\ command_data[NameEnd] # Newline
           /\ SubSeq(command_data, 1, NameEnd - 1) = Name
           /\ Len(command_data) \in Nat /\ Len(Name) + 1 <= Len(command_data)
           /\ GetsAsked(Split(Rest), asked)
           /\ \A k \in 1 .. Len(asked) : /\ Len(Split(Rest)[k]) \in Nat
                                        /\ Len(Split(Rest)[k]) + 1 <= Len(command_data)
<1>1. PICK list : list = asked
  OBVIOUS
<1>2. /\ list \in Seq(Seq(Chars)) /\ Len(list) \in Nat /\ list # <<>>
      /\ \A k \in 1 .. Len(list) : Plain(list[k])
  BY <1>1, RequestedTexts
<1>3. PICK pre, cut : /\ pre \in Seq(Chars) /\ cut \in Seq(Seq(Chars)) /\ Len(cut) = Len(list)
                      /\ CutOf(list, cut, pre)
                      /\ \A q \in 1 .. Len(pre) : pre[q] = Space
  BY <1>2, CutIt, Zenon
<1>4. PICK j : j = Join(cut)
  OBVIOUS
<1>5. cut # <<>>
  <2>1. Len(list) # 0
    BY <1>2, EmptySeq
  <2> QED BY <1>3, <2>1
<1>6. j \in Seq(Chars) /\ \A k \in 1 .. Len(cut) : Len(cut[k]) <= Len(j)
  BY <1>3, <1>4, <1>5, JoinProperties, Zenon
<1>7. Join(list) = pre \o j /\ (j = <<>> \/ j[1] # Space)
  BY <1>2, <1>3, <1>4, JoinBehind, Zenon
<1>8. command_data = LineOf(pre, j)
  BY <1>1, <1>2, <1>7, Zenon DEF Line, LineOf
<1>9. /\ command_data[NameEnd] = Space
      /\ SubSeq(command_data, 1, NameEnd - 1) = Name
      /\ Rest = j
      /\ Len(command_data) \in Nat /\ Len(j) \in Nat /\ Len(Name) \in Nat
      /\ Len(Name) + Len(j) + 2 <= Len(command_data)
  BY <1>3, <1>6, <1>7, <1>8, LineRead, Zenon
<1>10. ASSUME NEW k \in 1 .. Len(cut) PROVE Plain(cut[k])
  <2>1. CASE k = 1
    <3>1. PICK c, a : c = cut[1] /\ a = list[1]
      OBVIOUS
    <3>2. 1 \in 1 .. Len(list) /\ 1 \in 1 .. Len(cut)
      BY <1>2, <1>3, EmptySeq
    <3>3. c \in Seq(Chars) /\ a = pre \o c /\ Plain(a)
      <4>1. c \in Seq(Chars)
        BY <1>3, <3>1, <3>2, ElementOfSeq
      <4> QED BY <1>2, <1>3, <3>1, <3>2, <4>1, Zenon DEF CutOf
    <3>4. ASSUME NEW q \in 1 .. Len(c) PROVE c[q] # Semicolon
      <4>1. /\ Len(pre \o c) = Len(pre) + Len(c) /\ Len(pre) \in Nat /\ Len(c) \in Nat
            /\ (pre \o c)[Len(pre) + q] = c[q]
        <5>1. pre \in Seq(Chars) /\ c \in Seq(Chars)
          BY <1>3, <3>3
        <5> QED BY <5>1, ConcatPlaces
      <4>2. Len(pre) + q \in 1 .. Len(pre) + Len(c)
        BY <4>1
      <4>3. a[Len(pre) + q] = c[q] /\ Len(pre) + q \in 1 .. Len(a)
        BY <3>3, <4>1, <4>2, Zenon
      <4> QED BY <3>3, <4>3, Zenon DEF Plain
    <3> QED BY <2>1, <3>1, <3>4, Zenon DEF Plain
  <2>2. CASE k # 1
    <3>1. k \in 2 .. Len(list) /\ k \in 1 .. Len(list)
      BY <1>2, <1>3, <2>2
    <3>2. cut[k] = list[k]
      BY <1>3, <3>1, Zenon DEF CutOf
    <3> QED BY <1>2, <3>1, <3>2, Zenon
  <2> QED BY <2>1, <2>2
<1>11. Split(j) = cut
  BY <1>3, <1>4, <1>5, <1>10, SplitJoin, Zenon
<1>12. GetsAsked(cut, list)
  BY <1>2, <1>3, CutGetsAsked, Zenon
<1>13. ASSUME NEW k \in 1 .. Len(list)
       PROVE  Len(cut[k]) \in Nat /\ Len(cut[k]) + 1 <= Len(command_data)
  <2>1. cut[k] \in Seq(Chars) /\ Len(cut[k]) <= Len(j)
    BY <1>3, <1>6, ElementOfSeq
  <2>2. Len(cut[k]) \in Nat
    BY <2>1, LenProperties
  <2> QED BY <1>9, <2>1, <2>2
<1>14. Len(Name) + 1 <= Len(command_data)
  BY <1>9
<1> QED BY <1>1, <1>9, <1>11, <1>12, <1>13, <1>14, Characters, Zenon

-----------------------------------------------------------------------------
(* The line of a request                                                   *)

\* The line is what was asked for until the server reads it, and nothing is
\* overrun as long as the request goes on.
LineInv ==
    /\ pc = "line" => /\ asked \in Requested /\ command_data = Line(asked)
                      /\ overrun \subseteq {"command_data"}
                      /\ Len(command_data) <= CommandMax => overrun = {}
    /\ pc \notin {"line", "undefined"} => overrun = {}
    /\ HandlerGetsAsked
    /\ FittingLineIsSafe

\* What the handler gets once the line is read, and how long it is.
LEMMA RequestRead ==
    ASSUME asked \in Requested, command_data = Line(asked), process_command
    PROVE  /\ cmd' = Name /\ GetsAsked(args', asked)
           /\ Len(command_data) \in Nat /\ Len(Name) + 1 <= Len(command_data)
           /\ \A k \in 1 .. Len(asked) : /\ Len(args'[k]) \in Nat
                                        /\ Len(args'[k]) + 1 <= Len(command_data)
<1>1. /\ cmd' = SubSeq(command_data, 1, NameEnd - 1)
      /\ args' = IF command_data[NameEnd] = Newline THEN <<>> ELSE Split(Rest)
  BY Zenon DEF process_command
<1>2. CASE asked = <<>>
  <2>1. command_data = (Name \o <<>>) \o <<Newline>>
    BY <1>2, Zenon DEF Line
  <2>2. /\ command_data[NameEnd] = Newline
        /\ SubSeq(command_data, 1, NameEnd - 1) = Name
        /\ Len(Name) \in Nat /\ Len(command_data) = Len(Name) + 1
    BY <2>1, BareLineRead, Zenon
  <2>3. cmd' = Name /\ args' = <<>>
    BY <1>1, <2>2, Zenon
  <2>4. \A k \in 1 .. Len(<<>>) : FALSE
    OBVIOUS
  <2>5. DOMAIN <<>> = 1 .. Len(<<>>)
    OBVIOUS
  <2>6. GetsAsked(<<>>, <<>>)
    BY <2>4, <2>5, Zenon DEF GetsAsked
  <2>7. Len(command_data) \in Nat /\ Len(Name) + 1 <= Len(command_data)
    BY <2>2
  <2> QED BY <1>2, <2>3, <2>4, <2>6, <2>7, Zenon
<1>3. CASE asked # <<>>
  BY <1>1, <1>3, ArgumentsRead, Zenon
<1> QED BY <1>2, <1>3

LEMMA LineRequested ==
    ASSUME LineInv, NEW list \in Requested, execute_command(list)
    PROVE  LineInv'
<1>1. /\ pc = "idle" /\ pc' = "line" /\ asked' = list /\ command_data' = Line(list)
      /\ overrun' = IF Len(Line(list)) > CommandMax THEN {"command_data"} ELSE {}
  BY Zenon DEF execute_command
<1>2. list \in Seq(Seq(Chars)) /\ Len(list) \in Nat
  BY RequestedTexts
<1>3. Line(list)' = Line(list) /\ (asked \in Requested)' = (asked' \in Requested)
  BY DEF Line, Join, Requested
<1>4. CommandMax \in Nat
  BY SizesAssumption
<1>5. /\ overrun' \subseteq {"command_data"}
      /\ Len(command_data') <= CommandMax => overrun' = {}
  <2>1. CASE Len(Line(list)) > CommandMax
    BY <1>1, <1>4, <2>1
  <2>2. CASE ~(Len(Line(list)) > CommandMax)
    BY <1>1, <2>2
  <2> QED BY <2>1, <2>2
<1> QED BY <1>1, <1>5 DEF LineInv, HandlerGetsAsked, FittingLineIsSafe

\* Reading a line writes past the end of its buffers only where the line itself did
\* or where there are too many arguments.
LEMMA LineIsRead ==
    ASSUME LineInv, process_command
    PROVE  LineInv'
<1>1. /\ pc = "line" /\ asked' = asked /\ command_data' = command_data
      /\ overrun' = overrun
           \cup (IF Len(cmd') + 1 > CmdSize THEN {"cmd"} ELSE {})
           \cup (IF Len(args') > ArgsMax THEN {"args"} ELSE {})
           \cup (IF \E k \in DOMAIN args' : Len(args'[k]) + 1 > ArgMax THEN {"argument"} ELSE {})
      /\ pc' = IF overrun' = {} THEN "execute" ELSE "undefined"
  BY Zenon DEF process_command
<1>2. /\ asked \in Requested /\ command_data = Line(asked)
      /\ overrun \subseteq {"command_data"}
      /\ Len(command_data) <= CommandMax => overrun = {}
  BY <1>1 DEF LineInv
<1>3. PICK got, n, m : got = args' /\ n = Len(command_data) /\ m = Len(Name)
  OBVIOUS
<1>4. /\ cmd' = Name /\ GetsAsked(got, asked) /\ n \in Nat /\ m + 1 <= n
      /\ \A k \in 1 .. Len(asked) : Len(got[k]) \in Nat /\ Len(got[k]) + 1 <= n
  BY <1>2, <1>3, RequestRead, Zenon
<1>5. m \in Nat /\ Len(asked) \in Nat
  BY <1>2, <1>3, NameIs, RequestedTexts
<1>6. DOMAIN got = 1 .. Len(asked) /\ Len(got) = Len(asked)
  BY <1>4, Zenon DEF GetsAsked
<1>7. CommandMax \in Nat /\ ArgsMax \in Nat /\ ArgMax \in Nat /\ CommandMax < ArgMax
  BY SizesAssumption
<1>8. ~(Len(cmd') + 1 > CmdSize)
  <2>1. Len(cmd') = m /\ CmdSize = n
    BY <1>3, <1>4, Zenon DEF CmdSize
  <2> QED BY <1>4, <1>5, <2>1
<1>9. n <= CommandMax => ~\E k \in DOMAIN args' : Len(args'[k]) + 1 > ArgMax
  <2> SUFFICES ASSUME n <= CommandMax, NEW k \in DOMAIN got, Len(got[k]) + 1 > ArgMax
               PROVE  FALSE
    BY <1>3, Zenon
  <2>1. Len(got[k]) \in Nat /\ Len(got[k]) + 1 <= n
    BY <1>4, <1>6, Zenon
  <2> QED BY <1>4, <1>7, <2>1
<1>10. Len(asked) <= ArgsMax => ~(Len(args') > ArgsMax)
  <2>1. Len(args') = Len(asked)
    BY <1>3, <1>6, Zenon
  <2> QED BY <1>5, <1>7, <2>1
<1>11. FittingLineIsSafe'
  <2>1. n <= CommandMax => overrun' \subseteq {"args"}
    BY <1>1, <1>2, <1>3, <1>8, <1>9, Zenon
  <2>2. n <= CommandMax /\ Len(asked) <= ArgsMax => overrun' = {}
    BY <1>1, <1>2, <1>3, <1>8, <1>9, <1>10, Zenon
  <2> QED BY <1>1, <1>3, <2>1, <2>2, Zenon DEF FittingLineIsSafe
<1>12. HandlerGetsAsked'
  <2>1. pc' = "execute" => cmd' = Name
    BY <1>4
  <2>2. GetsAsked(args', asked')
    BY <1>1, <1>3, <1>4, Zenon
  <2> QED BY <2>1, <2>2, Zenon DEF HandlerGetsAsked, GetsAsked
<1>13. pc' # "line" /\ (pc' \notin {"line", "undefined"} => overrun' = {})
  BY <1>1
<1> QED BY <1>11, <1>12, <1>13, Zenon DEF LineInv

\* The steps that work on the list leave the line and its arguments alone.
LEMMA LineLeftAlone ==
    ASSUME LineInv, UNCHANGED lineVars,
           pc' \in {"parse", "use", "free", "done"} \/ pc' = pc,
           pc' # pc => pc \notin {"line", "undefined"}
    PROVE  LineInv'
<1>1. /\ asked' = asked /\ command_data' = command_data /\ cmd' = cmd /\ args' = args
      /\ overrun' = overrun
  BY DEF lineVars
<1>2. FittingLineIsSafe'
  BY <1>1, Zenon DEF LineInv, FittingLineIsSafe
<1>3. CASE pc' = pc
  <2>1. HandlerGetsAsked'
    BY <1>1, <1>3, Zenon DEF LineInv, HandlerGetsAsked
  <2>2. pc = "line" => (command_data = Line(asked))' /\ (asked \in Requested)'
    <3>1. pc = "line" => command_data' = Line(asked') /\ asked' \in Requested
      BY <1>1, Zenon DEF LineInv
    <3>2. Requested' = Requested
      BY DEF Requested
    <3> QED BY <3>1, <3>2
  <2> QED BY <1>1, <1>2, <1>3, <2>1, <2>2, Zenon DEF LineInv
<1>4. CASE pc' # pc
  <2>1. pc' \in {"parse", "use", "free", "done"} /\ pc \notin {"line", "undefined"}
    BY <1>4
  <2>2. overrun' = {}
    BY <1>1, <2>1, Zenon DEF LineInv
  <2>3. pc' # "execute" /\ pc' # "line"
    BY <2>1
  <2> QED BY <1>2, <2>2, <2>3, Zenon DEF LineInv, HandlerGetsAsked
<1> QED BY <1>3, <1>4

\* The client writes the line, the server reads it, and nothing else touches it.
THEOREM LineInvHolds == Spec => []LineInv
<1>1. Init => LineInv
  BY DEF Init, InitLine, LineInv, HandlerGetsAsked, FittingLineIsSafe
<1>2. LineInv /\ [Next]_vars => LineInv'
  <2> SUFFICES ASSUME LineInv, [Next]_vars PROVE LineInv'
    OBVIOUS
  <2>1. ASSUME NEW list \in Requested, execute_command(list) PROVE LineInv'
    BY <2>1, LineRequested
  <2>2. CASE process_command
    BY <2>2, LineIsRead
  <2>3. CASE ParseStart
    BY <2>3, LineLeftAlone DEF ParseStart
  <2>4. CASE ParseArgument
    BY <2>4, LineLeftAlone DEF ParseArgument
  <2>5. CASE ParseDone
    BY <2>5, LineLeftAlone DEF ParseDone
  <2>6. CASE FreeStart
    BY <2>6, LineLeftAlone DEF FreeStart
  <2>7. CASE FreeNode
    BY <2>7, LineLeftAlone DEF FreeNode
  <2>8. CASE FreeHead
    BY <2>8, LineLeftAlone DEF FreeHead
  <2>9. CASE Done
    <3>1. /\ pc' = "idle" /\ overrun' = overrun
          /\ pc = "done" \/ pc = "execute"
      BY <2>9 DEF Done
    <3>2. overrun' = {}
      BY <3>1 DEF LineInv
    <3> QED BY <3>1, <3>2 DEF LineInv, HandlerGetsAsked, FittingLineIsSafe
  <2>10. CASE UNCHANGED vars
    BY <2>10, LineLeftAlone DEF vars
  <2> QED BY <2>1, <2>2, <2>3, <2>4, <2>5, <2>6, <2>7, <2>8, <2>9, <2>10 DEF Next, NextLine
<1> QED BY <1>1, <1>2, PTL DEF Spec

\* The handler gets what the client asked, argument by argument, for every name,
\* every text an argument may have and any number of them; only the spaces in front
\* of the first one are lost.
THEOREM HandlerGetsWhatWasAsked == Spec => []HandlerGetsAsked
<1>1. LineInv => HandlerGetsAsked
  BY DEF LineInv
<1> QED BY LineInvHolds, <1>1, PTL

\* Whatever is asked for, a line that fits its buffer overruns none of the buffers
\* made from it, but for the table of the arguments when there are too many.
THEOREM FittingLinesAreSafe == Spec => []FittingLineIsSafe
<1>1. LineInv => FittingLineIsSafe
  BY DEF LineInv
<1> QED BY LineInvHolds, <1>1, PTL

=============================================================================
