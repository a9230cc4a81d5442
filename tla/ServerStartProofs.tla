------------------------- MODULE ServerStartProofs -------------------------
(***************************************************************************)
(* The port search for every width, default, number of tries and set of    *)
(* emulators: what is reported is bound, no free port is passed over, and  *)
(* as many emulators as there are ports to try all get one.                *)
(***************************************************************************)
EXTENDS ServerStart, FiniteSetTheorems, TLAPS

\* What a server holds is what its last bind() asked for, and what it reported is
\* that number before it was cut to the width.
Holds ==
    \A e \in Emulators :
       /\ pc[e] \in {"bound", "up"} => bound[e] \in Asked(e, cpt[e])
       /\ pc[e] = "up" => reported[e] = Reported(e)
       /\ pc[e] = "refused" => cpt[e] = Tries - 1

\* FirstFreePort, with the ports tried so far.
Passed ==
    \A e \in Emulators :
       LET passed == IF pc[e] = "refused" THEN 0 .. Tries - 1 ELSE 0 .. cpt[e] - 1
       IN  \A i \in passed : stayedFree[e] \cap Asked(e, i) = {}

\* What stayed free is free.
StillFree == \A e \in Emulators : stayedFree[e] \cap Taken = {}

IInv == TypeOK /\ Holds /\ Passed /\ StillFree

\* Emulators that have got past their first j ports.  They are the fewer the larger
\* j is: to pass one, an emulator needs another one that has not passed it.
Beyond(j) == {e \in Emulators : cpt[e] >= j}

NotChased ==
    \A j \in 0 .. Tries - 1 :
       Beyond(j) # {} => Cardinality(Beyond(j)) + j <= Cardinality(Emulators)

\* Only emulators that are up or about to be have a port.
OnlyServersBind == \A e \in Emulators : pc[e] \notin {"bound", "up"} => bound[e] = 0

\* As long as everyone ends with the stop flag, no other port is taken.
NothingLeft == orderly => lingering = {} /\ \A e \in Emulators : abandoned[e] = {}

FitInv ==
    /\ OnlyServersBind
    /\ NothingLeft
    /\ orderly /\ SamePorts => NotChased
    /\ EveryoneFits

-----------------------------------------------------------------------------

\* A search starts at a port, whatever NWA_PORT_RANGE is.
LEMMA StartIsPort ==
    ASSUME TypeOK, NEW e \in Emulators
    PROVE  port_range_start(e) \in Ports
<1>1. Width \in Nat /\ Width > 1 /\ Default \in 1 .. Width - 1
  BY WidthAssumption DEF Ports
<1>2. setting[e] = Unset \/ setting[e] \in Int
  BY SettingsAssumption DEF TypeOK
<1>3. CASE setting[e] = Unset
  BY <1>1, <1>3 DEF port_range_start, env_port, Ports
<1>4. CASE setting[e] # Unset
  <2>1. setting[e] % Width \in 0 .. Width - 1
    BY <1>1, <1>2, <1>4
  <2> QED BY <1>1, <1>4, <2>1 DEF port_range_start, env_port, Ports
<1> QED BY <1>3, <1>4

\* bind() gives a port, and below the width the very one it is asked for.
LEMMA AskedIsPort ==
    ASSUME TypeOK, NEW e \in Emulators, NEW i \in 0 .. Tries - 1
    PROVE  /\ Asked(e, i) \subseteq Ports
           /\ port_range_start(e) + i < Width => Asked(e, i) = {port_range_start(e) + i}
<1>1. Width \in Nat /\ Width > 1 /\ Tries \in Nat
  BY WidthAssumption, TriesAssumption DEF Ports
<1> DEFINE n == port_range_start(e) + i
<1>2. n \in Nat /\ n > 0
  BY <1>1, StartIsPort DEF Ports
<1>3. n % Width \in 0 .. Width - 1
  BY <1>1, <1>2
<1>4. n < Width => n % Width = n
  BY <1>1, <1>2
<1>5. Asked(e, i) = IF n % Width = 0 THEN Ephemeral ELSE {n % Width}
  BY DEF Asked
<1> HIDE DEF n
<1>6. Asked(e, i) \subseteq Ports
  <2>1. n % Width = 0 \/ n % Width \in Ports
    BY <1>1, <1>3 DEF Ports
  <2> QED BY <1>5, <2>1, SystemAssumption
<1>7. n < Width => Asked(e, i) = {n}
  BY <1>2, <1>4, <1>5
<1> QED BY <1>6, <1>7 DEF n

\* The ports that are not free, one by one.
LEMMA TakenIs ==
    ASSUME NEW p
    PROVE  p \in Taken <=> \/ p \in lingering \cup Reserved
                           \/ \E e \in Emulators : p \in abandoned[e] \/ p = bound[e]
BY DEF Taken

\* A return that leaves at most its own port behind keeps the invariant.
LEMMA ReturnStep ==
    ASSUME IInv, NEW e \in Emulators, Return(e), orderly' \in BOOLEAN,
           lingering' \subseteq lingering \cup ({bound[e]} \cap Ports),
           abandoned' \in [Emulators -> SUBSET Ports],
           \A d \in Emulators : abandoned'[d] \subseteq abandoned[d] \cup {bound[e]}
    PROVE  IInv'
<1>1. TypeOK'
  <2>1. 0 \in 0 .. Tries - 1 /\ 0 \in 0 .. Width + Tries
    BY TriesAssumption, WidthAssumption DEF Ports
  <2> QED BY <2>1 DEF IInv, TypeOK, Return
<1>2. \A d \in Emulators, i \in Int : Asked(d, i)' = Asked(d, i)
  BY DEF Return, Asked, port_range_start, env_port
<1>3. \A d \in Emulators : Reported(d)' = port_range_start(d) + cpt'[d]
  BY DEF Return, Reported, port_range_start, env_port
<1>4. Holds'
  <2> SUFFICES ASSUME NEW d \in Emulators
               PROVE  /\ pc'[d] \in {"bound", "up"} => bound'[d] \in Asked(d, cpt[d])'
                      /\ pc'[d] = "up" => reported'[d] = Reported(d)'
                      /\ pc'[d] = "refused" => cpt'[d] = Tries - 1
    BY DEF Holds
  <2>1. CASE d = e
    BY <2>1 DEF Return, IInv, TypeOK
  <2>2. CASE d # e
    <3>1. /\ pc'[d] = pc[d] /\ cpt'[d] = cpt[d]
          /\ bound'[d] = bound[d] /\ reported'[d] = reported[d]
      BY <2>2 DEF Return, IInv, TypeOK
    <3>2. cpt[d] \in Int
      BY TriesAssumption DEF IInv, TypeOK
    <3> QED BY <1>2, <1>3, <3>1, <3>2 DEF IInv, Holds, Reported
  <2> QED BY <2>1, <2>2
<1>5. Passed'
  <2> SUFFICES ASSUME NEW d \in Emulators,
                      NEW i \in IF pc'[d] = "refused" THEN 0 .. Tries - 1 ELSE 0 .. cpt'[d] - 1
               PROVE  stayedFree'[d] \cap Asked(d, i)' = {}
    BY DEF Passed
  <2>1. CASE d = e
    BY <2>1 DEF Return, IInv, TypeOK
  <2>2. CASE d # e
    <3>1. i \in Int /\ pc'[d] = pc[d] /\ cpt'[d] = cpt[d] /\ stayedFree'[d] = stayedFree[d]
      BY <1>1, <2>2, TriesAssumption DEF Return, IInv, TypeOK
    <3> QED BY <1>2, <3>1 DEF IInv, Passed
  <2> QED BY <2>1, <2>2
<1>6. StillFree'
  <2> SUFFICES ASSUME NEW d \in Emulators, NEW p \in stayedFree'[d], p \in Taken'
               PROVE  FALSE
    BY DEF StillFree
  <2>1. d # e /\ p \in stayedFree[d] /\ p \in Ports
    BY DEF Return, IInv, TypeOK
  <2>2. \/ p \in lingering' \cup Reserved
        \/ \E c \in Emulators : p \in abandoned'[c] \/ p = bound'[c]
    BY DEF Taken
  <2>3. p # 0 /\ \A c \in Emulators : bound'[c] \in {bound[c], 0}
    BY <2>1, WidthAssumption DEF Return, IInv, TypeOK, Ports
  <2>4. p \in Taken
    BY <2>2, <2>3, TakenIs
  <2> QED BY <2>1, <2>4 DEF IInv, StillFree
<1> QED BY <1>1, <1>4, <1>5, <1>6 DEF IInv

\* The server of a bound or listening emulator has a port.
LEMMA BoundIsPort ==
    ASSUME IInv, NEW e \in Emulators, pc[e] \in {"bound", "up"}
    PROVE  bound[e] \in Ports
BY AskedIsPort, TriesAssumption DEF IInv, TypeOK, Holds

\* A step of the search, where the settings stay: what is asked for does too.
LEMMA AskedStays ==
    ASSUME UNCHANGED setting, NEW e \in Emulators
    PROVE  /\ \A i : Asked(e, i)' = Asked(e, i)
           /\ port_range_start(e)' = port_range_start(e)
BY DEF Asked, port_range_start, env_port

LEMMA InitIInv == Init => IInv
<1> SUFFICES ASSUME Init PROVE IInv
  OBVIOUS
<1>1. TypeOK
  BY TriesAssumption, WidthAssumption DEF Init, TypeOK, Ports
<1>2. Holds /\ Passed /\ StillFree
  BY DEF Init, Holds, Passed, StillFree
<1> QED BY <1>1, <1>2 DEF IInv

LEMMA NextIInv == IInv /\ [Next]_vars => IInv'
<1> SUFFICES ASSUME IInv, [Next]_vars PROVE IInv'
  OBVIOUS
<1> USE TriesAssumption, WidthAssumption
<1>1. ASSUME NEW e \in Emulators, Start(e) PROVE IInv'
  <2>1. TypeOK'
    BY <1>1 DEF Start, IInv, TypeOK, Free, Ports
  <2>2. Holds'
    BY <1>1, AskedStays DEF Start, IInv, TypeOK, Holds, Reported
  <2>3. Passed'
    BY <1>1, AskedStays DEF Start, IInv, TypeOK, Passed
  <2>4. StillFree'
    BY <1>1 DEF Start, IInv, TypeOK, StillFree, Free, Taken
  <2> QED BY <2>1, <2>2, <2>3, <2>4 DEF IInv
<1>2. ASSUME NEW e \in Emulators, Bind(e) PROVE IInv'
  <2>1. PICK p \in Asked(e, cpt[e]) \cap Free :
          /\ bound' = [bound EXCEPT ![e] = p]
          /\ stayedFree' = [d \in Emulators |-> stayedFree[d] \ {p}]
    BY <1>2 DEF Bind
  <2>2. TypeOK'
    BY <1>2, <2>1 DEF Bind, IInv, TypeOK, Free
  <2>3. Holds'
    BY <1>2, <2>1, AskedStays DEF Bind, IInv, TypeOK, Holds, Reported
  <2>4. Passed'
    BY <1>2, <2>1, AskedStays DEF Bind, IInv, TypeOK, Passed
  <2>5. StillFree'
    <3> SUFFICES ASSUME NEW d \in Emulators, NEW q \in stayedFree'[d], q \in Taken'
                 PROVE  FALSE
      BY DEF StillFree
    <3>1. q \in stayedFree[d] /\ q # p
      BY <2>1
    <3>2. \/ q \in lingering' \cup Reserved
          \/ \E c \in Emulators : q \in abandoned'[c] \/ q = bound'[c]
      BY DEF Taken
    <3>3. q \in Taken
      BY <1>2, <2>1, <3>1, <3>2, TakenIs DEF Bind, IInv, TypeOK
    <3> QED BY <3>1, <3>3 DEF IInv, StillFree
  <2> QED BY <2>2, <2>3, <2>4, <2>5 DEF IInv
<1>3. ASSUME NEW e \in Emulators, BindFails(e)
      PROVE  \A i \in 0 .. cpt[e] : stayedFree[e] \cap Asked(e, i) = {}
  <2>1. stayedFree[e] \cap Asked(e, cpt[e]) = {}
    BY <1>3 DEF BindFails, Free, IInv, TypeOK, StillFree
  <2>2. \A i \in 0 .. cpt[e] - 1 : stayedFree[e] \cap Asked(e, i) = {}
    BY <1>3 DEF BindFails, IInv, Passed
  <2> QED BY <2>1, <2>2 DEF IInv, TypeOK
<1>4. ASSUME NEW e \in Emulators, TryNext(e) PROVE IInv'
  <2>1. TypeOK'
    BY <1>4 DEF TryNext, IInv, TypeOK, LastTry
  <2>2. Holds'
    BY <1>4, AskedStays DEF TryNext, BindFails, IInv, TypeOK, Holds, Reported
  <2>3. Passed'
    BY <1>3, <1>4, AskedStays DEF TryNext, BindFails, IInv, TypeOK, Passed
  <2>4. StillFree'
    BY <1>4 DEF TryNext, IInv, StillFree, Taken
  <2> QED BY <2>1, <2>2, <2>3, <2>4 DEF IInv
<1>5. ASSUME NEW e \in Emulators, Refused(e) PROVE IInv'
  <2>1. TypeOK'
    BY <1>5 DEF Refused, IInv, TypeOK
  <2>2. Holds'
    BY <1>5, AskedStays DEF Refused, BindFails, LastTry, IInv, TypeOK, Holds, Reported
  <2>3. Passed'
    BY <1>3, <1>5, AskedStays DEF Refused, BindFails, LastTry, IInv, TypeOK, Passed
  <2>4. StillFree'
    BY <1>5 DEF Refused, IInv, StillFree, Taken
  <2> QED BY <2>1, <2>2, <2>3, <2>4 DEF IInv
<1>6. ASSUME NEW e \in Emulators, Listen(e) PROVE IInv'
  <2>1. Reported(e) \in 0 .. Width + Tries
    BY StartIsPort DEF Reported, IInv, TypeOK, Ports
  <2>2. TypeOK'
    BY <1>6, <2>1 DEF Listen, IInv, TypeOK
  <2>3. Holds'
    BY <1>6, AskedStays DEF Listen, IInv, TypeOK, Holds, Reported
  <2>4. Passed'
    BY <1>6, AskedStays DEF Listen, IInv, TypeOK, Passed
  <2>5. StillFree'
    BY <1>6 DEF Listen, IInv, StillFree, Taken
  <2> QED BY <2>2, <2>3, <2>4, <2>5 DEF IInv
<1>7. ASSUME NEW e \in Emulators, Stop(e) \/ Exit(e) PROVE IInv'
  <2>1. Return(e) /\ Linger(e)
    BY <1>7 DEF Stop, Exit
  <2>2. orderly' \in BOOLEAN /\ lingering' \subseteq lingering \cup ({bound[e]} \cap Ports)
    BY <2>1, BoundIsPort DEF Linger, IInv, TypeOK
  <2>3. /\ abandoned' \in [Emulators -> SUBSET Ports]
        /\ \A d \in Emulators : abandoned'[d] \subseteq abandoned[d] \cup {bound[e]}
    BY <1>7 DEF Stop, Exit, Kept, IInv, TypeOK
  <2> QED BY <2>1, <2>2, <2>3, ReturnStep
<1>8. ASSUME NEW e \in Emulators, Abandon(e) PROVE IInv'
  <2>1. bound[e] \in Ports
    BY <1>8, BoundIsPort DEF Abandon
  <2>2. /\ abandoned' \in [Emulators -> SUBSET Ports]
        /\ \A d \in Emulators : abandoned'[d] \subseteq abandoned[d] \cup {bound[e]}
    BY <1>8, <2>1 DEF Abandon, IInv, TypeOK
  <2> QED BY <1>8, <2>1, <2>2, ReturnStep DEF Abandon
<1>9. ASSUME NEW p \in Ports, LingerOver(p) PROVE IInv'
  <2>1. TypeOK'
    BY <1>9 DEF LingerOver, IInv, TypeOK
  <2>2. Holds' /\ Passed'
    BY <1>9, AskedStays DEF LingerOver, IInv, Holds, Passed, Reported
  <2>3. StillFree'
    BY <1>9 DEF LingerOver, IInv, StillFree, Taken
  <2> QED BY <2>1, <2>2, <2>3 DEF IInv
<1>10. CASE UNCHANGED vars
  <2>1. TypeOK'
    BY <1>10 DEF vars, IInv, TypeOK
  <2>2. Holds' /\ Passed'
    BY <1>10, AskedStays DEF vars, IInv, Holds, Passed, Reported
  <2>3. StillFree'
    BY <1>10 DEF vars, IInv, StillFree, Taken
  <2> QED BY <2>1, <2>2, <2>3 DEF IInv
<1> QED
  BY <1>1, <1>2, <1>4, <1>5, <1>6, <1>7, <1>8, <1>9, <1>10 DEF Next

\* The invariant holds throughout.
LEMMA Invariant == Spec => []IInv
BY InitIInv, NextIInv, PTL DEF Spec

-----------------------------------------------------------------------------
(* The theorems                                                            *)

\* Every variable of the search keeps its type, whatever the setting.
THEOREM TypeCorrect == Spec => []TypeOK
BY Invariant, PTL DEF IInv

\* The port the host is told is the port the server has, unless the search ran
\* over the last port.
THEOREM ReportedPortIsBound == Spec => []ReportedIsBound
<1>1. IInv => ReportedIsBound
  <2> SUFFICES ASSUME IInv, NEW e \in Emulators, pc[e] = "up", reported[e] < Width
               PROVE  bound[e] = reported[e]
    BY DEF ReportedIsBound
  <2>1. cpt[e] \in 0 .. Tries - 1 /\ bound[e] \in Asked(e, cpt[e])
    BY DEF IInv, TypeOK, Holds
  <2>2. reported[e] = port_range_start(e) + cpt[e]
    BY DEF IInv, Holds, Reported
  <2> QED BY <2>1, <2>2, AskedIsPort DEF IInv
<1> QED BY <1>1, Invariant, PTL

\* The search passes over no port that was free all the time, however the bind()
\* calls, stops, failures and exits of the other emulators fall between its own.
THEOREM NoFreePortPassed == Spec => []FirstFreePort
<1>1. IInv => FirstFreePort
  BY DEF IInv, Passed, FirstFreePort
<1> QED BY <1>1, Invariant, PTL

-----------------------------------------------------------------------------
(* Everyone fits                                                           *)

LEMMA BeyondFinite ==
    ASSUME NEW j
    PROVE  IsFiniteSet(Beyond(j)) /\ Cardinality(Beyond(j)) \in Nat
           /\ Cardinality(Beyond(j)) <= Cardinality(Emulators)
<1>1. Beyond(j) \subseteq Emulators
  BY DEF Beyond
<1> QED BY <1>1, EmulatorsAssumption, FS_Subset, FS_CardinalityType

\* Where an emulator finds its port taken, another server has come to the same port.
LEMMA TakenByOther ==
    ASSUME IInv, FitInv, orderly, SamePorts, NEW e \in Emulators, BindFails(e)
    PROVE  \E d \in Emulators \ {e} : cpt[d] = cpt[e]
<1> DEFINE s == port_range_start(e)
<1>1. cpt[e] \in 0 .. Tries - 1 /\ s \in Ports /\ s + cpt[e] \in Ports \ Reserved
  BY StartIsPort, TriesAssumption, WidthAssumption DEF IInv, TypeOK, SamePorts, Ports
<1>2. Asked(e, cpt[e]) = {s + cpt[e]}
  BY <1>1, AskedIsPort, WidthAssumption DEF IInv, Ports
<1>3. s + cpt[e] \in Taken
  BY <1>1, <1>2 DEF BindFails, Free
<1>4. PICK d \in Emulators : bound[d] = s + cpt[e]
  BY <1>1, <1>3, TakenIs DEF FitInv, NothingLeft
<1>5. bound[d] # 0
  BY <1>1, <1>4, WidthAssumption DEF Ports
<1>6. pc[d] \in {"bound", "up"} /\ d # e
  BY <1>5 DEF FitInv, OnlyServersBind, BindFails
<1>7. cpt[d] \in 0 .. Tries - 1 /\ port_range_start(d) = s /\ s + cpt[d] \in Ports
  BY <1>1, TriesAssumption, WidthAssumption DEF IInv, TypeOK, SamePorts, Ports
<1>8. bound[d] = s + cpt[d]
  BY <1>6, <1>7, AskedIsPort, WidthAssumption DEF IInv, Holds, Ports
<1>9. cpt[d] = cpt[e]
  BY <1>1, <1>4, <1>7, <1>8, WidthAssumption DEF Ports
<1> QED BY <1>6, <1>9

\* Nobody gets further.
LEMMA NobodyFurther ==
    ASSUME TypeOK, NotChased, \A d \in Emulators : cpt'[d] = cpt[d] \/ cpt'[d] = 0
    PROVE  NotChased'
<1> SUFFICES ASSUME NEW j \in 0 .. Tries - 1, Beyond(j)' # {}
             PROVE  Cardinality(Beyond(j)') + j <= Cardinality(Emulators)
  BY DEF NotChased
<1>1. CASE j = 0
  <2>1. Beyond(j)' \subseteq Emulators
    BY DEF Beyond
  <2>2. Cardinality(Beyond(j)') <= Cardinality(Emulators) /\ Cardinality(Beyond(j)') \in Nat
    BY <2>1, EmulatorsAssumption, FS_Subset, FS_CardinalityType
  <2> QED BY <1>1, <2>2
<1>2. CASE j > 0
  <2>1. Beyond(j)' \subseteq Beyond(j)
    BY <1>2, TriesAssumption DEF Beyond, TypeOK
  <2>2. Cardinality(Beyond(j)') <= Cardinality(Beyond(j)) /\ Cardinality(Beyond(j)') \in Nat
    BY <2>1, BeyondFinite, FS_Subset, FS_CardinalityType
  <2>3. Cardinality(Beyond(j)) + j <= Cardinality(Emulators)
    BY <2>1 DEF NotChased
  <2>4. Cardinality(Emulators) \in Nat /\ j \in Nat /\ Cardinality(Beyond(j)) \in Nat
    BY BeyondFinite, EmulatorsAssumption, FS_CardinalityType, TriesAssumption
  <2> QED BY <2>2, <2>3, <2>4
<1> QED BY <1>1, <1>2, TriesAssumption

\* One emulator goes on to its next port.
LEMMA OneFurther ==
    ASSUME IInv, FitInv, orderly, SamePorts, NEW e \in Emulators, TryNext(e)
    PROVE  NotChased'
<1>1. /\ BindFails(e) /\ cpt[e] \in 0 .. Tries - 2 /\ NotChased
      /\ cpt' = [cpt EXCEPT ![e] = cpt[e] + 1]
  BY TriesAssumption DEF TryNext, LastTry, IInv, TypeOK, FitInv
<1>2. PICK d \in Emulators \ {e} : cpt[d] = cpt[e]
  BY <1>1, TakenByOther
<1> SUFFICES ASSUME NEW j \in 0 .. Tries - 1, Beyond(j)' # {}
             PROVE  Cardinality(Beyond(j)') + j <= Cardinality(Emulators)
  BY DEF NotChased
<1>3. /\ Cardinality(Emulators) \in Nat /\ j \in Nat
      /\ \A k : IsFiniteSet(Beyond(k)) /\ Cardinality(Beyond(k)) \in Nat
  BY BeyondFinite, EmulatorsAssumption, FS_CardinalityType, TriesAssumption
<1>4. CASE j # cpt[e] + 1
  <2>1. Beyond(j)' = Beyond(j)
    BY <1>1, <1>4 DEF Beyond, IInv, TypeOK
  <2> QED BY <2>1, <1>1 DEF NotChased
<1>5. CASE j = cpt[e] + 1
  <2> DEFINE B == Beyond(cpt[e])
  <2>1. d \in B /\ Beyond(j)' \subseteq B \ {d}
    BY <1>1, <1>2, <1>5 DEF Beyond, IInv, TypeOK
  <2>2. Cardinality(B) + cpt[e] <= Cardinality(Emulators)
    BY <1>1, <2>1, TriesAssumption DEF NotChased
  <2>3. IsFiniteSet(B \ {d}) /\ Cardinality(B \ {d}) = Cardinality(B) - 1
    BY <1>3, <2>1, FS_RemoveElement
  <2>4. Cardinality(Beyond(j)') <= Cardinality(B) - 1 /\ Cardinality(Beyond(j)') \in Nat
    BY <2>1, <2>3, FS_Subset, FS_CardinalityType
  <2> QED BY <1>1, <1>3, <1>5, <2>2, <2>4
<1> QED BY <1>4, <1>5

\* The last try finds a port: whoever has it leaves too few to have passed all others.
LEMMA NobodyRefused ==
    ASSUME IInv, FitInv, orderly, SamePorts, NEW e \in Emulators
    PROVE  ~Refused(e)
<1> SUFFICES ASSUME Refused(e) PROVE FALSE
  OBVIOUS
<1>1. BindFails(e) /\ cpt[e] = Tries - 1
  BY DEF Refused, LastTry
<1>2. PICK d \in Emulators \ {e} : cpt[d] = cpt[e]
  BY <1>1, TakenByOther
<1> DEFINE B == Beyond(Tries - 1)
<1>3. {d, e} \subseteq B /\ B # {}
  BY <1>1, <1>2, TriesAssumption DEF Beyond
<1>4. Cardinality(B) + (Tries - 1) <= Cardinality(Emulators)
  BY <1>3, TriesAssumption DEF FitInv, NotChased
<1>5. Cardinality({d, e}) = 2
  <2>1. Cardinality({d}) = 1 /\ IsFiniteSet({d}) /\ {d, e} = {d} \cup {e} /\ e \notin {d}
    BY <1>2, FS_Singleton
  <2> QED BY <2>1, FS_AddElement
<1>6. 2 <= Cardinality(B)
  BY <1>3, <1>5, BeyondFinite, FS_Subset
<1> QED BY <1>4, <1>6, BeyondFinite, EmulatorsAssumption, FS_CardinalityType, TriesAssumption
        DEF SamePorts

LEMMA FitInit == Init => FitInv
<1> SUFFICES ASSUME Init PROVE FitInv
  OBVIOUS
<1>1. \A j \in 0 .. Tries - 1 : Beyond(j) = IF j = 0 THEN Emulators ELSE {}
  BY TriesAssumption DEF Init, Beyond
<1>2. NotChased
  BY <1>1, EmulatorsAssumption, FS_CardinalityType DEF NotChased
<1> QED BY <1>2 DEF Init, FitInv, OnlyServersBind, NothingLeft, EveryoneFits

\* What a step must do to keep the invariant; the setting never changes.
LEMMA FitStep ==
    ASSUME IInv, FitInv, TypeOK, UNCHANGED setting,
           OnlyServersBind', NothingLeft', orderly' => orderly,
           orderly /\ SamePorts => NotChased',
           \A e \in Emulators : pc'[e] = "refused" => pc[e] = "refused"
    PROVE  FitInv'
<1>1. SamePorts' = SamePorts
  BY DEF SamePorts, port_range_start, env_port
<1> QED BY <1>1 DEF FitInv, EveryoneFits

LEMMA ReturnFits ==
    ASSUME IInv, FitInv, NEW e \in Emulators, Return(e), NothingLeft', orderly' => orderly
    PROVE  FitInv'
<1>1. OnlyServersBind'
  BY DEF Return, IInv, TypeOK, FitInv, OnlyServersBind
<1>2. \A d \in Emulators : cpt'[d] = cpt[d] \/ cpt'[d] = 0
  BY DEF Return, IInv, TypeOK
<1>3. \A d \in Emulators : pc'[d] = "refused" => pc[d] = "refused"
  BY DEF Return, IInv, TypeOK
<1>4. orderly /\ SamePorts => NotChased'
  BY <1>2, NobodyFurther DEF IInv, FitInv
<1> QED BY <1>1, <1>3, <1>4, FitStep DEF IInv, Return

LEMMA FitNext == IInv /\ FitInv /\ [Next]_vars => FitInv'
<1> SUFFICES ASSUME IInv, FitInv, [Next]_vars PROVE FitInv'
  OBVIOUS
<1> USE DEF OnlyServersBind, NothingLeft
<1>1. ASSUME NEW e \in Emulators, Start(e) \/ Bind(e) \/ Listen(e) PROVE FitInv'
  <2>1. \A d \in Emulators : cpt'[d] = cpt[d] \/ cpt'[d] = 0
    BY <1>1 DEF Start, Bind, Listen, IInv, TypeOK
  <2>2. OnlyServersBind'
    BY <1>1 DEF Start, Bind, Listen, IInv, TypeOK, FitInv
  <2>3. UNCHANGED <<setting, orderly, lingering, abandoned>>
    BY <1>1 DEF Start, Bind, Listen
  <2>4. \A d \in Emulators : pc'[d] = "refused" => pc[d] = "refused"
    BY <1>1 DEF Start, Bind, Listen, IInv, TypeOK
  <2>5. orderly /\ SamePorts => NotChased'
    BY <2>1, NobodyFurther DEF IInv, FitInv
  <2> QED BY <2>2, <2>3, <2>4, <2>5, FitStep DEF IInv, FitInv
<1>2. ASSUME NEW e \in Emulators, TryNext(e) PROVE FitInv'
  <2>1. UNCHANGED <<setting, pc, bound, lingering, abandoned, orderly>>
    BY <1>2 DEF TryNext
  <2>2. orderly /\ SamePorts => NotChased'
    BY <1>2, OneFurther
  <2> QED BY <2>1, <2>2, FitStep DEF IInv, FitInv
<1>3. ASSUME NEW e \in Emulators, Refused(e) PROVE FitInv'
  <2>1. ~(orderly /\ SamePorts)
    BY <1>3, NobodyRefused
  <2>2. SamePorts' = SamePorts /\ orderly' = orderly
    BY <1>3 DEF Refused, SamePorts, port_range_start, env_port
  <2>3. OnlyServersBind' /\ NothingLeft'
    BY <1>3 DEF Refused, BindFails, IInv, TypeOK, FitInv
  <2> QED BY <2>1, <2>2, <2>3 DEF FitInv, EveryoneFits
<1>4. ASSUME NEW e \in Emulators, Stop(e) \/ Exit(e) PROVE FitInv'
  <2>1. Return(e) /\ Linger(e)
    BY <1>4 DEF Stop, Exit
  <2>2. NothingLeft'
    BY <1>4, <2>1 DEF Stop, Exit, Linger, Kept, IInv, TypeOK, FitInv
  <2> QED BY <2>1, <2>2, ReturnFits DEF Linger
<1>5. ASSUME NEW e \in Emulators, Abandon(e) PROVE FitInv'
  BY <1>5, ReturnFits DEF Abandon
<1>6. ASSUME NEW p \in Ports, LingerOver(p) PROVE FitInv'
  <2>1. UNCHANGED <<setting, pc, cpt, bound, abandoned, orderly>> /\ p \in lingering
    BY <1>6 DEF LingerOver
  <2>2. orderly /\ SamePorts => NotChased'
    BY <2>1, NobodyFurther DEF IInv, FitInv
  <2> QED BY <2>1, <2>2, FitStep DEF IInv, FitInv
<1>7. CASE UNCHANGED vars
  <2>1. UNCHANGED <<setting, pc, cpt, bound, lingering, abandoned, orderly>>
    BY <1>7 DEF vars
  <2>2. orderly /\ SamePorts => NotChased'
    BY <2>1, NobodyFurther DEF IInv, FitInv
  <2> QED BY <2>1, <2>2, FitStep DEF IInv, FitInv
<1> QED BY <1>1, <1>2, <1>3, <1>4, <1>5, <1>6, <1>7 DEF Next

\* As many emulators as ports all get one, as long as everyone ends in order.
THEOREM EveryEmulatorFits == Spec => []EveryoneFits
<1>1. FitInv => EveryoneFits
  BY DEF FitInv
<1> QED BY <1>1, Invariant, FitInit, FitNext, PTL DEF Spec

=============================================================================
