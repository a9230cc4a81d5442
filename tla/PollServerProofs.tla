-------------------------- MODULE PollServerProofs --------------------------
(***************************************************************************)
(* The safety of the event loop for every MaxClients, every set of         *)
(* descriptors and every bound.  The invariants of PollServer support each *)
(* other: poll_fds has room for one more entry because it names the same   *)
(* clients as the slot table, which has a free slot; it names the same     *)
(* clients because no accepted descriptor is already in the table; that is *)
(* so because the table only holds open descriptors.                       *)
(***************************************************************************)
EXTENDS PollServer, FiniteSetTheorems, TLAPS

\* The listening socket blocks, but accept() is only called with a connection
\* waiting: nobody but the loop takes one from the queue.
AcceptHasWork == pc = "accept" /\ listen_revents # {} => backlog > 0

IInv ==
    /\ TypeOK
    /\ SlotsMatchPoll
    /\ EventsServedOnce
    /\ CallbacksMatch
    /\ ServedAreOpen
    /\ AcceptHasWork

-----------------------------------------------------------------------------
(* Facts about the two tables                                              *)

\* What is left out of a socket that is no longer served keeps the types.
LEMMA ForgetType ==
    ASSUME TypeOK, NEW S, Forget(S)
    PROVE  /\ unread' \in [Fd -> 0 .. MaxUnread]
           /\ peer' \in [Fd -> {"up", "eof", "reset"}]
BY BoundsAssumption DEF Forget, TypeOK

\* A free slot means room in poll_fds: the entries in use map one to one into
\* the occupied slots, of which there are fewer than MaxClients.
LEMMA FreeSlotMeansRoom ==
    ASSUME TypeOK, SlotsMatchPoll, Running,
           NEW s \in Slots, socket_fd[s] = NoFd
    PROVE  poll_fds_count <= MaxClients
<1> DEFINE Occupied == Slots \ {s}
           slotOf == [k \in Used |-> CHOOSE t \in Slots : socket_fd[t] = poll_fds[k].fd]
<1>0. MaxClients \in Nat /\ poll_fds_count \in Nat \ {0}
  BY MaxClientsAssumption DEF TypeOK
<1>1. \A k \in Used : /\ poll_fds[k].fd # NoFd
                      /\ \E t \in Slots : socket_fd[t] = poll_fds[k].fd
  BY DEF SlotsMatchPoll, Polled, Connected
<1>2. \A k \in Used : /\ slotOf[k] \in Slots
                      /\ socket_fd[slotOf[k]] = poll_fds[k].fd
  <2> SUFFICES ASSUME NEW k \in Used
               PROVE  slotOf[k] \in Slots /\ socket_fd[slotOf[k]] = poll_fds[k].fd
    OBVIOUS
  <2>1. slotOf[k] = CHOOSE t \in Slots : socket_fd[t] = poll_fds[k].fd
    OBVIOUS
  <2> HIDE DEF slotOf
  <2> QED BY <1>1, <2>1
<1>3. \A k \in Used : slotOf[k] \in Occupied
  BY <1>1, <1>2
<1>4. \A j, k \in Used : slotOf[j] = slotOf[k] => j = k
  BY <1>2 DEF SlotsMatchPoll
<1>5. slotOf \in [Used -> Occupied]
  BY <1>3
<1>6. IsFiniteSet(Slots) /\ Cardinality(Slots) = MaxClients
  BY <1>0, FS_Interval, MaxClientsAssumption DEF Slots
<1>7. IsFiniteSet(Occupied) /\ Cardinality(Occupied) = MaxClients - 1
  BY <1>6, FS_RemoveElement
<1>8. IsFiniteSet(Used) /\ Cardinality(Used) = poll_fds_count - 1
  BY <1>0, FS_Interval DEF Used
<1>9. ~(Cardinality(Occupied) < Cardinality(Used))
  <2> HIDE DEF slotOf, Occupied
  <2> QED BY <1>4, <1>5, <1>7, <1>8, FS_PigeonHole
<1> QED BY <1>0, <1>7, <1>8, <1>9

\* Dropping the client at entry i takes it, and only it, out of both tables.
LEMMA DropClient ==
    ASSUME TypeOK, SlotsMatchPoll, Scanning,
           remove_client(poll_fds[i].fd), DropEntry
    PROVE  /\ poll_fds[i].fd \in Connected
           /\ socket_fd' \in [Slots -> Fd \cup {NoFd}]
           /\ poll_fds' \in [Entries -> Entry]
           /\ poll_fds_count' \in 1 .. MaxClients + 1
           /\ Connected' = Connected \ {poll_fds[i].fd}
           /\ Polled' = Connected'
           /\ \A s, t \in Slots : socket_fd'[s] = socket_fd'[t] /\ socket_fd'[s] # NoFd => s = t
           /\ \A j, k \in Used' : poll_fds'[j].fd = poll_fds'[k].fd => j = k
<1> DEFINE last == poll_fds_count - 1
<1>0. PICK f : f = poll_fds[i].fd
  OBVIOUS
<1>1. /\ MaxClients \in Nat
      /\ i \in Nat \ {0}
      /\ poll_fds_count \in Nat
      /\ poll_fds_count <= MaxClients + 1
      /\ i < poll_fds_count
      /\ Running
  BY MaxClientsAssumption DEF TypeOK, Scanning, Running
<1>2. i \in Used /\ last \in Used /\ Used \subseteq Entries
  BY <1>1 DEF Used, Entries
<1>3. f \in Polled /\ f \in Connected /\ f # NoFd /\ f \in Fd
  <2>1. f \in Polled
    BY <1>0, <1>2 DEF Polled
  <2>2. f \in Connected
    BY <2>1, <1>1 DEF SlotsMatchPoll
  <2> QED BY <2>1, <2>2 DEF Connected, TypeOK
<1>4. poll_fds' = [poll_fds EXCEPT ![i] = poll_fds[last]] /\ poll_fds_count' = last
  BY DEF DropEntry
<1>5. poll_fds' \in [Entries -> Entry] /\ poll_fds_count' \in 1 .. MaxClients + 1
  <2>1. poll_fds[last] \in Entry
    BY <1>2 DEF TypeOK
  <2>2. poll_fds' \in [Entries -> Entry]
    BY <1>4, <2>1 DEF TypeOK
  <2> QED BY <1>1, <1>4, <2>2
<1>6. \A s \in Slots : socket_fd'[s] = IF socket_fd[s] = f THEN NoFd ELSE socket_fd[s]
  <2>1. \A s \in Slots : socket_fd[s] = f <=> FirstWith(f, s)
    <3> SUFFICES ASSUME NEW s \in Slots, socket_fd[s] = f,
                        NEW t \in 0 .. s - 1, socket_fd[t] = f
                 PROVE  FALSE
      BY DEF FirstWith
    <3>1. t \in Slots /\ t # s
      BY <1>1 DEF Slots
    <3> QED BY <1>1, <1>3, <3>1 DEF SlotsMatchPoll
  <2> QED BY <1>0, <2>1 DEF remove_client
<1>7. socket_fd' \in [Slots -> Fd \cup {NoFd}]
  BY <1>6 DEF remove_client, TypeOK
<1>8. Connected' = Connected \ {f}
  BY <1>3, <1>6 DEF Connected
<1>9. \A s, t \in Slots : socket_fd'[s] = socket_fd'[t] /\ socket_fd'[s] # NoFd => s = t
  BY <1>1, <1>6 DEF SlotsMatchPoll
<1>10. /\ Used' = 1 .. last - 1
       /\ \A k \in Used' : k \in Used /\ k # last
       /\ \A k \in Used : k # last => k \in Used'
  BY <1>1, <1>4 DEF Used
<1>11. \A k \in Used' : poll_fds'[k] = IF k = i THEN poll_fds[last] ELSE poll_fds[k]
  BY <1>2, <1>4, <1>10 DEF TypeOK
<1>12. \A j, k \in Used : poll_fds[j].fd = poll_fds[k].fd => j = k
  BY <1>1 DEF SlotsMatchPoll
<1>13. \A j, k \in Used' : poll_fds'[j].fd = poll_fds'[k].fd => j = k
  BY <1>2, <1>10, <1>11, <1>12
<1>14. Polled' = Polled \ {f}
  <2>1. ASSUME NEW k \in Used' PROVE poll_fds'[k].fd \in Polled \ {f}
    BY <1>0, <1>2, <1>10, <1>11, <1>12 DEF Polled
  <2>2. ASSUME NEW k \in Used, poll_fds[k].fd # f
        PROVE  \E j \in Used' : poll_fds'[j].fd = poll_fds[k].fd
    <3>1. CASE k = last
      <4>1. i # last /\ i \in Used'
        BY <1>0, <1>2, <1>10, <2>2, <3>1
      <4> QED BY <1>11, <3>1, <4>1
    <3>2. CASE k # last
      <4>1. k \in Used' /\ k # i
        BY <1>0, <1>10, <2>2, <3>2
      <4> QED BY <1>11, <4>1
    <3> QED BY <3>1, <3>2
  <2> QED BY <2>1, <2>2 DEF Polled
<1>15. Polled' = Connected'
  BY <1>1, <1>8, <1>14 DEF SlotsMatchPoll
<1> QED BY <1>0, <1>3, <1>5, <1>7, <1>8, <1>9, <1>13, <1>15

\* ... and leaves the events of the others to be handled, each by one entry.
LEMMA DropEvents ==
    ASSUME TypeOK, SlotsMatchPoll, EventsServedOnce, Scanning, DropEntry,
           pc' = pc, due' = due \ {poll_fds[i].fd}
    PROVE  EventsServedOnce'
<1> DEFINE last == poll_fds_count - 1
           Waiting == {n \in Used : poll_fds[n].revents # {} /\ n >= i}
<1>1. /\ MaxClients \in Nat
      /\ i \in Nat \ {0}
      /\ poll_fds_count \in Nat
      /\ poll_fds_count <= MaxClients + 1
      /\ i < poll_fds_count
      /\ pc = "scan" /\ Running
  BY MaxClientsAssumption DEF TypeOK, Scanning, Running
<1>2. i \in Used /\ last \in Used /\ Used \subseteq Entries
  BY <1>1 DEF Used, Entries
<1>3. /\ poll_fds' = [poll_fds EXCEPT ![i] = poll_fds[last]]
      /\ poll_fds_count' = last
      /\ i' = i
  BY DEF DropEntry
<1>4. /\ \A k \in Used' : k \in Used /\ k # last
      /\ \A k \in Used : k # last => k \in Used'
  BY <1>1, <1>3 DEF Used
<1>5. \A k \in Used' : poll_fds'[k] = IF k = i THEN poll_fds[last] ELSE poll_fds[k]
  BY <1>2, <1>3, <1>4 DEF TypeOK
<1>6. \A j, k \in Used : poll_fds[j].fd = poll_fds[k].fd => j = k
  BY <1>1 DEF SlotsMatchPoll
<1>7. due = {poll_fds[k].fd : k \in Waiting}
  BY <1>1 DEF EventsServedOnce
<1>8. last >= i
  BY <1>1
<1> DEFINE Later == {n \in Used' : poll_fds'[n].revents # {} /\ n >= i}
<1>9. ASSUME NEW k \in Later PROVE poll_fds'[k].fd \in due'
  <2>1. CASE k = i
    <3>1. last \in Waiting /\ poll_fds'[k].fd = poll_fds[last].fd /\ last # i
      BY <1>2, <1>4, <1>5, <1>8, <1>9, <2>1
    <3> QED BY <1>2, <1>6, <1>7, <3>1
  <2>2. CASE k # i
    <3>1. k \in Waiting /\ poll_fds'[k].fd = poll_fds[k].fd
      BY <1>4, <1>5, <1>9, <2>2
    <3> QED BY <1>2, <1>6, <1>7, <2>2, <3>1
  <2> QED BY <2>1, <2>2
<1>10. ASSUME NEW f \in due' PROVE \E k \in Later : poll_fds'[k].fd = f
  <2>1. PICK k \in Waiting : poll_fds[k].fd = f
    BY <1>7, <1>10
  <2>2. k # i
    BY <1>10, <2>1
  <2>3. CASE k = last
    <3>1. i \in Used' /\ poll_fds'[i] = poll_fds[k]
      BY <1>2, <1>4, <1>5, <2>2, <2>3
    <3>2. i \in Later
      BY <1>1, <2>1, <3>1
    <3> QED BY <2>1, <3>1, <3>2
  <2>4. CASE k # last
    <3>1. k \in Used' /\ poll_fds'[k] = poll_fds[k]
      BY <1>4, <1>5, <2>1, <2>2, <2>4
    <3> QED BY <2>1, <3>1
  <2> QED BY <2>3, <2>4
<1>11. due' = {poll_fds'[k].fd : k \in Later}
  <2> HIDE DEF Later
  <2> QED BY <1>9, <1>10
<1> QED BY <1>1, <1>3, <1>11 DEF EventsServedOnce

-----------------------------------------------------------------------------
(* The inductive step                                                      *)

LEMMA InitIInv == Init => IInv
<1> SUFFICES ASSUME Init PROVE IInv
  OBVIOUS
<1>1. TypeOK
  <2>1. [fd |-> NoFd, revents |-> {}] \in Entry
    BY DEF Entry
  <2>2. poll_fds \in [Entries -> Entry]
    BY <2>1 DEF Init
  <2>3. socket_fd \in [Slots -> Fd \cup {NoFd}]
    BY DEF Init
  <2>4. poll_fds_count \in 1 .. MaxClients + 1 /\ i \in 1 .. MaxClients + 1
    BY MaxClientsAssumption DEF Init
  <2>5. unread \in [Fd -> 0 .. MaxUnread] /\ backlog \in 0 .. MaxBacklog
    BY BoundsAssumption DEF Init
  <2> QED BY <2>2, <2>3, <2>4, <2>5 DEF Init, TypeOK
<1>2. ~Running /\ Connected = {}
  BY DEF Init, Running, Connected
<1> QED
  BY <1>1, <1>2 DEF IInv, SlotsMatchPoll, EventsServedOnce, CallbacksMatch,
                    ServedAreOpen, AcceptHasWork, Running, Init

\* The three ways to drop a client share this: what is left to show of each is
\* that the descriptors still in the table are open.
LEMMA DropStep ==
    ASSUME IInv, Scanning, remove_client(poll_fds[i].fd), DropEntry,
           pc' = pc, due' = due \ {poll_fds[i].fd},
           UNCHANGED <<listen_revents, stop, backlog>>,
           Forget({poll_fds[i].fd}),
           open' = open \/ open' = open \ {poll_fds[i].fd}
    PROVE  IInv'
<1> USE DEF IInv
<1>1. /\ poll_fds[i].fd \in Connected
      /\ socket_fd' \in [Slots -> Fd \cup {NoFd}]
      /\ poll_fds' \in [Entries -> Entry]
      /\ poll_fds_count' \in 1 .. MaxClients + 1
      /\ Connected' = Connected \ {poll_fds[i].fd}
      /\ Polled' = Connected'
      /\ \A s, t \in Slots : socket_fd'[s] = socket_fd'[t] /\ socket_fd'[s] # NoFd => s = t
      /\ \A j, k \in Used' : poll_fds'[j].fd = poll_fds'[k].fd => j = k
  BY DropClient
<1>2. Running
  BY DEF Scanning, Running
<1>3. told' = Connected'
  BY <1>1, <1>2 DEF CallbacksMatch, remove_client
<1>4. TypeOK'
  <2>1. i' \in 1 .. MaxClients + 1 /\ told' \subseteq Fd /\ due' \subseteq Fd /\ open' \subseteq Fd
    BY DEF TypeOK, DropEntry, remove_client
  <2> QED BY <1>1, <2>1, ForgetType DEF TypeOK
<1>5. SlotsMatchPoll'
  BY <1>1 DEF SlotsMatchPoll
<1>6. EventsServedOnce'
  BY DropEvents
<1>7. CallbacksMatch'
  BY <1>3 DEF CallbacksMatch
<1>8. ServedAreOpen'
  BY <1>1 DEF ServedAreOpen
<1>9. AcceptHasWork'
  BY DEF AcceptHasWork, Scanning
<1> QED BY <1>4, <1>5, <1>6, <1>7, <1>8, <1>9

\* Steps that touch neither table nor the position in the scan.
LEMMA QuietStep ==
    ASSUME IInv, TypeOK', AcceptHasWork',
           UNCHANGED <<socket_fd, poll_fds, poll_fds_count, pc, i, told, due, open>>
    PROVE  IInv'
<1>1. Running' = Running /\ Connected' = Connected /\ Used' = Used /\ Polled' = Polled
  BY DEF Running, Connected, Used, Polled
<1>2. SlotsMatchPoll'
  BY <1>1 DEF IInv, SlotsMatchPoll
<1>3. EventsServedOnce'
  BY <1>1 DEF IInv, EventsServedOnce
<1>4. CallbacksMatch' /\ ServedAreOpen'
  BY <1>1 DEF IInv, CallbacksMatch, ServedAreOpen
<1> QED BY <1>2, <1>3, <1>4 DEF IInv

LEMMA StepIInv == IInv /\ [Next]_vars => IInv'
<1> SUFFICES ASSUME IInv, [Next]_vars PROVE IInv'
  OBVIOUS
<1> USE MaxClientsAssumption, BoundsAssumption
<1> USE DEF IInv, slots, table, peers, ClearSlots, StartScan, TakeConnection, Full, Drop
<1>1. CASE Start \/ StartFails
  <2>1. Connected' = {}
    BY <1>1 DEF Start, StartFails, Connected
  <2>2. TypeOK'
    <3>1. CASE Start
      <4>1. [fd |-> NoFd, revents |-> {}] \in Entry
        BY DEF Entry
      <4>2. poll_fds' \in [Entries -> Entry]
        BY <3>1, <4>1 DEF Start
      <4>3. socket_fd' \in [Slots -> Fd \cup {NoFd}]
        BY <3>1 DEF Start
      <4>4. 1 \in 1 .. MaxClients + 1 /\ 0 \in 0 .. MaxBacklog
        OBVIOUS
      <4> QED BY <3>1, <4>2, <4>3, <4>4, ForgetType DEF Start, TypeOK
    <3>2. CASE StartFails
      <4>1. socket_fd' \in [Slots -> Fd \cup {NoFd}]
        BY <3>2 DEF StartFails
      <4> QED BY <3>2, <4>1, ForgetType DEF StartFails, TypeOK
    <3> QED BY <1>1, <3>1, <3>2
  <2>3. SlotsMatchPoll'
    <3>1. CASE Start
      <4>1. Polled' = {} /\ Used' = {}
        BY <3>1 DEF Start, Polled, Used
      <4>2. \A s \in Slots : socket_fd'[s] = NoFd
        BY <3>1 DEF Start
      <4> QED BY <2>1, <4>1, <4>2 DEF SlotsMatchPoll
    <3>2. CASE StartFails
      BY <3>2 DEF StartFails, SlotsMatchPoll, Running
    <3> QED BY <1>1, <3>1, <3>2
  <2>4. EventsServedOnce'
    BY <1>1 DEF Start, StartFails, EventsServedOnce
  <2>5. CallbacksMatch'
    BY <1>1, <2>1 DEF Start, StartFails, CallbacksMatch, Running
  <2>6. ServedAreOpen' /\ AcceptHasWork'
    BY <1>1, <2>1 DEF ServedAreOpen, AcceptHasWork, Start, StartFails
  <2> QED BY <2>2, <2>3, <2>4, <2>5, <2>6
<1>2. CASE Stop
  <2>1. Connected' = {}
    BY <1>2 DEF Stop, Connected
  <2>2. socket_fd' \in [Slots -> Fd \cup {NoFd}]
    BY <1>2 DEF Stop
  <2>3. TypeOK'
    <3>1. 0 \in 0 .. MaxBacklog /\ FALSE \in BOOLEAN
      OBVIOUS
    <3> QED BY <1>2, <2>2, <3>1, ForgetType DEF Stop, TypeOK
  <2>4. ~Running' /\ pc' = "returned"
    BY <1>2 DEF Stop, Running
  <2> QED BY <2>1, <2>3, <2>4
          DEF SlotsMatchPoll, EventsServedOnce, CallbacksMatch, ServedAreOpen,
              AcceptHasWork
<1>3. CASE Poll
  <2>0. Running /\ Running' /\ Used' = Used /\ Connected' = Connected /\ Used \subseteq Entries
    BY <1>3 DEF Poll, Running, Used, Connected, Entries, TypeOK
  <2>1. \A f : Revents(f) \in SUBSET Flags
    BY DEF Revents, Flags
  <2>2. \A k \in Entries : poll_fds'[k] = IF k \in Used
                                          THEN [poll_fds[k] EXCEPT !.revents = Revents(poll_fds[k].fd)]
                                          ELSE poll_fds[k]
    BY <1>3 DEF Poll
  <2>3. \A k \in Entries : /\ poll_fds'[k] \in Entry
                           /\ poll_fds'[k].fd = poll_fds[k].fd
                           /\ k \in Used => poll_fds'[k].revents = Revents(poll_fds[k].fd)
    <3> SUFFICES ASSUME NEW k \in Entries
                 PROVE  /\ poll_fds'[k] \in Entry
                        /\ poll_fds'[k].fd = poll_fds[k].fd
                        /\ k \in Used => poll_fds'[k].revents = Revents(poll_fds[k].fd)
      OBVIOUS
    <3>1. PICK e \in Entry : poll_fds[k] = e
      BY DEF TypeOK
    <3>2. PICK r \in SUBSET Flags : r = Revents(e.fd)
      BY <2>1
    <3>3. /\ [e EXCEPT !.revents = r] \in Entry
          /\ [e EXCEPT !.revents = r].fd = e.fd
          /\ [e EXCEPT !.revents = r].revents = r
      BY DEF Entry
    <3> QED BY <2>2, <3>1, <3>2, <3>3
  <2>4. poll_fds' \in [Entries -> Entry]
    BY <1>3, <2>3 DEF Poll
  <2>5. Polled' = Polled
    BY <2>0, <2>3 DEF Polled
  <2>6. Polled \subseteq Fd
    BY <2>0 DEF SlotsMatchPoll, Connected, TypeOK
  <2>7. TypeOK'
    <3>1. listen_revents' \in SUBSET Flags
      BY <1>3 DEF Poll, ListenRevents, Flags
    <3>2. due' \subseteq Fd
      BY <1>3, <2>6 DEF Poll
    <3> QED BY <1>3, <2>4, <3>1, <3>2 DEF Poll, TypeOK
  <2>8. SlotsMatchPoll'
    BY <1>3, <2>0, <2>3, <2>5 DEF SlotsMatchPoll, Poll
  <2>9. due' = {poll_fds'[k].fd : k \in {n \in Used' : poll_fds'[n].revents # {}}}
    <3>1. due' = {f \in Polled : Revents(f) # {}}
      BY <1>3 DEF Poll
    <3> QED BY <2>0, <2>3, <3>1 DEF Polled
  <2>10. EventsServedOnce'
    BY <1>3, <2>9 DEF EventsServedOnce, Poll
  <2>11. AcceptHasWork'
    BY <1>3 DEF AcceptHasWork, Poll, ListenRevents
  <2> QED BY <1>3, <2>0, <2>7, <2>8, <2>10, <2>11 DEF CallbacksMatch, ServedAreOpen, Poll
<1>4. CASE PollError \/ AcceptFails
  <2>1. TypeOK' /\ pc' = "returned" /\ socket_fd' = socket_fd /\ open' = open
    BY <1>4 DEF PollError, AcceptFails, TypeOK
  <2>2. ~Running' /\ Connected' = Connected
    BY <2>1 DEF Running, Connected
  <2> QED BY <2>1, <2>2
          DEF SlotsMatchPoll, EventsServedOnce, CallbacksMatch, ServedAreOpen,
              AcceptHasWork
<1>5. CASE NoNewClient \/ AcceptRefused
  <2>1. /\ pc = "accept" /\ pc' = "scan" /\ i' = 1
        /\ UNCHANGED <<socket_fd, poll_fds, poll_fds_count, told, due, open>>
    BY <1>5 DEF NoNewClient, AcceptRefused, AcceptGuard
  <2>2. TypeOK'
    <3>1. CASE NoNewClient
      BY <3>1 DEF NoNewClient, TypeOK
    <3>2. CASE AcceptRefused
      <4>1. backlog > 0
        BY <3>2 DEF AcceptHasWork, AcceptRefused, AcceptGuard
      <4>2. backlog' \in 0 .. MaxBacklog
        BY <3>2, <4>1 DEF AcceptRefused, TypeOK
      <4> QED BY <3>2, <4>2 DEF AcceptRefused, TypeOK
    <3> QED BY <1>5, <3>1, <3>2
  <2>3. EventsServedOnce'
    BY <2>1 DEF EventsServedOnce, Used, TypeOK
  <2>4. AcceptHasWork'
    BY <2>1 DEF AcceptHasWork
  <2>5. Running /\ Running' /\ Used' = Used /\ Connected' = Connected /\ Polled' = Polled
    BY <2>1 DEF Running, Used, Connected, Polled
  <2>6. SlotsMatchPoll'
    BY <2>1, <2>5 DEF SlotsMatchPoll
  <2>7. CallbacksMatch' /\ ServedAreOpen'
    BY <2>1, <2>5 DEF CallbacksMatch, ServedAreOpen
  <2> QED BY <2>2, <2>3, <2>4, <2>6, <2>7
<1>6. CASE AcceptClient
  <2>1. PICK f \in Fd \ open, s \in Slots :
           /\ socket_fd[s] = NoFd
           /\ socket_fd' = [socket_fd EXCEPT ![s] = f]
           /\ poll_fds' = [poll_fds EXCEPT ![poll_fds_count] = NewEntry(f)]
           /\ poll_fds_count' = poll_fds_count + 1
           /\ told' = told \cup {f}
           /\ open' = open \cup {f}
    BY <1>6 DEF AcceptClient, AddEntry, add_to_clients, FirstWith
  <2>2. /\ pc = "accept" /\ pc' = "scan" /\ i' = 1 /\ Running /\ Running'
        /\ backlog' = backlog - 1
        /\ UNCHANGED <<listen_revents, due, stop, unread, peer>>
        /\ listen_revents # {}
    BY <1>6 DEF AcceptClient, AcceptGuard, Running
  <2>3. poll_fds_count \in Entries /\ Used' = Used \cup {poll_fds_count} /\ Used \subseteq Entries
    <3>1. poll_fds_count <= MaxClients
      BY <2>1, <2>2, FreeSlotMeansRoom
    <3> QED BY <2>1, <3>1 DEF Used, Entries, TypeOK
  <2>4. f # NoFd /\ f \notin Connected
    BY NoFdAssumption DEF ServedAreOpen
  <2>5. poll_fds_count \notin Used
    BY DEF Used, TypeOK
  <2>6. \A k \in Entries : poll_fds'[k] = IF k = poll_fds_count THEN NewEntry(f) ELSE poll_fds[k]
    BY <2>1 DEF TypeOK
  <2>7. NewEntry(f) \in Entry /\ NewEntry(f).fd = f /\ NewEntry(f).revents = {}
    BY DEF NewEntry, Entry
  <2>8. \A t \in Slots : socket_fd'[t] = IF t = s THEN f ELSE socket_fd[t]
    BY <2>1 DEF TypeOK
  <2>9. Connected' = Connected \cup {f}
    BY <2>1, <2>4, <2>8 DEF Connected
  <2>10. /\ \A k \in Used : poll_fds'[k] = poll_fds[k]
         /\ poll_fds'[poll_fds_count] = NewEntry(f)
    BY <2>3, <2>5, <2>6
  <2>11. Polled' = Polled \cup {f}
    BY <2>3, <2>7, <2>10 DEF Polled
  <2>12. TypeOK'
    <3>1. poll_fds' \in [Entries -> Entry]
      BY <2>1, <2>7 DEF TypeOK
    <3>2. socket_fd' \in [Slots -> Fd \cup {NoFd}]
      BY <2>1 DEF TypeOK
    <3>3. backlog' \in 0 .. MaxBacklog
      BY <2>2 DEF AcceptHasWork, TypeOK
    <3>4. unread' \in [Fd -> 0 .. MaxUnread] /\ peer' \in [Fd -> {"up", "eof", "reset"}]
      BY <2>2 DEF TypeOK
    <3>5. poll_fds_count' \in 1 .. MaxClients + 1 /\ i' \in 1 .. MaxClients + 1
      BY <2>1, <2>2, <2>3 DEF Entries
    <3> QED BY <2>1, <2>2, <3>1, <3>2, <3>3, <3>4, <3>5 DEF TypeOK
  <2>13. SlotsMatchPoll'
    <3>1. \A t, u \in Slots : socket_fd'[t] = socket_fd'[u] /\ socket_fd'[t] # NoFd => t = u
      BY <2>2, <2>4, <2>8 DEF SlotsMatchPoll, Connected
    <3>2. \A j \in Used : poll_fds[j].fd # f
      BY <2>2, <2>4 DEF SlotsMatchPoll, Polled
    <3>3. \A j, k \in Used' : poll_fds'[j].fd = poll_fds'[k].fd => j = k
      BY <2>2, <2>3, <2>7, <2>10, <3>2 DEF SlotsMatchPoll
    <3> QED BY <2>2, <2>9, <2>11, <3>1, <3>3 DEF SlotsMatchPoll
  <2>14. EventsServedOnce'
    <3>1. due = {poll_fds[k].fd : k \in {n \in Used : poll_fds[n].revents # {}}}
      BY <2>2 DEF EventsServedOnce
    <3>2. \A n \in Used' : n >= 1
      BY <2>3 DEF Used, Entries, TypeOK
    <3>3. {n \in Used' : poll_fds'[n].revents # {}} = {n \in Used : poll_fds[n].revents # {}}
      BY <2>3, <2>7, <2>10
    <3>4. due' = {poll_fds'[k].fd : k \in {n \in Used' : poll_fds'[n].revents # {}}}
      BY <2>2, <2>10, <3>1, <3>3
    <3> QED BY <2>2, <3>2, <3>4 DEF EventsServedOnce
  <2>15. CallbacksMatch' /\ ServedAreOpen' /\ AcceptHasWork'
    BY <2>1, <2>2, <2>9 DEF CallbacksMatch, ServedAreOpen, AcceptHasWork
  <2> QED BY <2>12, <2>13, <2>14, <2>15
<1>7. CASE ScanHangup \/ ScanReadFails \/ ScanProtocolError
  <2>1. /\ Scanning /\ remove_client(poll_fds[i].fd) /\ DropEntry
        /\ pc' = pc /\ due' = due \ {poll_fds[i].fd}
        /\ UNCHANGED <<listen_revents, stop, backlog>>
        /\ Forget({poll_fds[i].fd})
        /\ open' = open \/ open' = open \ {poll_fds[i].fd}
    BY <1>7 DEF ScanHangup, ScanReadFails, ScanProtocolError, ReadGuard
  <2> QED BY <2>1, DropStep
<1>8. CASE ScanRead \/ ScanSkip
  <2>1. /\ Scanning /\ pc = "scan" /\ i < poll_fds_count /\ i' = i + 1 /\ Running /\ Running'
        /\ UNCHANGED <<socket_fd, poll_fds, poll_fds_count, listen_revents, pc, told, stop,
                       open, peer, backlog>>
    BY <1>8 DEF ScanRead, ScanSkip, ReadGuard, Scanning, Running
  <2>2. i \in Used /\ poll_fds[i].fd \in Connected /\ poll_fds[i].fd \in Fd
    <3>1. i \in Used
      BY <2>1 DEF Used, TypeOK
    <3>2. poll_fds[i].fd \in Connected
      BY <2>1, <3>1 DEF SlotsMatchPoll, Polled
    <3> QED BY <3>1, <3>2 DEF Connected, TypeOK
  <2>3. /\ poll_fds[i].revents = {} => due' = due
        /\ poll_fds[i].revents # {} => due' = due \ {poll_fds[i].fd}
    BY <1>8 DEF ScanRead, ScanSkip, ReadGuard
  <2>4. TypeOK'
    <3>1. unread' \in [Fd -> 0 .. MaxUnread]
      <4>1. CASE ScanRead
        <5>1. unread[poll_fds[i].fd] - 1 \in 0 .. MaxUnread
          BY <2>2, <4>1 DEF ScanRead, HasData, TypeOK
        <5> QED BY <4>1, <5>1 DEF ScanRead, TypeOK
      <4>2. CASE ScanSkip
        BY <4>2 DEF ScanSkip, TypeOK
      <4> QED BY <1>8, <4>1, <4>2
    <3>2. due' \subseteq Fd
      BY <2>3 DEF TypeOK
    <3>3. i' \in 1 .. MaxClients + 1
      BY <2>1 DEF TypeOK
    <3> QED BY <2>1, <3>1, <3>2, <3>3 DEF TypeOK
  <2>5. EventsServedOnce'
    <3>1. \A j, k \in Used : poll_fds[j].fd = poll_fds[k].fd => j = k
      BY <2>1 DEF SlotsMatchPoll
    <3>2. due = {poll_fds[k].fd : k \in {n \in Used : poll_fds[n].revents # {} /\ n >= i}}
      BY <2>1 DEF EventsServedOnce
    <3>3. \A n \in Used : n >= i <=> n = i \/ n >= i + 1
      BY DEF Used, TypeOK
    <3> DEFINE Now   == {n \in Used : poll_fds[n].revents # {} /\ n >= i}
               Later == {n \in Used : poll_fds[n].revents # {} /\ n >= i + 1}
    <3>5. ~(i >= i + 1) /\ i >= i
      BY DEF TypeOK
    <3>4. due' = {poll_fds[k].fd : k \in Later}
      <4>1. CASE poll_fds[i].revents = {}
        <5>1. Later = Now
          BY <3>3, <4>1
        <5> QED BY <2>3, <3>2, <4>1, <5>1
      <4>2. CASE poll_fds[i].revents # {}
        <5>1. Now = Later \cup {i} /\ i \notin Later /\ Later \subseteq Used
          BY <2>2, <3>3, <3>5, <4>2
        <5>2. due' = {poll_fds[k].fd : k \in Now} \ {poll_fds[i].fd}
          BY <2>3, <3>2, <4>2
        <5> HIDE DEF Now, Later
        <5> QED BY <2>2, <3>1, <5>1, <5>2
      <4> QED BY <4>1, <4>2
    <3> QED BY <2>1, <3>4 DEF EventsServedOnce, Used
  <2> QED BY <2>1, <2>4, <2>5
          DEF SlotsMatchPoll, CallbacksMatch, ServedAreOpen, AcceptHasWork,
              Running, Connected, Polled, Used
<1>9. CASE ScanEnd
  <2>1. TypeOK' /\ Running /\ pc = "scan" /\ pc' = "top" /\ i >= poll_fds_count
        /\ UNCHANGED <<socket_fd, poll_fds, poll_fds_count, told, due, open>>
    BY <1>9 DEF ScanEnd, TypeOK, Running
  <2>2. due = {}
    <3>1. \A n \in Used : ~(n >= i)
      BY <2>1 DEF Used, TypeOK
    <3> QED BY <2>1, <3>1 DEF EventsServedOnce
  <2> QED BY <2>1, <2>2
          DEF SlotsMatchPoll, EventsServedOnce, CallbacksMatch, ServedAreOpen,
              AcceptHasWork, Running, Connected, Polled, Used
<1>10. CASE Environment \/ UNCHANGED vars
  <2>1. UNCHANGED <<socket_fd, poll_fds, poll_fds_count, pc, i, told, due, open, listen_revents>>
    BY <1>10 DEF Environment, RequestStop, Connect, PeerSends, PeerCloses, PeerResets,
                 vars, server
  <2>2. backlog' = backlog \/ (backlog < MaxBacklog /\ backlog' = backlog + 1)
    BY <1>10 DEF Environment, RequestStop, Connect, PeerSends, PeerCloses, PeerResets,
                 vars, server
  <2>3. unread' \in [Fd -> 0 .. MaxUnread] /\ peer' \in [Fd -> {"up", "eof", "reset"}]
        /\ stop' \in BOOLEAN
    <3> DEFINE Good == /\ unread' \in [Fd -> 0 .. MaxUnread]
                       /\ peer' \in [Fd -> {"up", "eof", "reset"}]
                       /\ stop' \in BOOLEAN
    <3>1. ASSUME NEW f \in Fd, PeerSends(f) PROVE Good
      <4>1. unread[f] + 1 \in 0 .. MaxUnread
        BY <3>1 DEF PeerSends, TypeOK
      <4> QED BY <3>1, <4>1 DEF PeerSends, TypeOK
    <3>2. ASSUME NEW f \in Fd, PeerCloses(f) \/ PeerResets(f) PROVE Good
      BY <3>2 DEF PeerCloses, PeerResets, TypeOK, server
    <3> QED BY <1>10, <3>1, <3>2 DEF Environment, RequestStop, Connect, vars, server, TypeOK
  <2>4. TypeOK'
    <3>1. backlog' \in 0 .. MaxBacklog
      BY <2>2 DEF TypeOK
    <3> QED BY <2>1, <2>3, <3>1 DEF TypeOK
  <2>5. AcceptHasWork'
    BY <2>1, <2>2 DEF AcceptHasWork, TypeOK
  <2> QED BY <2>1, <2>4, <2>5, QuietStep
<1>11. CASE ScanSpins \/ KeepSpinning
  <2>1. TypeOK' /\ Running /\ pc' = "spinning" /\ listen_revents' = listen_revents
        /\ UNCHANGED <<socket_fd, poll_fds, poll_fds_count, told, open>>
    <3>1. CASE ScanSpins
      <4>1. poll_fds[i].fd \in Fd /\ unread[poll_fds[i].fd] - 1 \in 0 .. MaxUnread
        <5>1. i \in Used
          BY <3>1, MaxClientsAssumption DEF ScanSpins, ReadGuard, Scanning, Used, TypeOK
        <5>2. poll_fds[i].fd \in Connected
          BY <3>1, <5>1 DEF ScanSpins, ReadGuard, Scanning, Running, SlotsMatchPoll, Polled
        <5>3. poll_fds[i].fd \in Fd
          BY <5>2 DEF Connected, TypeOK
        <5> QED BY <3>1, <5>3 DEF ScanSpins, HasData, TypeOK
      <4> QED BY <3>1, <4>1 DEF ScanSpins, ReadGuard, Scanning, Running, TypeOK
    <3>2. CASE KeepSpinning
      BY <3>2 DEF KeepSpinning, vars, server, Running, TypeOK
    <3> QED BY <1>11, <3>1, <3>2
  <2>2. Running' /\ Connected' = Connected /\ Polled' = Polled /\ Used' = Used
    BY <2>1 DEF Running, Connected, Polled, Used
  <2> QED BY <2>1, <2>2
          DEF SlotsMatchPoll, EventsServedOnce, CallbacksMatch, ServedAreOpen,
              AcceptHasWork
<1> QED
  BY <1>1, <1>2, <1>3, <1>4, <1>5, <1>6, <1>7, <1>8, <1>9, <1>10, <1>11 DEF Next, LoopStep

-----------------------------------------------------------------------------
(* The theorems                                                            *)

LEMMA IInvHolds == Spec => []IInv
  BY InitIInv, StepIInv, PTL DEF Spec

\* Types, among them i and poll_fds_count: no index leaves its array.
THEOREM TypeCorrect == Spec => []TypeOK
<1>1. IInv => TypeOK
  BY DEF IInv
<1> QED BY IInvHolds, <1>1, PTL

\* The two tables of clients agree between any two steps of the loop.
THEOREM TablesAgree == Spec => []SlotsMatchPoll
<1>1. IInv => SlotsMatchPoll
  BY DEF IInv
<1> QED BY IInvHolds, <1>1, PTL

\* poll_fds never holds more than MaxClients clients and the listening socket.
THEOREM PollTableNeverOverflows == Spec => []PollTableFits
<1>1. IInv => PollTableFits
  BY MaxClientsAssumption DEF IInv, TypeOK, PollTableFits
<1> QED BY IInvHolds, <1>1, PTL

\* Each event poll() reports is handled in the scan that follows, and once.
THEOREM NoEventLostOrRepeated == Spec => []EventsServedOnce
<1>1. IInv => EventsServedOnce
  BY DEF IInv
<1> QED BY IInvHolds, <1>1, PTL

\* The host's view, built from the callbacks, is the set of clients served.
THEOREM HostKnowsClients == Spec => []CallbacksMatch
<1>1. IInv => CallbacksMatch
  BY DEF IInv
<1> QED BY IInvHolds, <1>1, PTL

\* No closed descriptor is read, polled or closed again.
THEOREM NoStaleDescriptor == Spec => []ServedAreOpen
<1>1. IInv => ServedAreOpen
  BY DEF IInv
<1> QED BY IInvHolds, <1>1, PTL

-----------------------------------------------------------------------------
(* Why a client leaves                                                     *)

Caused == {f \in Fd : peer[f] # "up" \/ unread[f] > 0}
HungUp == {f \in Fd : peer[f] = "reset"}

\* What an entry still to be scanned reports is true of its own client, although
\* its peer acts on after the poll and entries move.
TrueReports ==
    pc \in {"accept", "scan"} =>
      \A k \in Used : /\ poll_fds[k].revents # {}
                      /\ pc = "scan" => k >= i
                      => /\ poll_fds[k].fd \in Caused
                         /\ "POLLHUP" \in poll_fds[k].revents => poll_fds[k].fd \in HungUp

\* A drop takes the reports of the other clients along with their entries.
LEMMA DropReports ==
    ASSUME IInv, TrueReports, Scanning, pc' = pc, Drop
    PROVE  TrueReports'
<1> DEFINE last == poll_fds_count - 1
<1>1. /\ poll_fds_count \in Nat /\ poll_fds_count <= MaxClients + 1 /\ MaxClients \in Nat
      /\ i \in Nat \ {0} /\ i < poll_fds_count /\ pc = "scan" /\ Running
  BY MaxClientsAssumption DEF IInv, TypeOK, Scanning, Running
<1>2. i \in Used /\ last \in Used /\ Used \subseteq Entries
  BY <1>1 DEF Used, Entries
<1>3. /\ poll_fds' = [poll_fds EXCEPT ![i] = poll_fds[last]]
      /\ poll_fds_count' = last /\ i' = i
      /\ Forget({poll_fds[i].fd})
  BY DEF Drop, DropEntry
<1>4. \A j, k \in Used : poll_fds[j].fd = poll_fds[k].fd => j = k
  BY <1>1 DEF IInv, SlotsMatchPoll
<1> SUFFICES ASSUME NEW k \in Used', poll_fds'[k].revents # {}, k >= i
             PROVE  /\ poll_fds'[k].fd \in Caused'
                    /\ "POLLHUP" \in poll_fds'[k].revents => poll_fds'[k].fd \in HungUp'
  BY <1>1, <1>3 DEF TrueReports
<1>5. PICK j \in Used : j # i /\ j >= i /\ poll_fds'[k] = poll_fds[j]
  <2>1. k \in Used /\ k # last
    BY <1>1, <1>3 DEF Used
  <2>2. CASE k = i
    BY <1>1, <1>2, <1>3, <2>1, <2>2 DEF IInv, TypeOK
  <2>3. CASE k # i
    BY <1>2, <1>3, <2>1, <2>3 DEF IInv, TypeOK
  <2> QED BY <2>2, <2>3
<1>6. /\ poll_fds[j].fd \in Caused
      /\ "POLLHUP" \in poll_fds[j].revents => poll_fds[j].fd \in HungUp
  BY <1>1, <1>5 DEF TrueReports
<1>7. poll_fds[j].fd # poll_fds[i].fd /\ poll_fds[j].fd \in Fd
  <2>1. poll_fds[j].fd \in Connected
    BY <1>1 DEF IInv, SlotsMatchPoll, Polled
  <2> QED BY <1>2, <1>4, <1>5, <2>1 DEF Connected, IInv, TypeOK
<1> QED BY <1>3, <1>5, <1>6, <1>7 DEF Forget, Caused, HungUp

LEMMA StepTrueReports == IInv /\ TrueReports /\ [Next]_vars => TrueReports'
<1> SUFFICES ASSUME IInv, TrueReports, [Next]_vars PROVE TrueReports'
  OBVIOUS
<1> USE DEF slots, table, peers, StartScan
<1>1. CASE \/ Start \/ StartFails \/ Stop \/ PollError \/ AcceptFails \/ ScanEnd
           \/ ScanSpins \/ KeepSpinning
  BY <1>1 DEF Start, StartFails, Stop, PollError, AcceptFails, ScanEnd, ScanSpins,
              KeepSpinning, vars, server, TrueReports
<1>2. CASE Poll
  <2>1. Used' = Used /\ Used \subseteq Entries /\ pc' = "accept" /\ UNCHANGED <<unread, peer>>
    BY <1>2, MaxClientsAssumption DEF Poll, Used, Entries, IInv, TypeOK
  <2> SUFFICES ASSUME NEW k \in Used, poll_fds'[k].revents # {}
               PROVE  /\ poll_fds'[k].fd \in Caused'
                      /\ "POLLHUP" \in poll_fds'[k].revents => poll_fds'[k].fd \in HungUp'
    BY <2>1 DEF TrueReports
  <2>2. PICK e \in Entry : poll_fds[k] = e
    BY <2>1 DEF IInv, TypeOK
  <2>3. poll_fds'[k] = [e EXCEPT !.revents = Revents(e.fd)]
    BY <1>2, <2>1, <2>2 DEF Poll
  <2>4. /\ poll_fds'[k].fd = e.fd /\ poll_fds'[k].revents = Revents(e.fd)
        /\ Revents(e.fd) # {}
    BY <2>3 DEF Entry
  <2>5. e.fd \in Caused /\ ("POLLHUP" \in Revents(e.fd) => e.fd \in HungUp)
    <3>1. e.fd \in Connected
      BY <1>2, <2>2 DEF Poll, IInv, SlotsMatchPoll, Polled, Running
    <3>2. e.fd \in Fd
      BY <3>1 DEF Connected, IInv, TypeOK
    <3> QED BY <2>4, <3>2 DEF Revents, Caused, HungUp
  <2> QED BY <2>1, <2>4, <2>5 DEF Caused, HungUp
<1>3. CASE NoNewClient \/ AcceptRefused
  <2>1. pc = "accept" /\ pc' = "scan" /\ UNCHANGED <<poll_fds, poll_fds_count, unread, peer>>
    BY <1>3 DEF NoNewClient, AcceptRefused, AcceptGuard
  <2> QED BY <2>1 DEF TrueReports, Caused, HungUp, Used
<1>4. CASE AcceptClient
  <2>1. PICK f \in Fd : /\ poll_fds' = [poll_fds EXCEPT ![poll_fds_count] = NewEntry(f)]
                        /\ poll_fds_count' = poll_fds_count + 1
    BY <1>4 DEF AcceptClient, AddEntry
  <2>2. pc = "accept" /\ pc' = "scan" /\ UNCHANGED <<unread, peer>>
    BY <1>4 DEF AcceptClient, AcceptGuard
  <2> SUFFICES ASSUME NEW k \in Used', poll_fds'[k].revents # {}
               PROVE  /\ poll_fds'[k].fd \in Caused'
                      /\ "POLLHUP" \in poll_fds'[k].revents => poll_fds'[k].fd \in HungUp'
    BY <2>2 DEF TrueReports
  <2>3. poll_fds_count \in Nat /\ poll_fds \in [Entries -> Entry]
    BY DEF IInv, TypeOK
  <2>4. k \in Entries
    <3>1. PICK s \in Slots : socket_fd[s] = NoFd
      BY <1>4 DEF AcceptClient, add_to_clients, FirstWith
    <3>2. poll_fds_count <= MaxClients
      BY <2>2, <3>1, FreeSlotMeansRoom DEF IInv, Running
    <3> QED BY <2>1, <2>3, <3>2, MaxClientsAssumption DEF Used, Entries
  <2>5. k # poll_fds_count
    BY <2>1, <2>3, <2>4 DEF NewEntry
  <2>6. k \in Used /\ poll_fds'[k] = poll_fds[k]
    BY <2>1, <2>3, <2>4, <2>5 DEF Used
  <2> QED BY <2>2, <2>6 DEF TrueReports, Caused, HungUp
<1>5. CASE ScanHangup \/ ScanReadFails \/ ScanProtocolError
  BY <1>5, DropReports DEF ScanHangup, ScanReadFails, ScanProtocolError, ReadGuard
<1>6. CASE ScanRead \/ ScanSkip
  <2>1. /\ pc = "scan" /\ pc' = "scan" /\ i' = i + 1 /\ i < poll_fds_count
        /\ UNCHANGED <<poll_fds, poll_fds_count, peer>>
        /\ unread' = unread \/ unread' = [unread EXCEPT ![poll_fds[i].fd] = @ - 1]
    BY <1>6 DEF ScanRead, ScanSkip, ReadGuard, Scanning
  <2>2. i \in Nat \ {0} /\ poll_fds_count \in Nat
    BY DEF IInv, TypeOK
  <2> SUFFICES ASSUME NEW k \in Used, poll_fds[k].revents # {}, k >= i + 1
               PROVE  /\ poll_fds[k].fd \in Caused'
                      /\ "POLLHUP" \in poll_fds[k].revents => poll_fds[k].fd \in HungUp'
    BY <2>1 DEF TrueReports, Used
  <2>3. i \in Used /\ k # i /\ k >= i
    BY <2>1, <2>2 DEF Used
  <2>4. poll_fds[k].fd # poll_fds[i].fd /\ poll_fds[k].fd \in Fd
    <3>1. poll_fds[k].fd \in Connected
      BY <2>1 DEF IInv, SlotsMatchPoll, Polled, Running
    <3>2. poll_fds[k].fd # poll_fds[i].fd
      BY <2>1, <2>3 DEF IInv, SlotsMatchPoll, Running
    <3> QED BY <3>1, <3>2 DEF Connected, IInv, TypeOK
  <2>5. /\ poll_fds[k].fd \in Caused
        /\ "POLLHUP" \in poll_fds[k].revents => poll_fds[k].fd \in HungUp
    BY <2>1, <2>3 DEF TrueReports
  <2>6. unread'[poll_fds[k].fd] = unread[poll_fds[k].fd]
    BY <2>1, <2>4 DEF IInv, TypeOK
  <2> QED BY <2>1, <2>5, <2>6 DEF Caused, HungUp
<1>7. CASE Environment \/ UNCHANGED vars
  <2>1. UNCHANGED <<poll_fds, poll_fds_count, pc, i>>
    BY <1>7 DEF Environment, RequestStop, Connect, PeerSends, PeerCloses, PeerResets,
                vars, server
  <2> SUFFICES ASSUME NEW f \in Fd
               PROVE  (f \in Caused => f \in Caused') /\ (f \in HungUp => f \in HungUp')
    <3>1. \A k \in Used : pc \in {"accept", "scan"} => poll_fds[k].fd \in Fd
      <4>1. pc \in {"accept", "scan"} => \A k \in Used : poll_fds[k].fd \in Connected
        BY DEF IInv, SlotsMatchPoll, Polled, Running
      <4>2. Connected \subseteq Fd
        BY DEF IInv, TypeOK, Connected
      <4> QED BY <4>1, <4>2
    <3> QED BY <2>1, <3>1 DEF TrueReports, Used
  <2>2. unread \in [Fd -> Nat] /\ peer \in [Fd -> {"up", "eof", "reset"}]
    BY DEF IInv, TypeOK
  <2>3. ASSUME NEW g \in Fd, PeerSends(g)
        PROVE  (f \in Caused => f \in Caused') /\ (f \in HungUp => f \in HungUp')
    BY <2>2, <2>3 DEF PeerSends, Caused, HungUp, server
  <2>4. ASSUME NEW g \in Fd, PeerCloses(g) \/ PeerResets(g)
        PROVE  (f \in Caused => f \in Caused') /\ (f \in HungUp => f \in HungUp')
    BY <2>2, <2>4 DEF PeerCloses, PeerResets, Caused, HungUp, server
  <2>5. CASE RequestStop \/ Connect \/ UNCHANGED vars
    BY <2>5 DEF RequestStop, Connect, vars, server, Caused, HungUp
  <2> QED BY <1>7, <2>3, <2>4, <2>5 DEF Environment
<1> QED BY <1>1, <1>2, <1>3, <1>4, <1>5, <1>6, <1>7 DEF Next, LoopStep

\* Only a drop, a stop and a start take a client out of the slot table; of the drops
\* that of a live peer closes the socket.
LEMMA LeavesForCause ==
    ASSUME IInv, TrueReports, [Next]_vars, NEW f \in Connected \ Connected'
    PROVE  /\ peer[f] # "up" \/ unread[f] > 0 \/ ~Running' \/ ~Running
           /\ Running /\ Running' /\ f \in open' => peer[f] # "up"
<1> USE DEF slots, table, peers
<1>1. CASE Start \/ StartFails \/ Stop
  BY <1>1 DEF Start, StartFails, Stop, Running
<1>2. CASE ScanHangup \/ ScanReadFails \/ ScanProtocolError
  <2>1. Scanning /\ remove_client(poll_fds[i].fd) /\ DropEntry /\ poll_fds[i].revents # {}
    BY <1>2 DEF ScanHangup, ScanReadFails, ScanProtocolError, ReadGuard, Drop
  <2>2. f = poll_fds[i].fd
    BY <2>1, DropClient DEF IInv
  <2>3. i \in Used /\ i >= i /\ pc = "scan"
    BY <2>1 DEF Scanning, Used, IInv, TypeOK
  <2>4. f \in Caused /\ ("POLLHUP" \in poll_fds[i].revents => f \in HungUp)
    BY <2>1, <2>2, <2>3 DEF TrueReports
  <2>5. f \in open' => peer[f] # "up"
    <3>1. CASE ScanHangup
      BY <2>4, <3>1 DEF ScanHangup, HungUp
    <3>2. CASE ScanReadFails
      BY <2>2, <2>4, <3>2 DEF ScanReadFails, HasData, Caused
    <3>3. CASE ScanProtocolError
      BY <2>2, <3>3 DEF ScanProtocolError
    <3> QED BY <1>2, <3>1, <3>2, <3>3
  <2> QED BY <2>4, <2>5 DEF Caused
<1>3. CASE AcceptClient
  <2>1. PICK g \in Fd, s \in Slots : socket_fd[s] = NoFd /\ socket_fd' = [socket_fd EXCEPT ![s] = g]
    BY <1>3 DEF AcceptClient, add_to_clients, FirstWith
  <2>2. Connected \subseteq Connected'
    BY <2>1 DEF Connected, IInv, TypeOK
  <2> QED BY <2>2
<1>4. CASE \/ Poll \/ PollError \/ NoNewClient \/ AcceptRefused \/ AcceptFails
           \/ ScanRead \/ ScanSpins \/ KeepSpinning \/ ScanSkip \/ ScanEnd
           \/ Environment \/ UNCHANGED vars
  <2>1. socket_fd' = socket_fd
    BY <1>4 DEF Poll, PollError, NoNewClient, AcceptRefused, AcceptFails, ScanRead, ScanSkip,
                ScanSpins, KeepSpinning, ScanEnd, Environment, RequestStop, Connect, PeerSends, PeerCloses,
                PeerResets, vars, server
  <2> QED BY <2>1 DEF Connected
<1> QED BY <1>1, <1>2, <1>3, <1>4 DEF Next, LoopStep

\* A client leaves because of its peer or of the host, never on another's event.
THEOREM NobodyDroppedForAnother == Spec => RemovedForCause
<1>1. Init => TrueReports
  BY DEF Init, TrueReports
<1>2. IInv /\ TrueReports /\ [Next]_vars
        => [\A f \in Connected \ Connected' : \/ peer[f] # "up"
                                              \/ unread[f] > 0
                                              \/ ~Running'
                                              \/ ~Running]_vars
  BY LeavesForCause
<1> QED BY IInvHolds, StepTrueReports, <1>1, <1>2, PTL DEF Spec, RemovedForCause

\* A peer that is still there is not dropped behind its back: its socket is closed, and
\* of the descriptors the process loses none belongs to a live peer.
THEOREM NoLivePeerAbandoned == Spec => NoPeerLeftHanging
<1>1. Init => TrueReports
  BY DEF Init, TrueReports
<1>2. IInv /\ TrueReports /\ [Next]_vars
        => [Running /\ Running'
              => \A f \in (Connected \ Connected') \cap open' : peer[f] # "up"]_vars
  BY LeavesForCause
<1> QED BY IInvHolds, StepTrueReports, <1>1, <1>2, PTL DEF Spec, NoPeerLeftHanging

=============================================================================
