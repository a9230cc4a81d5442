-------------------------- MODULE NwaServerProofs --------------------------
(***************************************************************************)
(* The server keeps what NwaConnection promises to every client that paces *)
(* itself, for any number of slots, descriptors, requests and bounds, and  *)
(* whatever the other clients send.                                        *)
(*                                                                         *)
(* Every step of the composed server is a step of the event loop, so what  *)
(* PollServerProofs shows of the tables holds here too.  On top of that:   *)
(* a descriptor nobody is served on carries nothing over to its next       *)
(* connection, neither unread data nor requests, and the one connection    *)
(* that may end with requests of its own, by a protocol error, is cleared  *)
(* before the scan is over and the next client can be accepted.            *)
(***************************************************************************)
EXTENDS NwaServer, PollServerProofs, SequenceTheorems

Outcomes == {Disposition(r) : r \in Requests}

ConnsType ==
    /\ sent \in [Fd -> Seq(Requests)]
    /\ served \in [Fd -> Seq(Outcomes)]

\* Nothing of a former client waits in the socket of a descriptor.
NothingLeftUnread == \A f \in Fd \ Connected : unread[f] = 0

\* Outside the scan nothing is kept of a connection that has ended.
NothingKept ==
    pc # "scan" => \A f \in Fd : ~Serves(f) => sent[f] = <<>> /\ served[f] = <<>>

ServerInv ==
    /\ IInv
    /\ ConnsType
    /\ NothingLeftUnread
    /\ NothingKept
    /\ UnreadIsUnserved

\* Arithmetic of the lengths, apart from the sequences they are of.
LEMMA Behind ==
    ASSUME NEW a \in Nat, NEW b \in Nat, NEW c \in Nat, c = a - b
    PROVE  /\ c > 0 => b < a
           /\ c + 1 = (a + 1) - b
           /\ c - 1 = a - (b + 1)
OBVIOUS

-----------------------------------------------------------------------------
(* The loop inside the server                                              *)

LEMMA LoopInside == [ServerNext]_<<vars, conns>> => [Next]_vars
BY DEF ServerNext, Serving, Reading, ReadingOther, Outside, Sending, Next, LoopStep, Environment

\* Who stays among the clients that pace themselves was one before, or is new.
LEMMA StaysPaced ==
    ASSUME ComeAndGo, NEW f
    PROVE  /\ f \in paced' => f \in Connected' /\ (f \in Connected => f \in paced)
           /\ f \in paced /\ f \in Connected' => f \in paced'
BY DEF ComeAndGo

\* What Kept leaves of a connection.
LEMMA KeptFor ==
    ASSUME Kept, NEW f \in Fd
    PROVE  /\ sent'[f] = IF Serves(f)' THEN sent[f] ELSE <<>>
           /\ served'[f] = IF Serves(f)' THEN served[f] ELSE <<>>
BY DEF Kept

LEMMA KeptType ==
    ASSUME ConnsType, Kept
    PROVE  ConnsType'
BY DEF Kept, ConnsType

\* A connection gets no step of its own while it lasts; at its end it is forgotten.
LEMMA KeptOrderly ==
    ASSUME Kept, NEW f \in Fd, Serves(f)' => Serves(f)
    PROVE  Conn(f)!Next \/ UNCHANGED Conn(f)!vars
<1>1. CASE Serves(f)'
  <2>1. Serves(f) /\ Serves(f)' = Serves(f) /\ sent'[f] = sent[f] /\ served'[f] = served[f]
    BY <1>1, KeptFor DEF Serves
  <2> QED BY <2>1 DEF Conn!vars
<1>2. CASE ~Serves(f)'
  <2>1. sent'[f] = <<>> /\ served'[f] = <<>> /\ Serves(f)' = FALSE
    BY <1>2, KeptFor DEF Serves
  <2>2. CASE Serves(f)
    BY <2>1, <2>2 DEF Conn!Next, Conn!Hangup
  <2>3. CASE ~Serves(f)
    BY <2>1, <2>3 DEF Conn!Next, Conn!Forget
  <2> QED BY <2>2, <2>3
<1> QED BY <1>1, <1>2

\* The steps of the loop, but for a read of a client that paces itself and for an
\* accepted client, serve nobody new, and leave unread what such a client that stays
\* has sent.
OtherRead ==
    /\ ScanRead \/ ScanProtocolError \/ ScanSpins
    /\ poll_fds[i].fd \notin paced
KeepingStep ==
    \/ Stop \/ Poll \/ PollError \/ NoNewClient \/ AcceptRefused \/ AcceptFails
    \/ ScanHangup \/ ScanReadFails \/ KeepSpinning \/ ScanSkip \/ ScanEnd
    \/ OtherRead

LEMMA KeepingServes ==
    ASSUME IInv, NothingLeftUnread, KeepingStep, ComeAndGo, NEW f \in Fd
    PROVE  /\ Serves(f)' => Serves(f) /\ unread'[f] = unread[f]
           /\ f \notin Connected' => unread'[f] = 0
<1> USE DEF slots, table, peers
<1>0. unread \in [Fd -> 0 .. MaxUnread]
  BY DEF IInv, TypeOK
<1>1. CASE Stop
  <2>1. Connected' = {} /\ Forget(Connected)
    BY <1>1 DEF Stop, ClearSlots, Connected
  <2> QED BY <2>1 DEF Serves, Forget, NothingLeftUnread
<1>2. CASE \/ Poll \/ PollError \/ NoNewClient \/ AcceptRefused \/ AcceptFails
           \/ KeepSpinning \/ ScanSkip \/ ScanEnd
  <2>1. UNCHANGED <<socket_fd, unread>> /\ Running
    BY <1>2 DEF Poll, PollError, NoNewClient, AcceptRefused, AcceptFails, AcceptGuard,
                KeepSpinning, vars, server, ScanSkip, Scanning, ScanEnd, Running
  <2>2. Connected' = Connected
    BY <2>1 DEF Connected
  <2> QED BY <2>1, <2>2, StaysPaced DEF Serves, NothingLeftUnread
<1>4. CASE OtherRead /\ (ScanRead \/ ScanSpins)
  <2>1. /\ Scanning /\ Running /\ Connected' = Connected
        /\ unread' = [unread EXCEPT ![poll_fds[i].fd] = @ - 1]
    BY <1>4 DEF ScanRead, ScanSpins, ReadGuard, Scanning, Running, Connected
  <2>2. poll_fds[i].fd \in Connected
    <3>1. i \in Used
      BY <2>1, MaxClientsAssumption DEF IInv, TypeOK, Scanning, Used
    <3> QED BY <2>1, <3>1 DEF IInv, SlotsMatchPoll, Polled
  <2>3. f # poll_fds[i].fd => unread'[f] = unread[f]
    BY <1>0, <2>1
  <2>4. Serves(f)' => Serves(f) /\ f # poll_fds[i].fd
    BY <1>4, <2>1, StaysPaced DEF Serves, OtherRead
  <2> QED BY <2>1, <2>2, <2>3, <2>4 DEF NothingLeftUnread
<1>5. CASE OtherRead /\ ScanProtocolError
  <2>1. /\ Scanning /\ remove_client(poll_fds[i].fd) /\ DropEntry
        /\ Forget({poll_fds[i].fd}) /\ Running
    BY <1>5 DEF ScanProtocolError, ReadGuard, Drop, Scanning, Running
  <2>2. Connected' = Connected \ {poll_fds[i].fd}
    BY <2>1, DropClient DEF IInv
  <2> QED BY <2>1, <2>2, StaysPaced DEF Serves, Forget, NothingLeftUnread
<1>3. CASE ScanHangup \/ ScanReadFails
  <2>1. /\ Scanning /\ remove_client(poll_fds[i].fd) /\ DropEntry
        /\ Forget({poll_fds[i].fd}) /\ Running
    BY <1>3 DEF ScanHangup, ScanReadFails, ReadGuard, Drop, Scanning, Running
  <2>2. Connected' = Connected \ {poll_fds[i].fd}
    BY <2>1, DropClient DEF IInv
  <2> QED BY <2>1, <2>2, StaysPaced DEF Serves, Forget, NothingLeftUnread
<1> QED BY <1>1, <1>2, <1>3, <1>4, <1>5 DEF KeepingStep, OtherRead

\* A read is of a client that is served and has a request without an outcome.
LEMMA ReadingNext ==
    ASSUME ServerInv, Reading, NEW f, f = poll_fds[i].fd
    PROVE  /\ f \in Fd /\ Serves(f) /\ HasData(f) /\ pc = "scan" /\ pc' = "scan"
           /\ Len(served[f]) < Len(sent[f])
           /\ NextOutcome(f) \in Outcomes
           /\ ComeAndGo
           /\ sent' = sent
           /\ served' = [served EXCEPT ![f] = Append(@, NextOutcome(f))]
<1>1. Scanning /\ HasData(f) /\ pc = "scan" /\ pc' = "scan" /\ Running
  BY DEF Reading, ScanRead, ScanProtocolError, ReadGuard, Scanning, Running
<1>2. f \in Connected
  <2>1. i \in Used
    BY <1>1, MaxClientsAssumption DEF ServerInv, IInv, TypeOK, Scanning, Used
  <2> QED BY <1>1, <2>1 DEF ServerInv, IInv, SlotsMatchPoll, Polled
<1>3. f \in Fd /\ Serves(f)
  BY <1>1, <1>2 DEF ServerInv, IInv, TypeOK, Connected, Serves, Reading
<1>4. Len(sent[f]) \in Nat /\ Len(served[f]) \in Nat /\ unread[f] \in Nat
  BY <1>3 DEF ServerInv, ConnsType, IInv, TypeOK
<1>5. Len(served[f]) < Len(sent[f])
  <2>1. unread[f] = Len(sent[f]) - Len(served[f])
    BY <1>3 DEF ServerInv, UnreadIsUnserved
  <2>2. unread[f] > 0
    BY <1>1 DEF HasData
  <2> QED BY <1>4, <2>1, <2>2, Behind
<1>6. sent[f][Len(served[f]) + 1] \in Requests
  BY <1>3, <1>4, <1>5 DEF ServerInv, ConnsType
<1>7. NextOutcome(f) \in Outcomes
  BY <1>6 DEF NextOutcome, Outcomes
<1> QED BY <1>1, <1>3, <1>5, <1>7 DEF Reading

\* A client is accepted on a descriptor that nobody is served on.
LEMMA AcceptOpens ==
    ASSUME ServerInv, AcceptClient
    PROVE  /\ pc = "accept" /\ pc' = "scan" /\ Running /\ unread' = unread
           /\ \E g \in Fd : g \notin Connected /\ Connected' = Connected \cup {g}
<1>1. PICK g \in Fd \ open : add_to_clients(g)
  BY DEF AcceptClient
<1>2. g \notin Connected
  BY <1>1 DEF ServerInv, IInv, ServedAreOpen
<1>3. PICK s \in Slots : socket_fd[s] = NoFd /\ socket_fd' = [socket_fd EXCEPT ![s] = g]
  BY <1>1 DEF add_to_clients, FirstWith
<1>4. Connected' = Connected \cup {g}
  BY <1>3, NoFdAssumption DEF Connected, ServerInv, IInv, TypeOK
<1> QED BY <1>1, <1>2, <1>4 DEF AcceptClient, AcceptGuard, StartScan, Running

-----------------------------------------------------------------------------
(* The inductive step                                                      *)

LEMMA InitServerInv == ServerInit => ServerInv
<1> SUFFICES ASSUME ServerInit PROVE ServerInv
  OBVIOUS
<1>1. IInv
  BY InitIInv DEF ServerInit
<1>2. ConnsType
  BY DEF ServerInit, ConnsType
<1>3. NothingLeftUnread /\ NothingKept /\ UnreadIsUnserved
  BY DEF ServerInit, Init, NothingLeftUnread, NothingKept, UnreadIsUnserved, Running, Serves
<1> QED BY <1>1, <1>2, <1>3 DEF ServerInv

LEMMA StepServerInv == ServerInv /\ [ServerNext]_<<vars, conns>> => ServerInv'
<1> SUFFICES ASSUME ServerInv, [ServerNext]_<<vars, conns>> PROVE ServerInv'
  OBVIOUS
<1>0. IInv'
  BY LoopInside, StepIInv DEF ServerInv
<1> USE DEF ServerInv
<1>1. CASE Reading
  <2>1. PICK f : f = poll_fds[i].fd
    OBVIOUS
  <2>2. /\ f \in Fd /\ Serves(f) /\ HasData(f) /\ pc = "scan" /\ pc' = "scan"
        /\ Len(served[f]) < Len(sent[f])
        /\ NextOutcome(f) \in Outcomes
        /\ ComeAndGo
        /\ sent' = sent
        /\ served' = [served EXCEPT ![f] = Append(@, NextOutcome(f))]
    BY <1>1, <2>1, ReadingNext
  <2>3. ConnsType'
    BY <2>2 DEF ConnsType
  <2>4. /\ served'[f] = Append(served[f], NextOutcome(f)) /\ Len(served'[f]) = Len(served[f]) + 1
        /\ \A g \in Fd \ {f} : served'[g] = served[g]
    BY <2>2 DEF ConnsType
  <2>5. unread \in [Fd -> 0 .. MaxUnread]
    BY DEF IInv, TypeOK
  <2>6. CASE ScanRead
    <3>1. Connected' = Connected /\ unread' = [unread EXCEPT ![f] = @ - 1]
      BY <2>1, <2>6 DEF ScanRead, slots, Connected
    <3>2. NothingLeftUnread'
      BY <2>2, <2>5, <3>1 DEF NothingLeftUnread, Serves
    <3>3. UnreadIsUnserved'
      <4> SUFFICES ASSUME NEW g \in Fd, Serves(g)'
                   PROVE  unread'[g] = Len(sent'[g]) - Len(served'[g])
        BY DEF UnreadIsUnserved
      <4>1. unread[g] = Len(sent[g]) - Len(served[g])
        BY <2>2, <3>1, StaysPaced DEF UnreadIsUnserved, Serves
      <4>2. g \in Fd
        OBVIOUS
      <4>3. Len(sent[g]) \in Nat /\ Len(served[g]) \in Nat
        BY <4>2 DEF ConnsType
      <4>4. unread[g] \in Nat
        BY <2>5, <4>2
      <4>5. CASE g = f
        <5>1. unread'[f] = unread[f] - 1 /\ sent'[f] = sent[f]
          BY <2>2, <2>5, <3>1
        <5>2. unread[g] - 1 = Len(sent[g]) - (Len(served[g]) + 1)
          BY <4>1, <4>3, <4>4, Behind
        <5> QED BY <2>4, <4>5, <5>1, <5>2, Zenon
      <4>6. CASE g # f
        <5>1. unread'[g] = unread[g] /\ sent'[g] = sent[g] /\ served'[g] = served[g]
          BY <2>2, <2>4, <2>5, <3>1, <4>2, <4>6
        <5> QED BY <4>1, <5>1
      <4> QED BY <4>5, <4>6
    <3> QED BY <1>0, <2>2, <2>3, <3>2, <3>3 DEF NothingKept
  <2>7. CASE ScanProtocolError
    <3>1. Connected' = Connected \ {f}
      BY <2>1, <2>7, DropClient DEF ScanProtocolError, ReadGuard, Drop, IInv
    <3>2. Forget({f})
      BY <2>1, <2>7 DEF ScanProtocolError, Drop
    <3>3. NothingLeftUnread'
      BY <3>1, <3>2 DEF NothingLeftUnread, Forget
    <3>4. UnreadIsUnserved'
      <4> SUFFICES ASSUME NEW g \in Fd, Serves(g)'
                   PROVE  unread'[g] = Len(sent'[g]) - Len(served'[g])
        BY DEF UnreadIsUnserved
      <4>1. g # f /\ Serves(g)
        BY <2>2, <3>1, StaysPaced DEF Serves
      <4>2. unread'[g] = unread[g] /\ served'[g] = served[g] /\ sent'[g] = sent[g]
        BY <2>2, <2>4, <3>2, <4>1 DEF Forget
      <4> QED BY <4>1, <4>2 DEF UnreadIsUnserved
    <3> QED BY <1>0, <2>2, <2>3, <3>3, <3>4 DEF NothingKept
  <2> QED BY <1>1, <2>6, <2>7 DEF Reading
<1>2. CASE Kept /\ (KeepingStep \/ AcceptClient)
  <2>1. ConnsType' /\ NothingKept'
    BY <1>2, KeptType, KeptFor DEF NothingKept
  <2>0. ComeAndGo
    BY <1>2 DEF Kept
  <2>2. CASE KeepingStep
    <3>1. NothingLeftUnread'
      BY <2>0, <2>2, KeepingServes DEF NothingLeftUnread
    <3>2. UnreadIsUnserved'
      <4> SUFFICES ASSUME NEW f \in Fd, Serves(f)'
                   PROVE  unread'[f] = Len(sent'[f]) - Len(served'[f])
        BY DEF UnreadIsUnserved
      <4>2. Serves(f) /\ unread'[f] = unread[f]
        BY <2>0, <2>2, KeepingServes
      <4> QED BY <1>2, <4>2, KeptFor DEF UnreadIsUnserved
    <3> QED BY <1>0, <2>1, <3>1, <3>2
  <2>3. CASE AcceptClient
    <3>1. PICK g \in Fd : g \notin Connected /\ Connected' = Connected \cup {g}
      BY <2>3, AcceptOpens
    <3>2. pc = "accept" /\ Running /\ unread' = unread
      BY <2>3, AcceptOpens
    <3>3. NothingLeftUnread'
      BY <3>1, <3>2 DEF NothingLeftUnread
    <3>4. UnreadIsUnserved'
      <4> SUFFICES ASSUME NEW f \in Fd, Serves(f)'
                   PROVE  unread'[f] = Len(sent'[f]) - Len(served'[f])
        BY DEF UnreadIsUnserved
      <4>2. sent'[f] = sent[f] /\ served'[f] = served[f]
        BY <1>2, KeptFor
      <4>3. CASE f = g
        <5>1. unread[f] = 0 /\ sent[f] = <<>> /\ served[f] = <<>>
          BY <3>1, <3>2, <4>3 DEF NothingLeftUnread, NothingKept, Serves
        <5> QED BY <3>2, <4>2, <5>1
      <4>4. CASE f # g
        <5>1. Serves(f)
          BY <2>0, <3>1, <3>2, <4>4, StaysPaced DEF Serves
        <5> QED BY <3>2, <4>2, <5>1 DEF UnreadIsUnserved
      <4> QED BY <4>3, <4>4
    <3> QED BY <1>0, <2>1, <3>3, <3>4
  <2> QED BY <1>2, <2>2, <2>3
<1>3. ASSUME NEW f \in Fd, Sending(f) PROVE ServerInv'
  <2>1. /\ f \in Connected /\ unread' = [unread EXCEPT ![f] = @ + 1]
        /\ UNCHANGED <<socket_fd, pc>> /\ served' = served /\ paced' = paced
    BY <1>3 DEF Sending, PeerSends, server, slots
  <2>2. Connected' = Connected /\ Running' = Running /\ \A g \in Fd : Serves(g)' = Serves(g)
    BY <2>1 DEF Connected, Running, Serves
  <2>3. unread \in [Fd -> 0 .. MaxUnread]
    BY DEF IInv, TypeOK
  <2>4. NothingLeftUnread'
    BY <2>1, <2>2, <2>3 DEF NothingLeftUnread
  <2>5. CASE ~Serves(f) /\ sent' = sent
    <3>1. \A g \in Fd \ {f} : unread'[g] = unread[g]
      BY <2>1, <2>3
    <3> QED BY <1>0, <2>1, <2>2, <2>4, <2>5, <3>1
            DEF ConnsType, NothingKept, UnreadIsUnserved
  <2>6. CASE Serves(f) /\ \E r \in Requests : sent' = [sent EXCEPT ![f] = Append(@, r)]
    <3>1. PICK r \in Requests : sent' = [sent EXCEPT ![f] = Append(@, r)]
      BY <2>6
    <3>2. /\ ConnsType'
          /\ Len(sent'[f]) = Len(sent[f]) + 1
          /\ \A g \in Fd \ {f} : sent'[g] = sent[g]
      BY <2>1, <3>1 DEF ConnsType
    <3>3. NothingKept'
      BY <2>1, <2>2, <2>6, <3>2 DEF NothingKept
    <3>4. UnreadIsUnserved'
      <4> SUFFICES ASSUME NEW g \in Fd, Serves(g)
                   PROVE  unread'[g] = Len(sent'[g]) - Len(served'[g])
        BY <2>2 DEF UnreadIsUnserved
      <4>1. unread[g] = Len(sent[g]) - Len(served[g])
        BY DEF UnreadIsUnserved
      <4>2. g \in Fd
        OBVIOUS
      <4>3. Len(sent[g]) \in Nat /\ Len(served[g]) \in Nat
        BY <4>2 DEF ConnsType
      <4>4. unread[g] \in Nat
        BY <2>3, <4>2
      <4>5. CASE g = f
        <5>1. unread'[f] = unread[f] + 1 /\ served'[f] = served[f]
          BY <2>1, <2>3
        <5>2. unread[g] + 1 = (Len(sent[g]) + 1) - Len(served[g])
          BY <4>1, <4>3, <4>4, Behind
        <5> QED BY <3>2, <4>5, <5>1, <5>2, Zenon
      <4>6. CASE g # f
        <5>1. unread'[g] = unread[g] /\ sent'[g] = sent[g] /\ served'[g] = served[g]
          BY <2>1, <2>3, <3>2, <4>2, <4>6
        <5> QED BY <4>1, <5>1
      <4> QED BY <4>5, <4>6
    <3> QED BY <1>0, <2>4, <3>2, <3>3, <3>4
  <2> QED BY <1>3, <2>5, <2>6 DEF Sending
<1>4. CASE (Start \/ StartFails) /\ ComeAndGo /\ UNCHANGED <<sent, served>>
  <2>1. Connected' = {} /\ Forget(Connected) /\ ~Running /\ pc # "scan" /\ UNCHANGED <<sent, served>>
    BY <1>4 DEF Start, StartFails, ClearSlots, Connected, Running
  <2>2. \A f \in Fd : ~Serves(f) /\ sent[f] = <<>> /\ served[f] = <<>>
    BY <2>1 DEF NothingKept, Serves
  <2> QED BY <1>0, <2>1, <2>2
          DEF ConnsType, NothingKept, NothingLeftUnread, Forget, UnreadIsUnserved, Serves
<1>5. CASE /\ UNCHANGED conns
           /\ \/ RequestStop \/ Connect \/ UNCHANGED vars
              \/ \E f \in Fd : PeerCloses(f) \/ PeerResets(f)
  <2>1. UNCHANGED <<socket_fd, pc, unread, paced, sent, served>>
    BY <1>5 DEF RequestStop, Connect, PeerCloses, PeerResets, conns, vars, server, slots, peers
  <2>2. Connected' = Connected /\ Running' = Running /\ \A f \in Fd : Serves(f)' <=> Serves(f)
    BY <2>1 DEF Connected, Running, Serves
  <2> QED BY <1>0, <2>1, <2>2 DEF ConnsType, NothingKept, NothingLeftUnread, UnreadIsUnserved
<1> QED BY <1>1, <1>2, <1>3, <1>4, <1>5
        DEF ServerNext, Serving, ReadingOther, OtherRead, Outside, KeepingStep, conns

LEMMA ServerInvHolds == ServerSpec => []ServerInv
BY InitServerInv, StepServerInv, PTL DEF ServerSpec

\* What is unread of a client is what has no outcome yet: no read goes to another
\* client and nothing is inherited with a descriptor.
THEOREM NoReadMisplaced == ServerSpec => []UnreadIsUnserved
BY ServerInvHolds, PTL DEF ServerInv

-----------------------------------------------------------------------------
(* Every connection is one of NwaConnection                                *)

\* NwaConnection has the requests of the server, hence their outcomes.
LEMMA SameDisposition ==
    ASSUME NEW f, NEW r
    PROVE  Conn(f)!Disposition(r) = Disposition(r)
BY DEF Conn!Disposition, Disposition, Conn!Outcome, Outcome, Conn!Mismatch, Mismatch,
       Conn!ExpectedSize, ExpectedSize, Conn!Refused, Refused, Conn!PayloadOf, PayloadOf

LEMMA StepOrderly ==
    ASSUME ServerInv, [ServerNext]_<<vars, conns>>, NEW f \in Fd
    PROVE  Conn(f)!Next \/ UNCHANGED Conn(f)!vars
<1> USE DEF ServerInv
<1>1. CASE Reading
  <2>1. PICK g : g = poll_fds[i].fd
    OBVIOUS
  <2>2. /\ g \in Fd /\ Serves(g) /\ pc = "scan" /\ pc' = "scan"
        /\ Len(served[g]) < Len(sent[g])
        /\ ComeAndGo
        /\ sent' = sent
        /\ served' = [served EXCEPT ![g] = Append(@, NextOutcome(g))]
    BY <1>1, <2>1, ReadingNext
  <2>3. \/ Connected' = Connected /\ NextOutcome(g).what # "protocol_error"
        \/ Connected' = Connected \ {g} /\ NextOutcome(g).what = "protocol_error"
    <3>1. CASE ScanRead /\ NextOutcome(g).what # "protocol_error"
      BY <3>1 DEF ScanRead, slots, Connected
    <3>2. CASE ScanProtocolError /\ NextOutcome(g).what = "protocol_error"
      BY <2>1, <3>2, DropClient DEF ScanProtocolError, ReadGuard, Drop, IInv
    <3> QED BY <1>1, <2>1, <3>1, <3>2 DEF Reading
  <2>4. CASE f = g
    <3>1. served'[f] = Append(served[f], NextOutcome(f)) /\ sent'[f] = sent[f]
      BY <2>2, <2>4 DEF ConnsType
    <3>2. Serves(f)' = (NextOutcome(f).what # "protocol_error")
      BY <2>2, <2>3, <2>4, StaysPaced DEF Serves, Running
    <3>3. Serves(f) /\ Len(served[f]) < Len(sent[f])
      BY <2>2, <2>4
    <3>4. Conn(f)!Serve
      BY <3>1, <3>2, <3>3, SameDisposition DEF Conn!Serve, NextOutcome
    <3> QED BY <3>4 DEF Conn!Next
  <2>5. CASE f # g
    <3>1. served'[f] = served[f] /\ sent'[f] = sent[f]
      BY <2>2, <2>5 DEF ConnsType
    <3>2. Serves(f)' = Serves(f)
      BY <2>2, <2>3, <2>5, StaysPaced DEF Serves, Running
    <3> QED BY <3>1, <3>2 DEF Conn!vars
  <2> QED BY <2>4, <2>5
<1>2. CASE Kept /\ KeepingStep
  BY <1>2, KeepingServes, KeptOrderly DEF Kept
<1>3. CASE Kept /\ AcceptClient
  <2>1. PICK g \in Fd : g \notin Connected /\ Connected' = Connected \cup {g}
    BY <1>3, AcceptOpens
  <2>2. pc = "accept" /\ pc' = "scan" /\ Running
    BY <1>3, AcceptOpens
  <2>3. CASE f = g
    <3>1. sent'[f] = <<>> /\ served'[f] = <<>>
      BY <1>3, <2>1, <2>2, <2>3, KeptFor DEF NothingKept, Serves
    <3>2. ~Serves(f)
      BY <2>1, <2>3 DEF Serves
    <3>3. CASE Serves(f)'
      <4>1. Serves(f)' = TRUE
        BY <3>3 DEF Serves
      <4> QED BY <3>1, <3>2, <4>1 DEF Conn!Next, Conn!Open
    <3>4. CASE ~Serves(f)'
      BY <1>3, <3>4, KeptOrderly
    <3> QED BY <3>3, <3>4
  <2>4. CASE f # g
    <3>1. Serves(f)' => Serves(f)
      BY <1>3, <2>1, <2>2, <2>4, StaysPaced DEF Serves, Kept
    <3> QED BY <1>3, <3>1, KeptOrderly
  <2> QED BY <2>3, <2>4
<1>4. ASSUME NEW g \in Fd, Sending(g) PROVE Conn(f)!Next \/ UNCHANGED Conn(f)!vars
  <2>1. g \in Connected /\ UNCHANGED <<socket_fd, pc>> /\ served' = served /\ paced' = paced
    BY <1>4 DEF Sending, PeerSends, server, slots
  <2>2. Serves(f)' = Serves(f)
    BY <2>1 DEF Serves, Connected, Running
  <2>3. CASE sent' = sent
    BY <2>1, <2>2, <2>3 DEF Conn!vars
  <2>4. CASE /\ Serves(g) /\ Len(sent[g]) < MaxRequests
             /\ \E r \in Requests : sent' = [sent EXCEPT ![g] = Append(@, r)]
    <3>1. PICK r \in Requests : sent' = [sent EXCEPT ![g] = Append(@, r)]
      BY <2>4
    <3>2. CASE f = g
      <4>1. sent'[f] = Append(sent[f], r) /\ served'[f] = served[f] /\ Serves(f)
        BY <2>1, <2>4, <3>1, <3>2 DEF ConnsType, Serves
      <4>2. Conn(f)!Send(r)
        BY <2>2, <2>4, <3>2, <4>1 DEF Conn!Send
      <4> QED BY <4>2 DEF Conn!Next
    <3>3. CASE f # g
      <4>1. sent'[f] = sent[f] /\ served'[f] = served[f]
        BY <2>1, <3>1, <3>3 DEF ConnsType
      <4> QED BY <2>2, <4>1 DEF Conn!vars
    <3> QED BY <3>2, <3>3
  <2> QED BY <1>4, <2>3, <2>4 DEF Sending
<1>5. CASE \/ (Start \/ StartFails) /\ UNCHANGED <<sent, served>>
           \/ /\ UNCHANGED conns
              /\ \/ RequestStop \/ Connect \/ UNCHANGED vars
                 \/ \E g \in Fd : PeerCloses(g) \/ PeerResets(g)
  <2>1. Serves(f)' = Serves(f)
    <3>1. CASE Start \/ StartFails
      <4>1. Connected' = {} /\ ~Running
        BY <3>1 DEF Start, StartFails, ClearSlots, Connected, Running
      <4> QED BY <4>1 DEF Serves
    <3>2. CASE /\ UNCHANGED conns
               /\ \/ RequestStop \/ Connect \/ UNCHANGED vars
                  \/ \E g \in Fd : PeerCloses(g) \/ PeerResets(g)
      <4>1. UNCHANGED <<socket_fd, pc, paced>>
        BY <3>2 DEF RequestStop, Connect, PeerCloses, PeerResets, vars, server, slots, conns
      <4> QED BY <4>1 DEF Serves, Connected, Running
    <3> QED BY <1>5, <3>1, <3>2
  <2> QED BY <1>5, <2>1 DEF Conn!vars, conns
<1> QED BY <1>1, <1>2, <1>3, <1>4, <1>5
        DEF ServerNext, Serving, ReadingOther, OtherRead, Outside, KeepingStep, conns

\* For every client that paces itself, whatever the others send and do: its requests
\* are served once, in order and with the outcome they deserve, on a connection that
\* starts empty.  That such a client gets that outcome however its stream is cut is
\* SessionImplementsConnection.
THEOREM ServerImplementsConnections == ServerSpec => EveryConnectionOrderly
<1>1. ServerInit => \A f \in Fd : Conn(f)!Init
  <2> SUFFICES ASSUME ServerInit, NEW f \in Fd PROVE Conn(f)!Init
    OBVIOUS
  <2> QED BY DEF Conn!Init, ServerInit, Init, Serves, Running
<1>2. ServerInv /\ [ServerNext]_<<vars, conns>>
        => [\A f \in Fd : Conn(f)!Next \/ UNCHANGED Conn(f)!vars]_<<vars, conns>>
  BY StepOrderly
<1> QED BY ServerInvHolds, <1>1, <1>2, PTL DEF ServerSpec, EveryConnectionOrderly

=============================================================================
