------------------------------ MODULE NwaServer ------------------------------
(***************************************************************************)
(* The server as its clients see it: the event loop of PollServer together *)
(* with the sessions it serves.  Some clients pace themselves, the others  *)
(* send anything at all and are served anyhow.  A client that paces itself *)
(* is followed request by request, one read for each: that any other cut   *)
(* of its stream comes to the same outcomes, and that preprocess_data      *)
(* returns from all its reads, is what ClientSession shows.                *)
(*                                                                         *)
(* The question here is the one neither part answers alone: whether every  *)
(* client that paces itself, with slots, entries and descriptors being     *)
(* reused and with any neighbours on the one thread, has a connection as   *)
(* NwaConnection promises.                                                 *)
(***************************************************************************)
EXTENDS PollServer, NwaRequests

\* Requests is what the clients that pace themselves send.  An empty block is served
\* only with the read of what follows it: those requests are left to ClientSession.
ASSUME PacedAssumption == \A r \in Requests : Paceable(r) /\ r.block # 0

VARIABLES paced,           \* the clients connected that pace themselves
          sent, served     \* of their connections

conns == <<paced, sent, served>>

\* The connection of such a client lasts as long as the loop runs and serves it.
Serves(f) == Running /\ f \in Connected /\ f \in paced

Conn(f) == INSTANCE NwaConnection WITH up <- Serves(f),
                                       sent <- sent[f], served <- served[f]

ServerInit ==
    /\ Init
    /\ paced = {}
    /\ sent = [f \in Fd |-> <<>>]
    /\ served = [f \in Fd |-> <<>>]

\* Who leaves is forgotten; who comes paces itself or does not.
ComeAndGo ==
    paced' \in {paced \cap Connected', (paced \cap Connected') \cup (Connected' \ Connected)}

\* Requests and outcomes of the connections there are now.
Kept ==
    /\ ComeAndGo
    /\ sent' = [f \in Fd |-> IF Serves(f)' THEN sent[f] ELSE <<>>]
    /\ served' = [f \in Fd |-> IF Serves(f)' THEN served[f] ELSE <<>>]

Mut_NextOutcome(f) == Disposition(sent[f][1])    \* mutant: always the first request

\* What preprocess_data comes to with the next request of a client that paces itself:
\* the outcome decides between two of those a read has in PollServer.
NextOutcome(f) == Disposition(sent[f][Len(served[f]) + 1])

Reading ==
    LET f == poll_fds[i].fd
        o == NextOutcome(f)
    IN  /\ \/ ScanRead /\ f \in paced /\ o.what # "protocol_error"
           \/ ScanProtocolError /\ f \in paced /\ o.what = "protocol_error"
        /\ ComeAndGo
        /\ served' = [served EXCEPT ![f] = Append(@, o)]
        /\ UNCHANGED sent

\* A read of any other client may end in each way, the endless one included.
ReadingOther ==
    /\ ScanRead \/ ScanProtocolError \/ ScanSpins
    /\ poll_fds[i].fd \notin paced
    /\ Kept

Serving ==
    \/ Reading
    \/ ReadingOther
    \/ /\ \/ Stop \/ Poll \/ PollError
          \/ NoNewClient \/ AcceptClient \/ AcceptRefused \/ AcceptFails
          \/ ScanHangup \/ ScanReadFails \/ KeepSpinning \/ ScanSkip \/ ScanEnd
       /\ Kept

\* A client that paces itself sends a request when it may; what the others send, and
\* what a peer sends after the loop has ended, belongs to no connection.
Sending(f) ==
    /\ PeerSends(f)
    /\ \/ /\ Serves(f)
          /\ Len(sent[f]) < MaxRequests
          /\ InPace(sent[f], served[f])
          /\ \E r \in Requests : sent' = [sent EXCEPT ![f] = Append(@, r)]
       \/ ~Serves(f) /\ UNCHANGED sent
    /\ UNCHANGED <<paced, served>>

Outside ==
    \/ \E f \in Fd : Sending(f)
    \/ /\ \/ RequestStop \/ Connect
          \/ \E f \in Fd : PeerCloses(f) \/ PeerResets(f)
       /\ UNCHANGED conns
    \/ (Start \/ StartFails) /\ ComeAndGo /\ UNCHANGED <<sent, served>>

ServerNext == Serving \/ Outside

\* The fairness of the loop, as in PollServer.
ServerSpec == ServerInit /\ [][ServerNext]_<<vars, conns>> /\ WF_<<vars, conns>>(Serving)

-----------------------------------------------------------------------------
(* Properties                                                              *)

\* Every connection of a client that paces itself is one of NwaConnection: requests
\* are served once, in order, with the outcome they deserve, and neither what a
\* connection before it had on the same descriptor nor what other clients send shows.
EveryConnectionOrderly ==
    /\ \A f \in Fd : Conn(f)!Init
    /\ [][\A f \in Fd : Conn(f)!Next \/ UNCHANGED Conn(f)!vars]_<<vars, conns>>

\* ... and no request waits for ever behind what the other clients do, though only
\* the loop is assumed to run, unless one of them sends what preprocess_data never
\* gets past.
EveryRequestServed ==
    \A f \in Fd : \A n \in 1 .. MaxRequests :
       (Serves(f) /\ Len(sent[f]) >= n)
          ~> (Len(served[f]) >= n \/ ~Serves(f) \/ pc = "spinning")

\* What is unread of a client that paces itself is what has no outcome yet: no read
\* goes to another client, and none is lost with a moved entry.
UnreadIsUnserved ==
    \A f \in Fd : Serves(f) => unread[f] = Len(sent[f]) - Len(served[f])

=============================================================================
