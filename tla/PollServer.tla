----------------------------- MODULE PollServer -----------------------------
(***************************************************************************)
(* The event loop of src/generic poll server/generic_poll_server.c: one    *)
(* thread that polls the listening socket and the sockets of at most       *)
(* MaxClients clients, accepts, reads and drops clients.                   *)
(*                                                                         *)
(* Two tables hold the clients: the static array clients[5], whose field   *)
(* socket_fd is 0 in a free slot, and the local array poll_fds[6] with its *)
(* fill count, entry 0 being the listening socket.  A removal from         *)
(* poll_fds moves the last entry into the hole while the array is being    *)
(* scanned, so the results of the last poll move with it.                  *)
(*                                                                         *)
(* What the bytes of a client do to its session is module ClientSession;   *)
(* here a read of a client that sent data is accepted, or is a protocol    *)
(* error, or is one that preprocess_data never comes back from.            *)
(***************************************************************************)
EXTENDS Naturals

CONSTANTS
    MaxClients,   \* length of clients[]; 5 in the code, and poll_fds has one more
    Fd,           \* the descriptors the process may still allocate
    NoFd,         \* the value 0 of socket_fd, the mark of a free slot
    MaxBacklog,   \* bound: connections waiting in the accept queue
    MaxUnread     \* bound: reads needed to drain what a client sent

\* NoFd is 0 in the code.  accept() never returns it as long as standard input
\* is open; without it socket() in generic_poll_server_start takes 0 first.
ASSUME MaxClientsAssumption == MaxClients \in Nat \ {0}
ASSUME NoFdAssumption == NoFd \notin Fd
ASSUME BoundsAssumption == MaxBacklog \in Nat \ {0} /\ MaxUnread \in Nat \ {0}

VARIABLES
    socket_fd,       \* clients[s].socket_fd
    poll_fds,        \* poll_fds[k] for k >= 1: the descriptor and its revents
    poll_fds_count,  \* entries of poll_fds in use, the listening socket included
    listen_revents,  \* poll_fds[0].revents
    pc,              \* where generic_poll_server_start is
    i,               \* index of its scan of poll_fds
    stop,            \* generic_poll_server_stop
    open,            \* descriptors of accepted sockets the process has not closed
    unread,          \* reads still needed to drain the receive buffer of a socket
    peer,            \* what the other end of a socket has done
    backlog,         \* connections waiting for accept()
    told,            \* clients announced by NEW_CLIENT, not yet by REMOVED_CLIENT
    due              \* history: clients the last poll reported, not handled yet

slots  == <<socket_fd, told>>
table  == <<poll_fds, poll_fds_count>>
peers  == <<unread, peer, backlog>>
server == <<slots, table, listen_revents, pc, i, due>>
vars   == <<server, stop, open, peers>>

Slots   == 0 .. MaxClients - 1
Entries == 1 .. MaxClients
Flags   == {"POLLIN", "POLLHUP"}      \* POLLHUP stands for POLLERR as well
Entry   == [fd : Fd \cup {NoFd}, revents : SUBSET Flags]

Running   == pc \in {"top", "accept", "scan", "spinning"}
Used      == 1 .. poll_fds_count - 1
Connected == {socket_fd[s] : s \in Slots} \ {NoFd}
Polled    == {poll_fds[k].fd : k \in Used}

TypeOK ==
    /\ socket_fd \in [Slots -> Fd \cup {NoFd}]
    /\ poll_fds \in [Entries -> Entry]
    /\ poll_fds_count \in 1 .. MaxClients + 1
    /\ listen_revents \in SUBSET Flags
    /\ pc \in {"idle", "top", "accept", "scan", "spinning", "returned"}
    /\ i \in 1 .. MaxClients + 1
    /\ stop \in BOOLEAN
    /\ open \subseteq Fd
    /\ unread \in [Fd -> 0 .. MaxUnread]
    /\ peer \in [Fd -> {"up", "eof", "reset"}]
    /\ backlog \in 0 .. MaxBacklog
    /\ told \subseteq Fd
    /\ due \subseteq Fd

Init ==
    /\ socket_fd = [s \in Slots |-> NoFd]
    /\ poll_fds = [k \in Entries |-> [fd |-> NoFd, revents |-> {}]]
    /\ poll_fds_count = 1
    /\ listen_revents = {}
    /\ pc = "idle"
    /\ i = 1
    /\ stop = FALSE
    /\ open = {}
    /\ unread = [f \in Fd |-> 0]
    /\ peer = [f \in Fd |-> "up"]
    /\ backlog = 0
    /\ told = {}
    /\ due = {}

-----------------------------------------------------------------------------
(* The slot table: both functions take the first slot that matches.        *)

FirstWith(x, s) == socket_fd[s] = x /\ \A t \in 0 .. s - 1 : socket_fd[t] # x

Mut_add_to_clients(f) ==      \* mutant: reports success when the table is full
    \/ \E s \in Slots : FirstWith(NoFd, s) /\ socket_fd' = [socket_fd EXCEPT ![s] = f]
    \/ (\A s \in Slots : socket_fd[s] # NoFd) /\ UNCHANGED socket_fd

add_to_clients(f) ==
    \E s \in Slots : /\ FirstWith(NoFd, s)
                     /\ socket_fd' = [socket_fd EXCEPT ![s] = f]

Mut_remove_client(f) ==       \* mutant: forgets the callback
    /\ socket_fd' = [s \in Slots |-> IF FirstWith(f, s) THEN NoFd ELSE socket_fd[s]]
    /\ told' = told

\* Drops a client from the slot table and runs the REMOVED_CLIENT callback.
\* The descriptor stays open.
remove_client(f) ==
    /\ socket_fd' = [s \in Slots |-> IF FirstWith(f, s) THEN NoFd ELSE socket_fd[s]]
    /\ told' = told \ {f}

Mut_DropEntry_nomove ==       \* mutant: the last entry is lost, not moved
    poll_fds' = poll_fds /\ poll_fds_count' = poll_fds_count - 1 /\ i' = i

Mut_DropEntry_skip ==         \* mutant: the scan goes on behind the moved entry
    /\ poll_fds' = [poll_fds EXCEPT ![i] = poll_fds[poll_fds_count - 1]]
    /\ poll_fds_count' = poll_fds_count - 1
    /\ i' = i + 1

\* The last entry of poll_fds takes the place of entry i, which is scanned next.
DropEntry ==
    /\ poll_fds' = [poll_fds EXCEPT ![i] = poll_fds[poll_fds_count - 1]]
    /\ poll_fds_count' = poll_fds_count - 1
    /\ i' = i

\* Nobody looks at a socket that is no longer served: what its peer did and does
\* with it is left out.
Forget(S) ==
    /\ unread' = [f \in Fd |-> IF f \in S THEN 0 ELSE unread[f]]
    /\ peer' = [f \in Fd |-> IF f \in S THEN "up" ELSE peer[f]]

Mut_ClearSlots == UNCHANGED <<socket_fd, unread, peer>>    \* mutant: no reset

ClearSlots ==
    /\ socket_fd' = [s \in Slots |-> NoFd]
    /\ Forget(Connected)

-----------------------------------------------------------------------------
(* generic_poll_server_start                                               *)

\* The set-up succeeds (module ServerStart says when).  Whatever an earlier call
\* left in the slot table is forgotten, and `told` counts the callbacks of this
\* call only.
Start ==
    /\ pc \in {"idle", "returned"}
    /\ ClearSlots
    /\ poll_fds' = [k \in Entries |-> [fd |-> NoFd, revents |-> {}]]
    /\ poll_fds_count' = 1
    /\ listen_revents' = {}
    /\ pc' = "top"
    /\ i' = 1
    /\ told' = {}
    /\ due' = {}
    /\ backlog' = 0
    /\ UNCHANGED <<stop, open>>

\* No socket, no free port or no listen(): the call returns false.
StartFails ==
    /\ pc \in {"idle", "returned"}
    /\ ClearSlots
    /\ pc' = "returned"
    /\ UNCHANGED <<table, listen_revents, i, told, due, stop, open, backlog>>

Mut_StopSeen == stop /\ Connected = {}    \* mutant: waits until the clients are gone

StopSeen == stop

\* The stop branch closes every client and the listening socket, with which
\* the connections in its queue go.  It calls no REMOVED_CLIENT callback.
Stop ==
    /\ pc = "top"
    /\ StopSeen
    /\ open' = open \ Connected
    /\ ClearSlots
    /\ backlog' = 0
    /\ stop' = FALSE
    /\ pc' = "returned"
    /\ UNCHANGED <<table, listen_revents, i, told, due>>

\* What poll() reports of a socket.  A reset shows as POLLIN | POLLERR | POLLHUP,
\* an orderly close by the peer as POLLIN only.
Revents(f) ==
    IF peer[f] = "reset" THEN {"POLLIN", "POLLHUP"}
    ELSE IF peer[f] = "eof" \/ unread[f] > 0 THEN {"POLLIN"} ELSE {}

ListenRevents == IF backlog > 0 THEN {"POLLIN"} ELSE {}

\* poll() returns, with or without an event (it has a timeout).
Poll ==
    /\ pc = "top"
    /\ ~StopSeen
    /\ listen_revents' = ListenRevents
    /\ poll_fds' = [k \in Entries |->
                      IF k \in Used
                      THEN [poll_fds[k] EXCEPT !.revents = Revents(poll_fds[k].fd)]
                      ELSE poll_fds[k]]
    /\ due' = {f \in Polled : Revents(f) # {}}
    /\ pc' = "accept"
    /\ UNCHANGED <<slots, poll_fds_count, i, stop, open, peers>>

\* poll() fails: the loop ends, on EINTR with true and otherwise with false;
\* either way nothing is closed and the stop flag keeps its value.
PollError ==
    /\ pc = "top"
    /\ ~StopSeen
    /\ pc' = "returned"
    /\ UNCHANGED <<slots, table, listen_revents, i, due, stop, open, peers>>

Mut_StartScan == pc' = "scan" /\ i' = 0    \* mutant: starts at the listening socket

StartScan == pc' = "scan" /\ i' = 1

NoNewClient ==
    /\ pc = "accept"
    /\ "POLLIN" \notin listen_revents
    /\ StartScan
    /\ UNCHANGED <<slots, table, listen_revents, due, stop, open, peers>>

AcceptGuard == pc = "accept" /\ "POLLIN" \in listen_revents

Mut_NewEntry(f) == [fd |-> f, revents |-> poll_fds[poll_fds_count].revents]  \* mutant

\* The entry of a new client starts with no event: poll() has not seen it yet.
NewEntry(f) == [fd |-> f, revents |-> {}]

Mut_AddEntry(f) ==            \* mutant: the entry is not counted
    poll_fds' = [poll_fds EXCEPT ![poll_fds_count] = NewEntry(f)] /\ UNCHANGED poll_fds_count

AddEntry(f) ==
    /\ poll_fds' = [poll_fds EXCEPT ![poll_fds_count] = NewEntry(f)]
    /\ poll_fds_count' = poll_fds_count + 1

Full == \A s \in Slots : socket_fd[s] # NoFd

Mut_TakeConnection == backlog' = IF Full THEN backlog ELSE backlog - 1    \* mutant

TakeConnection == backlog' = backlog - 1

\* accept() gives a descriptor the process does not hold, and a slot is free.
AcceptClient ==
    /\ AcceptGuard
    /\ \E f \in Fd \ open :
         /\ add_to_clients(f)
         /\ AddEntry(f)
         /\ told' = told \cup {f}
         /\ open' = open \cup {f}
    /\ TakeConnection
    /\ StartScan
    /\ UNCHANGED <<listen_revents, due, stop, unread, peer>>

\* The table is full: the new socket is closed at once.
AcceptRefused ==
    /\ AcceptGuard
    /\ Fd \ open # {}
    /\ Full
    /\ TakeConnection
    /\ StartScan
    /\ UNCHANGED <<slots, table, listen_revents, due, stop, open, unread, peer>>

\* accept() fails, for want of a descriptor or because the connection was aborted
\* meanwhile; the call returns false.
AcceptFails ==
    /\ AcceptGuard
    /\ pc' = "returned"
    /\ UNCHANGED <<slots, table, listen_revents, i, due, stop, open, peers>>

Scanning == pc = "scan" /\ i < poll_fds_count

\* The client of entry i leaves both tables, unread data and all.
Drop ==
    /\ remove_client(poll_fds[i].fd)
    /\ DropEntry
    /\ due' = due \ {poll_fds[i].fd}
    /\ Forget({poll_fds[i].fd})

\* POLLERR or POLLHUP: no close().
ScanHangup ==
    /\ Scanning
    /\ "POLLHUP" \in poll_fds[i].revents
    /\ Drop
    /\ UNCHANGED <<listen_revents, pc, stop, open, backlog>>

ReadGuard ==
    /\ Scanning
    /\ "POLLIN" \in poll_fds[i].revents
    /\ "POLLHUP" \notin poll_fds[i].revents

\* read() returns data when some is left and the connection was not reset.
HasData(f) == unread[f] > 0 /\ peer[f] # "reset"

\* read() returned data and preprocess_data accepted it.
ScanRead ==
    /\ ReadGuard
    /\ LET f == poll_fds[i].fd
       IN  /\ HasData(f)
           /\ unread' = [unread EXCEPT ![f] = @ - 1]
           /\ due' = due \ {f}
    /\ i' = i + 1
    /\ UNCHANGED <<slots, table, listen_revents, pc, stop, open, peer, backlog>>

\* read() returned data that preprocess_data never gets past: an empty block whose
\* command is not bCORE_WRITE, with something behind it (module ClientSession).
ScanSpins ==
    /\ ReadGuard
    /\ LET f == poll_fds[i].fd
       IN  /\ HasData(f)
           /\ unread' = [unread EXCEPT ![f] = @ - 1]
    /\ pc' = "spinning"
    /\ UNCHANGED <<slots, table, listen_revents, i, due, stop, open, peer, backlog>>

\* The thread turns in the loop of preprocess_data for ever.
KeepSpinning == pc = "spinning" /\ UNCHANGED vars

Mut_ScanProtocolError ==      \* mutant: dropped like the others, without a close()
    /\ ReadGuard /\ HasData(poll_fds[i].fd)
    /\ Drop
    /\ UNCHANGED <<listen_revents, pc, stop, open, backlog>>

\* read() returned data that break the protocol: the one path that closes the
\* socket of a client besides the stop branch.
ScanProtocolError ==
    /\ ReadGuard
    /\ HasData(poll_fds[i].fd)
    /\ open' = open \ {poll_fds[i].fd}
    /\ Drop
    /\ UNCHANGED <<listen_revents, pc, stop, backlog>>

Mut_ScanReadFails ==          \* mutant: end of file is taken for a short read
    /\ ReadGuard /\ ~HasData(poll_fds[i].fd)
    /\ i' = i + 1 /\ due' = due \ {poll_fds[i].fd}
    /\ UNCHANGED <<slots, table, listen_revents, pc, stop, open, peers>>

\* read() returned 0 or -1 (end of file, reset, or nothing to read on the
\* non-blocking socket): the client is dropped without a close().
ScanReadFails ==
    /\ ReadGuard
    /\ ~HasData(poll_fds[i].fd)
    /\ Drop
    /\ UNCHANGED <<listen_revents, pc, stop, open, backlog>>

ScanSkip ==
    /\ Scanning
    /\ poll_fds[i].revents = {}
    /\ i' = i + 1
    /\ UNCHANGED <<slots, table, listen_revents, pc, due, stop, open, peers>>

ScanEnd ==
    /\ pc = "scan"
    /\ i >= poll_fds_count
    /\ pc' = "top"
    /\ UNCHANGED <<slots, table, listen_revents, i, due, stop, open, peers>>

LoopStep ==
    \/ Stop \/ Poll \/ PollError
    \/ NoNewClient \/ AcceptClient \/ AcceptRefused \/ AcceptFails
    \/ ScanHangup \/ ScanRead \/ ScanProtocolError \/ ScanReadFails
    \/ ScanSpins \/ KeepSpinning
    \/ ScanSkip \/ ScanEnd

-----------------------------------------------------------------------------
(* The host program and the peers, at any time.                            *)

\* A signal handler, a callback or another thread of the emulator.
RequestStop ==
    /\ ~stop
    /\ stop' = TRUE
    /\ UNCHANGED <<server, open, peers>>

Connect ==
    /\ Running
    /\ backlog < MaxBacklog
    /\ backlog' = backlog + 1
    /\ UNCHANGED <<server, stop, open, unread, peer>>

PeerSends(f) ==
    /\ f \in Connected
    /\ peer[f] = "up"
    /\ unread[f] < MaxUnread
    /\ unread' = [unread EXCEPT ![f] = @ + 1]
    /\ UNCHANGED <<server, stop, open, peer, backlog>>

PeerCloses(f) ==
    /\ f \in Connected
    /\ peer[f] = "up"
    /\ peer' = [peer EXCEPT ![f] = "eof"]
    /\ UNCHANGED <<server, stop, open, unread, backlog>>

PeerResets(f) ==
    /\ f \in Connected
    /\ peer[f] # "reset"
    /\ peer' = [peer EXCEPT ![f] = "reset"]
    /\ UNCHANGED <<server, stop, open, unread, backlog>>

Environment ==
    \/ RequestStop
    \/ Connect
    \/ \E f \in Fd : PeerSends(f) \/ PeerCloses(f) \/ PeerResets(f)

Next == Start \/ StartFails \/ LoopStep \/ Environment

Spec == Init /\ [][Next]_vars

\* The thread inside generic_poll_server_start keeps running: no call of the loop
\* blocks, since poll() has a timeout and the sockets do not block.  It does not say
\* that each read is got through: one may end in ScanSpins.
FairSpec == Spec /\ WF_vars(LoopStep)

-----------------------------------------------------------------------------
(* Properties                                                              *)

\* The slot table and poll_fds name the same clients, each of them once:
\* read_client_data never looks up a client that is not there (get_client would
\* return NULL) and remove_client never misses one.
SlotsMatchPoll ==
    Running =>
      /\ Polled = Connected
      /\ \A s, t \in Slots : socket_fd[s] = socket_fd[t] /\ socket_fd[s] # NoFd => s = t
      /\ \A j, k \in Used : poll_fds[j].fd = poll_fds[k].fd => j = k

\* poll_fds[6] never overflows, although only the slot table is tested for
\* room before an entry is appended.
PollTableFits == poll_fds_count <= MaxClients + 1

\* One scan handles exactly the clients the last poll reported: the swap into the
\* hole neither skips nor repeats one, and nobody waits for the next round.
EventsServedOnce ==
    /\ pc = "top" => due = {}
    /\ pc \in {"accept", "scan"} =>
         due = {poll_fds[k].fd : k \in {n \in Used : /\ poll_fds[n].revents # {}
                                                     /\ pc = "scan" => n >= i}}

\* While the loop runs, the host has been told of exactly the clients it serves.
CallbacksMatch == Running => told = Connected

\* No descriptor the server reads, polls or closes was already closed: closing it
\* twice would hit whatever socket got the number in between.
ServedAreOpen == Connected \subseteq open

\* A client leaves only because its peer left, because it sent something (the
\* protocol error) or because the server stopped; never on an event of another
\* client that used the same entry of poll_fds before.
RemovedForCause ==
    [][\A f \in Connected \ Connected' : \/ peer[f] # "up"
                                         \/ unread[f] > 0
                                         \/ ~Running'
                                         \/ ~Running]_vars

\* A client that leaves the tables without a close() is one whose peer has gone: the
\* missing close costs a descriptor, but leaves no live peer on a connection
\* that nobody reads any more.
NoPeerLeftHanging ==
    [][Running /\ Running' => \A f \in (Connected \ Connected') \cap open' : peer[f] # "up"]_vars

\* A stop request ends the loop, however many clients connect, leave or keep
\* sending, unless one of them sends what preprocess_data never gets past.
StopHonoured == (stop /\ Running) ~> (pc = "returned" \/ pc = "spinning")

\* A client whose peer is gone is dropped from the tables, with the same exception.
GoneClientDropped ==
    \A f \in Fd : (Running /\ f \in Connected /\ peer[f] # "up")
                    ~> (f \notin Connected \/ ~Running \/ pc = "spinning")

\* A full accept queue is served, with the same exception.
AcceptQueueServed ==
    (Running /\ backlog = MaxBacklog) ~> (backlog < MaxBacklog \/ ~Running \/ pc = "spinning")

\* What the message "Disconnecting client" says of a client that leaves the tables
\* while the loop runs: its connection is closed.
DroppedAreDisconnected ==
    [][Running /\ Running' => (Connected \ Connected') \cap open' = {}]_vars

=============================================================================
