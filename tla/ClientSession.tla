---------------------------- MODULE ClientSession ----------------------------
(***************************************************************************)
(* The session kept in one slot of clients[] of                            *)
(* src/generic poll server/generic_poll_server.c: preprocess_data and what *)
(* it calls, fed by read_client_data.  A session reads the stream in       *)
(* chunks that TCP cuts anywhere, and the fields of the slot carry what is *)
(* unfinished from one chunk to the next, some of them even to the next    *)
(* client that gets the slot.                                              *)
(*                                                                         *)
(* Data abstraction: a stream is a sequence of symbols.  A command line is *)
(* the name with its arguments, then the newline; the header of a block is *)
(* the zero byte, then the size field; a data byte is its position in the  *)
(* block.  A cut inside a name or a size field leaves the server in the    *)
(* state of a cut before the symbol that follows.  Only a name starts with *)
(* an alphanumeric byte, so a data byte never looks like a command.        *)
(***************************************************************************)
EXTENDS NwaRequests, FiniteSetsExt

CONSTANTS
    ReadMax,      \* bound: symbols one read() returns; 2048 bytes in the code
    Regular       \* the requests of a client that paces itself

ASSUME ReadMaxAssumption == ReadMax \in Nat \ {0}
ASSUME RegularAssumption == \A r \in Regular : r \in Requests /\ Paceable(r)

VARIABLES
    \* fields of generic_poll_server_client
    state, command_data, current_command, shallow_binary_block,
    binary_header, binary_block, binary_block_defined_size, expected_block_size,
    \* the connection
    connected,    \* the slot is taken
    paced,        \* ... by a client that paces itself, see Send
    wire,         \* symbols sent and not read yet
    chunk,        \* readed_data from read_pos on
    sent, served  \* history of the connection, as in NwaConnection

lineVars   == <<command_data, current_command>>
blockVars  == <<binary_block, binary_block_defined_size>>
headerVars == <<binary_header, expected_block_size>>
fields     == <<state, lineVars, blockVars, headerVars, shallow_binary_block>>
connVars   == <<connected, paced, wire>>
hist       == <<sent, served>>
vars       == <<fields, connVars, chunk, hist>>

\* The connections of the clients that pace themselves; those of other clients use
\* the same slot in between.
Conn == INSTANCE NwaConnection WITH up <- connected /\ paced,
                                    sent <- IF paced THEN sent ELSE <<>>,
                                    served <- IF paced THEN served ELSE <<>>

Sym(kind, r, n) == [kind |-> kind, of |-> r, n |-> n]

HeaderLen == 2     \* the five bytes: the zero byte and the size

\* The stream of a request.
Bytes(r) ==
    LET text    == <<Sym("name", r, 0), Sym("newline", r, 0)>>
        zero    == <<Sym("zero", r, 0), Sym("size", r, r.block)>>
        payload == [j \in 1 .. r.block |-> Sym("data", r, j)]
    IN  (IF r.class = "none" THEN <<>> ELSE text)
          \o (IF r.block = NoBlock THEN <<>> ELSE zero \o payload)

TypeOK ==
    /\ state \in {"WAITING_FOR_COMMAND", "GETTING_COMMAND", "EXPECTING_BINARY_DATA",
                  "GETTING_BINARY_DATA"}
    /\ Len(command_data) \in {0, 1}      \* the newline ends a line at once
    /\ current_command \in {""} \cup {r.cmd : r \in Requests}
    /\ shallow_binary_block \in BOOLEAN
    /\ Len(binary_header) \in 0 .. HeaderLen
    /\ binary_block_defined_size \in Nat
    /\ expected_block_size \in Nat
    /\ connected \in BOOLEAN /\ paced \in BOOLEAN
    /\ Len(chunk) \in 0 .. ReadMax
    /\ \A j \in DOMAIN sent : sent[j] \in Requests
    /\ \A j \in DOMAIN served : served[j].what \in {"executed", "invalid_command", "written",
                                                    "swallowed", "protocol_error"}

Init ==
    /\ state = "WAITING_FOR_COMMAND"
    /\ command_data = <<>>
    /\ current_command = ""
    /\ binary_block = <<>>
    /\ binary_block_defined_size = 0
    /\ binary_header = <<>>
    /\ expected_block_size = 0
    /\ shallow_binary_block = FALSE
    /\ connected = FALSE /\ paced = FALSE
    /\ wire = <<>> /\ chunk = <<>>
    /\ sent = <<>> /\ served = <<>>

-----------------------------------------------------------------------------
(* The client and the connection                                           *)

\* A new client gets the slot.  current_command, expected_block_size and
\* binary_block_defined_size keep the values the last client left.
add_to_clients ==
    /\ ~connected
    /\ connected' = TRUE
    /\ paced' \in BOOLEAN
    /\ command_data' = <<>>
    /\ state' = "WAITING_FOR_COMMAND"
    /\ binary_block' = <<>>
    /\ binary_header' = <<>>
    /\ shallow_binary_block' = FALSE
    /\ sent' = <<>> /\ served' = <<>>
    /\ UNCHANGED <<current_command, binary_block_defined_size, expected_block_size, wire, chunk>>

MaySend(r) == paced => r \in Regular /\ InPace(sent, served)

Send(r) ==
    /\ connected
    /\ Len(sent) < MaxRequests
    /\ MaySend(r)
    /\ sent' = Append(sent, r)
    /\ wire' = wire \o Bytes(r)
    /\ UNCHANGED <<fields, connected, paced, chunk, served>>

\* remove_client frees the block; the other fields stay for the next client.
remove_client ==
    /\ connected' = FALSE
    /\ binary_block' = <<>>
    /\ wire' = <<>>
    /\ chunk' = <<>>
    /\ UNCHANGED paced

\* The client is gone, with what it sent unread or read (POLLHUP, or read() <= 0).
Hangup ==
    /\ connected
    /\ chunk = <<>>
    /\ remove_client
    /\ sent' = <<>> /\ served' = <<>>
    /\ UNCHANGED <<state, lineVars, headerVars, binary_block_defined_size, shallow_binary_block>>

\* read() returns some of what has arrived.
read_client_data ==
    /\ connected
    /\ chunk = <<>>
    /\ \E k \in 1 .. Min({Len(wire), ReadMax}) :
         /\ chunk' = SubSeq(wire, 1, k)
         /\ wire' = SubSeq(wire, k + 1, Len(wire))
    /\ UNCHANGED <<fields, connected, paced, hist>>

-----------------------------------------------------------------------------
(* preprocess_data: one action per branch of its loop                      *)

In(s) == chunk # <<>> /\ state = s

Consume(k) == chunk' = SubSeq(chunk, k + 1, Len(chunk)) /\ UNCHANGED connVars

Serves(o) == served' = Append(served, o) /\ UNCHANGED sent

\* preprocess_data returns false: the socket is closed and the client removed.
ProtocolError ==
    /\ Serves(Outcome("protocol_error", <<>>))
    /\ remove_client

ExpectBlock ==
    /\ In("EXPECTING_BINARY_DATA")
    /\ Head(chunk).kind = "zero"
    /\ state' = "GETTING_BINARY_DATA"
    /\ binary_header' = <<>>
    /\ UNCHANGED <<lineVars, blockVars, expected_block_size, shallow_binary_block, connVars, chunk, hist>>

NoBlockFollows ==
    /\ In("EXPECTING_BINARY_DATA")
    /\ Head(chunk).kind # "zero"
    /\ state' = "GETTING_BINARY_DATA"
    /\ binary_header' = <<>>
    /\ ProtocolError
    /\ UNCHANGED <<lineVars, binary_block_defined_size, expected_block_size, shallow_binary_block>>

HeaderGuard == In("GETTING_BINARY_DATA") /\ Len(binary_header) < HeaderLen

\* The bytes of this chunk that go into the header, behind those that are there.
HeaderRead == SubSeq(chunk, 1, Min({HeaderLen - Len(binary_header), Len(chunk)}))

HeaderSoFar == binary_header \o HeaderRead

Mut_HeaderPart == HeaderGuard /\ Len(HeaderSoFar) < HeaderLen /\ UNCHANGED vars
                              \* mutant: waits for the whole header in one read

HeaderPart ==
    /\ HeaderGuard
    /\ Len(HeaderSoFar) < HeaderLen
    /\ binary_header' = HeaderSoFar
    /\ Consume(Len(HeaderRead))
    /\ UNCHANGED <<state, lineVars, blockVars, expected_block_size, shallow_binary_block, hist>>

Mut_SizeAccepted(size) == expected_block_size = 0 \/ size <= expected_block_size  \* mutant

SizeAccepted(size) == expected_block_size = 0 \/ size = expected_block_size

\* The header is complete; a new buffer of the size it announces is allocated.
HeaderComplete ==
    /\ HeaderGuard
    /\ Len(HeaderSoFar) = HeaderLen
    /\ binary_header' = HeaderSoFar
    /\ binary_block_defined_size' = HeaderSoFar[HeaderLen].n
    /\ UNCHANGED <<state, lineVars, expected_block_size, shallow_binary_block>>

HeaderDone ==
    /\ HeaderComplete
    /\ SizeAccepted(HeaderSoFar[HeaderLen].n)
    /\ binary_block' = <<>>
    /\ Consume(Len(HeaderRead))
    /\ UNCHANGED hist

HeaderRefused ==
    /\ HeaderComplete
    /\ ~SizeAccepted(HeaderSoFar[HeaderLen].n)
    /\ ProtocolError

\* Data are copied when any are left in the chunk, so that an empty block is
\* complete only with the first byte of what follows it.
DataGuard == In("GETTING_BINARY_DATA") /\ Len(binary_header) = HeaderLen

\* As many bytes as the whole block holds, whatever of it has already arrived.
CopySize == Min({Len(chunk), binary_block_defined_size})
Filled   == binary_block \o SubSeq(chunk, 1, CopySize)

BlockPart ==
    /\ DataGuard
    /\ Len(Filled) # binary_block_defined_size
    /\ binary_block' = Filled
    /\ Consume(CopySize)
    /\ UNCHANGED <<state, lineVars, binary_block_defined_size, headerVars, shallow_binary_block, hist>>

\* Only a block of bCORE_WRITE is passed on; any other complete block stays, and
\* with it the state of the session.
process_binary_block ==
    IF current_command = "bCORE_WRITE"
    THEN /\ Serves(Outcome("written", [j \in DOMAIN Filled |-> <<Filled[j].kind, Filled[j].n>>]))
         /\ binary_block' = <<>>
         /\ binary_header' = <<>> /\ expected_block_size' = 0
         /\ state' = "WAITING_FOR_COMMAND"
    ELSE binary_block' = Filled /\ UNCHANGED <<state, headerVars, hist>>

Mut_Unmark == UNCHANGED shallow_binary_block    \* mutant: the next block is swallowed too

Unmark == shallow_binary_block' = FALSE

BlockDone ==
    /\ DataGuard
    /\ Len(Filled) = binary_block_defined_size
    /\ ~shallow_binary_block
    /\ process_binary_block
    /\ Unmark
    /\ Consume(CopySize)
    /\ UNCHANGED <<lineVars, binary_block_defined_size>>

Mut_Swallowed ==              \* mutant: the session stays in the block
    binary_block' = <<>> /\ binary_block_defined_size' = 0 /\ UNCHANGED state

Swallowed ==
    /\ binary_block' = <<>>
    /\ binary_block_defined_size' = 0
    /\ state' = "WAITING_FOR_COMMAND"

\* The block of a command its handler refused.
BlockSwallowed ==
    /\ DataGuard
    /\ Len(Filled) = binary_block_defined_size
    /\ shallow_binary_block
    /\ Serves(Outcome("swallowed", <<>>))
    /\ Swallowed
    /\ Unmark
    /\ Consume(CopySize)
    /\ UNCHANGED <<lineVars, headerVars>>

StartCommand ==
    /\ In("WAITING_FOR_COMMAND")
    /\ Head(chunk).kind = "name"
    /\ state' = "GETTING_COMMAND"
    /\ UNCHANGED <<lineVars, blockVars, headerVars, shallow_binary_block, connVars, chunk, hist>>

NotACommand ==
    /\ In("WAITING_FOR_COMMAND")
    /\ Head(chunk).kind # "name"
    /\ ProtocolError
    /\ UNCHANGED <<state, lineVars, binary_block_defined_size, headerVars, shallow_binary_block>>

\* Up to the newline, or the whole chunk when it has none.
Newlines == {j \in DOMAIN chunk : chunk[j].kind = "newline"}
LineRead == SubSeq(chunk, 1, IF Newlines = {} THEN Len(chunk) ELSE Min(Newlines))

CommandPart ==
    /\ In("GETTING_COMMAND")
    /\ Newlines = {}
    /\ command_data' = command_data \o LineRead
    /\ Consume(Len(LineRead))
    /\ UNCHANGED <<state, current_command, blockVars, headerVars, shallow_binary_block, hist>>

\* execute_command: a command neither table knows leaves current_command alone and
\* returns 0; a known one without a handler returns -1.
execute_command(r) ==
    current_command' = IF r.class = "unknown" THEN current_command ELSE r.cmd
Returned(r) ==
    CASE r.class = "unknown"   -> 0
      [] r.class = "nohandler" -> -1
      [] OTHER                 -> r.ret

Mut_LineDone == command_data' = command_data \o LineRead    \* mutant: the line stays

LineDone == command_data' = <<>>

\* The command line of r is complete and executed.
Command(r) ==
    /\ In("GETTING_COMMAND")
    /\ Newlines # {}
    /\ r = Head(command_data \o LineRead).of
    /\ execute_command(r)
    /\ LineDone
    /\ Consume(Len(LineRead))
    /\ UNCHANGED binary_block_defined_size

\* Its name does not start with 'b'.
PlainCommand ==
    /\ \E r \in Requests :
         /\ Command(r)
         /\ ~r.b
         /\ Serves(Outcome(IF r.class \in {"unknown", "nohandler"} THEN "invalid_command"
                                                                   ELSE "executed", <<>>))
    /\ state' = "WAITING_FOR_COMMAND"
    /\ UNCHANGED <<binary_block, headerVars, shallow_binary_block>>

\* ... or does: a block must follow, of the size the handler returned.
BlockCommand ==
    /\ \E r \in Requests :
         /\ Command(r)
         /\ r.b
         /\ shallow_binary_block' = (shallow_binary_block \/ Returned(r) < 0)
         /\ expected_block_size' = IF Returned(r) < 0 THEN -Returned(r) ELSE Returned(r)
    /\ binary_header' = <<>>
    /\ binary_block' = <<>>
    /\ state' = "EXPECTING_BINARY_DATA"
    /\ UNCHANGED hist

preprocess_data ==
    \/ ExpectBlock \/ NoBlockFollows
    \/ HeaderPart \/ HeaderDone \/ HeaderRefused
    \/ BlockPart \/ BlockDone \/ BlockSwallowed
    \/ StartCommand \/ NotACommand \/ CommandPart \/ PlainCommand \/ BlockCommand

Next ==
    \/ add_to_clients
    \/ \E r \in Requests : Send(r)
    \/ Hangup
    \/ read_client_data
    \/ preprocess_data

Spec == Init /\ [][Next]_vars

\* What has arrived is read (PollServer serves every readable client in each
\* round of its loop) and preprocess_data takes its steps in the same call.  Some of
\* them change nothing: whether it ever returns is a question, not an assumption.
FairSpec == Spec /\ WF_vars(read_client_data) /\ WF_vars(preprocess_data)

-----------------------------------------------------------------------------
(* Properties                                                              *)

\* However the stream is cut into reads, and whatever earlier clients left in the
\* slot, be it in the middle of a block, the requests of a client that paces itself
\* have the outcomes NwaConnection promises.
ImplementsConnection == Conn!Spec

\* ... and every request gets its outcome, unless the connection ends first.
ImplementsFairConnection == Conn!FairSpec

\* preprocess_data returns from each read of a client that paces itself, so that the
\* one thread goes on to the other clients.
PacedReadReturns == (connected /\ paced /\ chunk # <<>>) ~> (chunk = <<>>)

\* Nothing is forgotten half done: when all that a client sent is read and
\* processed, all of it has been served, but for an empty block at the end.
NoRequestLeftBehind ==
    connected /\ paced /\ wire = <<>> /\ chunk = <<>> =>
      \/ Len(served) = Len(sent)
      \/ Len(served) = Len(sent) - 1 /\ sent[Len(sent)].block = 0

\* The mark "swallow the next block" never outlives the block it was made for.
ShallowOnlyForRejected ==
    connected /\ state \in {"WAITING_FOR_COMMAND", "GETTING_COMMAND"} => ~shallow_binary_block

\* The buffer of a block holds what its header announced and no more
\* ("The size defined by the header" and "The current size filled into the buffer"
\* of struct generic_poll_server_client).
BlockWithinSize ==
    state = "GETTING_BINARY_DATA" /\ Len(binary_header) = HeaderLen
      => Len(binary_block) <= binary_block_defined_size

\* What the comment on handlers calls to properly swallow the next binary block:
\* the block of a command that was refused is not handed to the write function.
RefusedNotWritten ==
    \A j \in DOMAIN served :
       j \in DOMAIN sent /\ sent[j].b /\ Refused(sent[j])
         => served[j].what # "written"

=============================================================================
