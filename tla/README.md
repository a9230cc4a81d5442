# A TLA+ model of emulator-networkaccess

The repository holds a protocol for talking to emulators ("NWA"), a small C
library that implements its server side over `poll`, a dummy SNES emulator built
on that library, and a Rust program that validates a server.  This project models
the server from the search for a port to the bytes of a reply: its event loop, the
session it keeps per client, the helpers for handlers, the handlers of the dummy
emulator, and the client of the validator that reads the replies.  What is checked
by TLC is in *The runs*, what is proved for every size of the system is in *The
proofs*.

Paths: `G` is `src/generic poll server/generic_poll_server.c`, `H` its header,
`D` is `src/dummy/Dummy Emulator/dummy.c`, `V` is `src/proto-validator/src/`.

## The system

| component | state | operations | module |
|---|---|---|---|
| event loop, `generic_poll_server_start` (G) | `clients[5].socket_fd`, `poll_fds[6]` with `poll_fds_count`, `generic_poll_server_stop`, the open descriptors | start, poll, accept, scan and drop, stop | `PollServer`, with its sessions `NwaServer` |
| client session, `preprocess_data` and what it calls (G) | the other fields of a slot of `clients[]`: `state`, the unfinished line, header and block, `current_command` | one per branch of the loop over a chunk | `ClientSession`, `NwaRequests`, `NwaConnection`; the line itself `CommandLine` |
| memory arguments, parse and free (G) | a linked list | parse, free | `MemoryArgument` |
| port search (G) | `NWA_PORT_RANGE`, the ports of the machine | up to five `bind` calls | `ServerStart` |
| reply writing (G) | none | `write` calls | `NwaClient` |
| command handlers of the dummy (D) | globals `dummy_state`, `memory_to_write`, `offset_to_write`, `size_to_write`, `size_written`, the static `size_header_get` | a handler per command, `write_to_memory` per block | `DummyEmulator` |
| dummy start-up, savestate loading (D) | the memory images | read files | which memories exist: `Init` of `DummyEmulator` |
| validator client `NWASyncClient` (V `nwa.rs`) | a socket | `execute_command`, `send_data`, `get_reply` | `NwaClient`, `CommandLine` |
| validator checks (V `main.rs`, `nwachecker.rs`) | a report | a linear script | not modelled |
| protocol documents | | | quoted |

How they interact.  The host program calls `generic_poll_server_start`, which
returns only when the server ends; the host is told of clients by the
callbacks `NEW_CLIENT` and `REMOVED_CLIENT`, and ends the loop by setting
`generic_poll_server_stop` from a callback, a signal handler or another thread.
The loop reads a client that poll reports and hands the chunk to
`preprocess_data`, which calls the host's handlers by name
(`generic_emu_mwa_map`, then `custom_emu_nwa_map`) and, for the block of a
`bCORE_WRITE`, the host's write function.  A handler's return value says which
block must follow: 0 for any, `n` for `n` bytes, `-n` for a block of `n` bytes to
be swallowed because the handler refused the command.  Handlers reply by writing
to the client's socket.

There is one thread and no lock; what is hard is the order of events.

* Peers connect, send, close and reset at any point between two steps of the loop,
  and results of one `poll` are used while the tables they index are being changed.
* TCP cuts the stream anywhere; a session carries what is unfinished to the next
  read, and some fields to the next client in the slot.
* Between the command of a write and its block, other clients are served, and
  the handlers keep a write in globals.
* The server may be full, out of descriptors, stopped or restarted.
* Several emulators on one machine search the same five ports, and a port may stay
  taken after its server ended.
* A reply is several `write` calls whose results nobody looks at, and it reaches the
  client in pieces the client does not expect.

What makes the parts correct: the two tables name the same clients and stay
inside their arrays; each event that `poll` reports is handled once; the host's
view is the server's; nothing closed is used again; a client leaves only for a
cause, and does leave when there is one; the stream of a client is served request
by request, in order, with the outcome each deserves, whatever the cuts and the other
clients do; a handler gets the arguments the client sent; a write
touches the range it named; every request is answered, and the client reads the
answer that was given; the host is told the port the server has.  The hazards of
`PROJECT.json` list where each of these could go wrong, line by line, and which property
speaks of it.

## The modules

Which module stands on which:

    PollServer ------------\
    NwaRequests             >-- NwaServer   ---- each connection is an NwaConnection
      \-- NwaConnection    /
      \-- ClientSession ------ each slot implements NwaConnection
    CommandLine -- MemoryArgument
    ServerStart      NwaClient      DummyEmulator

### PollServer: the event loop

State maps one to one: `socket_fd[s]` is `clients[s].socket_fd`,
`poll_fds[k]` the entry with its `revents`, `listen_revents` that of entry 0,
`i` the index of the scan, `pc` the place in the function.  `open` is the set of
descriptors of accepted connections the process still holds, so that a dropped
client without `close` shows.  `told` and `due` are history: the clients
announced and not withdrawn, and those the last poll reported and the scan has
not yet handled.

| action | code |
|---|---|
| `Start`, `StartFails` | set-up, from the reset of `clients[]` to the `listen` (G:584-665); when it fails is in `ServerStart` |
| `Stop`, `Poll`, `PollError` | top of the loop: the stop branch, `poll` and its failure |
| `NoNewClient`, `AcceptClient`, `AcceptRefused`, `AcceptFails` | the listening socket; one connection a round |
| `ScanHangup`, `ScanRead`, `ScanProtocolError`, `ScanReadFails`, `ScanSkip`, `ScanEnd` | one entry of the scan, or its end |
| `ScanSpins`, `KeepSpinning` | a read that `preprocess_data` does not return from (G:437-497) |
| `add_to_clients`, `remove_client`, `DropEntry` | the helpers and the move of the last entry into the hole |
| `RequestStop`, `Connect`, `PeerSends`, `PeerCloses`, `PeerResets` | host and peers, at any moment |

A step is one iteration of the scan or one branch of the accept part, so that
peers act between any two of them.  What a client's bytes mean is left to
`ClientSession`: here a read with data is accepted, or a protocol error, or holds the thread
for ever.  The last is what an empty block comes to when its command is not `bCORE_WRITE`
and a byte follows it: the block is full at once, `process_binary_block` does nothing, and the
loop over the chunk goes on where it was.
`POLLHUP` stands for `POLLERR` too; both lead to the same branch.  Linux reports
a reset as `POLLIN | POLLERR | POLLHUP` and an orderly close as `POLLIN` only.

Simplifications to know of: `told` restarts empty with each `Start`, since the stop
branch withdraws nobody; the listening socket is not in `open` (it is
not closed when `poll` or `accept` fails); what the peer of a socket does that the
server no longer looks at is left out (`Forget`).  Numbers are finite: at most
`MaxBacklog` connections wait and at most `MaxUnread` reads are needed to drain a client.

### NwaServer: the loop with its sessions

`NwaServer` extends `PollServer`.  A client that comes is one of those in `paced`, which pace
themselves (see below), or not (`ComeAndGo`).  The reads of the latter may end in every way
`PollServer` has (`ReadingOther`), the endless one included.  The former send `Requests`, which
are `Paceable` and have no empty block (`PacedAssumption`), when `InPace` lets them, and
each has the history of its connection, `sent` and `served`.  One read takes one
request, and `NextOutcome` decides whether it is the accepted read or the protocol error of
`PollServer` (`Reading`).  That such a client gets this outcome, for any cut of its stream, and that
`preprocess_data` returns from all its reads, is not assumed of the code but the
result of `ClientSession` (`ImplementsConnection`, `PacedReadReturns`), whose
assumptions on requests and pace are the same definitions of `NwaRequests`.  What `NwaServer` adds is
the loop: slots, entries and descriptors that are reused, and neighbours on the one thread.
`Conn(f)` instantiates `NwaConnection` for every
descriptor, with "the loop runs and serves `f`, which paces itself" for `up`.
`EveryConnectionOrderly` is its `Init` and next-state relation for all descriptors at once.
`EveryRequestServed` is what the fairness of `NwaConnection` comes to per connection:
here nothing is assumed fair but the thread, and a neighbour that makes it spin is the exception.

### NwaRequests, NwaConnection and ClientSession: a connection

`NwaRequests` says what a request is and, in `Disposition`, which outcome it
deserves, from the request alone: executed, invalid command, block written,
block swallowed, protocol error.  It also says which clients the code can be held to that for:
those whose requests are `Paceable` and who send them `InPace`, nothing behind a block that has
no answer yet.  `NwaConnection` is the abstract specification: a
connection opens, requests are sent, served one at a time in that order
with their outcome, and either side may end it (a protocol error does).

`ClientSession` is the code.  Its variables are the fields of
`generic_poll_server_client` (H), `chunk` is what `preprocess_data` has not
consumed of `readed_data`, `wire` what has arrived and is unread.  Each branch
of the loop in `preprocess_data` is an action; `execute_command` and
`process_binary_block` are operators used by them.
A client that takes the slot is `paced` or not.  One that is sends requests of
`Regular` only and waits for the answer to a block before it sends more, as the
validator does; one that is not sends anything at any time, and leaves in the slot
whatever that comes to.  `Paceable` says which requests may be `Regular`: a block behind
every command whose name starts with `b`, and only there or on its own, and such a command
known, with a one-byte block when it has no handler, and refused, answered with an error
or `bCORE_WRITE` when it has one.  `Conn == INSTANCE NwaConnection WITH up <- connected /\ paced`
states the refinement: the connections of paced clients are those
of `NwaConnection`, whoever used the slot before them.

The stream is a sequence of symbols: a line is its name (with arguments) and a
newline, a header the zero byte and the size field, a data byte its position.
So a cut inside a name, or inside the four bytes of a size, is identified with
a cut before the symbol: the code only appends in both cases.
Data bytes never look like a command name; this matters to the violation runs only,
where a session loses its place in the stream.

### CommandLine and MemoryArgument: from a line to a list of ranges

`CommandLine` follows the arguments of a request through the program that joins them
(`Join`; the checks of V `main.rs` write such strings), `execute_command` of the client, which puts
the name in front and a newline behind (`Line`), and `process_command` of the server, which
splits the line again:
`NameEnd` and `Rest` are its searches for the end of the name and of the spaces behind it,
`Split` is its loop over the rest and `Collect` one turn of that loop.
Here characters matter, so a text is a sequence of them.  `overrun` is the set of
buffers written past their end: `command_data` (2048 bytes), the name (`cmd`), the
array of 20 arguments, one argument (2056 bytes).  After an overrun nothing is
defined and the request stops there (`pc = "undefined"`).

`MemoryArgument` extends it with what a handler does next: the list of offsets and
sizes (`ParseStart`, `ParseArgument` per argument, `ParseDone`), and its release
(`FreeStart`, `FreeNode` per node, `FreeHead`), node by node on a heap that survives
the request, so that `LeaksLastNodes` can count what is never freed.
`get_offset` reads decimal or, behind a `$`, hexadecimal digits, and the fields cut the
value to `Width` bits.  The repository has no handler that uses the list;
the functions are in the library for the hosts.

### ServerStart: the port

Several emulators, each at its own place in `generic_poll_server_start`: `Start`,
one `bind` per step (`Bind`, `TryNext`, `Refused`), `Listen` with the callback
`server_started`, and the three ways a server ends: `Stop` closes its socket, `Abandon` (a
failing `listen`, `poll` or `accept`, or a signal) returns without closing it, and
`Exit` is the end of the process.  Ports are numbers modulo `Width` (2^16): the range may
wrap, and port 0 means any port of `Ephemeral`.  Ports may be `Reserved`, or `lingering`
in TIME_WAIT, since the socket has no `SO_REUSEADDR`.  `stayedFree` and `orderly` are
history.

### NwaClient: a reply on its way

The emulator's side is the list of `write` calls a reply consists of (`HashReply`,
`ErrorReply`, `BinaryBlock`), made one by one into a connection of limited room; what
does not fit is lost, because sockets do not block and results are not looked at.  The
client's side is `get_reply`, with the `BufReader` it makes for each reply: `Fill` takes
a piece of any size, `FirstByte`, `ReadLine`, `ReadSize`, `ReadData` are the stages
of the function, and `Return` drops what was read ahead.  `ReadSize` and
`ReadData` take what one `read` has, as the code does, and leave zeros for the rest.
`broken` is history: a write found no room, the emulator died in the middle of a
reply, or a piece of a binary reply ended inside its size or its data.

A byte is zero, a newline or another one, and the text of a `key:value` line is one
element; a size has two digits to the base 3.  `Long` are the lines that do not fit
the arrays of 100 and 1024 bytes.

`Meaning` is what a reply says by the draft, `AsRead` what `get_reply` makes of the whole of
it: the last line of each key, and a panic for a line of `Long`.  `InStep` speaks of `AsRead`, that
replies and results do not get out of step; `SimpleAsMeant` of `Meaning`, for the replies in which
both can agree (`Simple`).  A read of no bytes waits like any other when the `BufReader` is empty
(`NeedsMore`), so that a binary reply without data is read only when more comes.

### DummyEmulator: handlers that share globals

One action per call the event loop makes for a client, named like the handler; of
handlers with the same body only one is there, and the comment names the others.
`dummy_core_memory_read` answers or, when an argument is missing or the memory is, may
end the process; `dummy_core_memory_write` is the command of a write, and
`BlockUnfinished`, `BlockFinished` and `Crash` are the calls of
`write_to_memory` for its block.  `Leave` is a client that goes away with its block unsent.
Any two clients interleave between a command and its block.

A memory is its name and a `memcpy` the set of addresses it covers; `loaded` are the
memories a savestate brought, any subset, and the program.  A request has the size of its block and,
in `told`, what `atoi` makes of its third argument: 0 for a size in hexadecimal, the first size of
several.  A write command takes `told` when there are three arguments and 0 otherwise,
and only the first offset.  An argument behind the last
one is uninitialized, so that reading it gives any offset or ends the process, and
what lies behind a memory may be there or not.  The first `Prefix` bytes
of data, which the code takes for a size, may spell
any number of `Spelled`.  `disturbed` records that another client's write command
or block came between the two calls of a write, `blame` which request the process died of.

## The runs

| run | states | shows |
|---|---|---|
| `poll_loop` | 395 000 | the tables agree and fit, each event is handled once, callbacks and descriptors are consistent, clients leave for a cause and no live one without a `close`; as long as `preprocess_data` returns, a stop request ends the loop, a gone client is dropped, the accept queue is served |
| `poll_leak` | | *violation:* dropped clients are not disconnected |
| `server` | 663 000 | every client that paces itself has an orderly connection, whatever others send, and no request of it waits for ever unless one of them makes the thread spin |
| `session` | 670 000 | clients that pace themselves get what `NwaConnection` promises, liveness included, in a slot that others used anyhow before; `preprocess_data` returns from each of their reads; nothing is left half done and no swallow mark outlives its block |
| `session_overshoot` | | *violation:* a block is filled beyond its size |
| `session_stale` | | *violation:* the block of a refused command is written |
| `line` | 120 000 | handlers get the arguments that were sent; a line that fits its buffer fits the others, but for the number of arguments; the list has the ranges of the arguments; nothing is used after it is freed, and one node of each longer list is leaked |
| `ports` | 2 040 000 | the host is told the port that is bound; no free port is passed over; emulators that end in order all find a port |
| `client` | 880 000 | `get_reply` stays in step with the emulator, gives what a reply without repeated keys and overlong lines says, and returns from every reply but a binary one without data, as long as nothing is lost and no binary reply is cut |
| `client_cut` | | *violation:* a binary reply that arrives in two pieces is not read whole |
| `dummy_shared` | 6 550 000 | writes of one range nobody came between stay in it and find their target; the write after an unfinished one is finished if its size is in decimal; the process only dies of a request with a fault of its own, or of an interference |
| `dummy_unanswered` | | *violation:* a write gets no reply |

Why the bounds are enough to meet the interesting cases.

* `poll_loop`: two slots and three descriptors.  The server can be full with a
  descriptor left to refuse a third client, run out of descriptors through the
  leak, and move an entry into the hole in every pattern of two (first, last,
  both).  `MaxBacklog` 2 lets a connection wait behind the one being accepted.
  More slots than two are the business of the proofs.  Symmetry would be
  unsound for the liveness properties and is not used.
* `server`: two slots, two descriptors that several connections use in turn, of clients that
  pace themselves or do not, two unread requests each; one kind of request breaks the protocol.
* `session`: three requests of ten kinds, reads of up to five symbols;
  a request is at most six symbols, so that requests are cut into pieces and
  several requests share a read.
* `line`: up to seven arguments against room for six, lines up to 31 characters against
  room for 20, texts in decimal, hexadecimal, empty and with a space in front, values
  above the five bits of a field; five nodes, so that up to two leaks
  accumulate beside a list of three.
* `ports`: as many emulators as tries, in a space of seven ports with one reserved;
  settings that are unset, cut to 0, cut to the default and next to the wrap-around;
  two ports stuck at a time.
* `client`: three commands; hash replies with a key twice, with a line too long,
  empty; an error; binary replies that are empty, one newline, and longer than
  the read-ahead, of which the connection has no room for all.
* `dummy_shared`: two clients, seven writes: with and without a size, empty and so shorter
  than the supposed header (2 bytes instead of 4), of its size and longer, to a memory that does
  not exist and without an offset, with a size in hexadecimal, of several ranges; seven reads
  likewise, one past the end; every set of loaded memories.

Deadlock is checked except where the process may die (the dummy runs), a line may
overrun or the nodes run out (`line`), and the client gives up (the client runs).

## Fairness

`PollServer!FairSpec` assumes weak fairness of `LoopStep`, the thread inside
`generic_poll_server_start`: `poll` has a timeout, client sockets are
non-blocking, and `accept` is called only when `poll` reported a connection.  It does not assume that
`preprocess_data` returns: a read may end in `ScanSpins`, the only steps of the thread
are `KeepSpinning` from then on, and the liveness properties say so (`pc = "spinning"`).
Nothing is assumed of hosts and peers, so a peer may keep
sending for ever, and a stop request may never come.  A `poll` that reports
nothing and times out is a `Poll` step with no events.
`NwaServer!ServerSpec` assumes the same of `Serving`, the loop with its sessions.
`ClientSession!FairSpec` assumes weak fairness of `read_client_data`, which `PollServer`
justifies (each readable client is served in every round, as long as the thread does
not spin for another), and of the steps of `preprocess_data`, which is called and goes on.  That it gets
to the end of a chunk is not assumed: a step that changes nothing is none, and
`PacedReadReturns` is the property that there is always another one for a client that paces itself.
`NwaClient!FairSpec` assumes that a handler that was called makes its `write` calls, that
the emulator serves a command it has, and that the client, blocked in a
read, goes on when something arrives or the connection ends.  It does not assume
that the connection ends.
`MemoryArgument`, `ServerStart` and `DummyEmulator` state no liveness.

## The proofs

`PollServerProofs` proves, for every `MaxClients >= 1` and every set `Fd` without
`NoFd`, that the specification keeps

| theorem | property |
|---|---|
| `TypeCorrect` | `TypeOK` |
| `TablesAgree` | `SlotsMatchPoll` |
| `PollTableNeverOverflows` | `PollTableFits` |
| `NoEventLostOrRepeated` | `EventsServedOnce` |
| `HostKnowsClients` | `CallbacksMatch` |
| `NoStaleDescriptor` | `ServedAreOpen` |
| `NobodyDroppedForAnother` | `RemovedForCause` |
| `NoLivePeerAbandoned` | `NoPeerLeftHanging` |

The inductive invariant `IInv` is the conjunction of `TypeOK`, `SlotsMatchPoll`,
`EventsServedOnce`, `CallbacksMatch`, `ServedAreOpen` and `AcceptHasWork`.  The
argument, step by step:

* Dropping a client (`DropStep`): by `SlotsMatchPoll` the descriptor of entry `i` is
  in exactly one slot and one entry, so `remove_client` and `DropEntry` take out the
  same client (`DropClient`), and what is still due is what stands at or
  behind `i` in the new table (`DropEvents`): the moved entry came from behind `i`.
* Accepting: the descriptor is new because `accept` returns none that is `open` and by
  `ServedAreOpen` all those in the tables are.  There is room in
  `poll_fds` because a free slot means fewer than `MaxClients` clients, and the
  entries are as many as the clients (`FreeSlotMeansRoom`, a pigeonhole
  argument by cardinality).  This is the point where the code relies on a table
  it does not test.
* `AcceptHasWork` is the strengthening needed for types: an `accept` only follows a
  `poll` that saw a connection, so `backlog - 1` stays a natural number.
* Everything else leaves the two tables alone (`QuietStep`).
* `NobodyDroppedForAnother` and `NoLivePeerAbandoned` need a second invariant, `TrueReports`: an
  entry still to be scanned that reports an event has a client with a reason for one, and one
  that reports a hang-up has a client that reset.  `poll` makes it
  true, peers only add reasons, and a drop moves an entry together with its report, onto
  an index that is scanned next (`DropReports`).  A client then leaves only by the
  report of its own entry (`LeavesForCause`); if that was a hang-up, or a read with
  nothing to read, its peer is gone, and the third way out, the protocol error, closes the socket.

The assumptions are those of `PollServer.tla`: `MaxClients` is positive (5), `NoFd`
is no descriptor `accept` returns, the bounds are positive.  `NoFd` is 0 in the code, and
true to the assumption as long as descriptor 0 is taken.

`ServerStartProofs` proves, for every width, number of tries below it, default port, finite
set of emulators, setting of `NWA_PORT_RANGE` and set of reserved and ephemeral ports, that
the specification keeps

| theorem | property |
|---|---|
| `TypeCorrect` | `TypeOK` |
| `ReportedPortIsBound` | `ReportedIsBound` |
| `NoFreePortPassed` | `FirstFreePort` |
| `EveryEmulatorFits` | `EveryoneFits` |

Its invariant is `TypeOK` with three parts: `Holds` (a server has the port its last `bind` asked
for, and reported that number uncut), `Passed` (no port tried in vain stayed free
during the search) and `StillFree` (what stayed free is free now).  `StillFree` is
what makes `Passed` inductive: a `bind` that fails says that what it asked for is taken
now, hence did not stay free.  The arithmetic is in `StartIsPort` and
`AskedIsPort`: a search starts at a port whatever the setting is, and below the
width a `bind` gives exactly the port it is asked for.  Every end of a server is one
case by `ReturnStep`.  `EveryoneFits` needs a count on top (`FitInv`).  When all search the
same ports and end in order, only a server that is up or about to be has a port
(`OnlyServersBind`, `NothingLeft`); so an emulator gets past its `j`-th port only because
another one stands exactly there, and those past `j` are at least `j` fewer than all
(`NotChased`).  Nobody can be past the last port then.

`MemoryArgumentProofs` proves, for every finite set of nodes, every width and whatever the
arguments are,

| theorem | property |
|---|---|
| `OnlyOwnNodesTouched` | `NoUseAfterFree` |
| `ExactlyLastNodesLeak` | `LeaksLastNodes` |
| `HandlerWalksRanges` | `ListIsRanges` |
| `HandlerGetsWhatWasAsked` | `HandlerGetsAsked` |
| `FittingLinesAreSafe` | `FittingLineIsSafe` |

For the first three: at every moment of a request there are a length and a function from places to addresses, no
address twice, along which the `next` fields walk (`IsList`).  `Building` says how long the
list is after `i` arguments and what it holds, `Built` is the finished list, and `Freeing`
says which places are still allocated after each turn of the loop.  As no address has two
places, each `free` takes exactly one node off the count, and of a list of two or more
the last is left.  That the recursive `node` of `ListIsRanges` is this function is shown by
the least place where it would not be.  The function exists only as long as
`malloc` gives a node; `Room` is that bound, in the guard of `ParseStart`.

The other two are about the line, for every name, every set of texts and every bound on their
number.  `LineInv` says that until the server reads it the line is `Line(asked)`; what is left is
what the server's searches and its loop make of such a line.
`LinePlaces` and `NameIs` find the end of the name, since no name has a separator; `LeadingSpaces`
and `RestIs` the end of the spaces, which are those in front of the first argument (`CutOf`,
`JoinBehind`).  `SplitPlain` is the loop of the server over a text without semicolons, which goes into
the last argument whole, and `SplitOneMore` takes it one character further, such as the
semicolon, which opens the next one; by these `Split` undoes `Join` (`SplitJoin`).  No buffer made from a line is longer than the line, and an
argument is shorter still, hence `FittingLinesAreSafe`, where `CommandMax < ArgMax`
(2048 and 2056) is what the code has.  What a loop computes is an
induction over its turns; since no induction theorem of the library can be applied here, it is
done on the set of the numbers of turns after which the claim holds, which has 0 and the
successor of each member (`SetInduction`, from the well-foundedness of the naturals).

`ClientSessionProofs` and `ClientPacingProofs` prove, for every set of requests, every bound on
their number and every size of a read,

| theorem | property |
|---|---|
| `TypeCorrect` | `TypeOK` |
| `MarkIsForOneBlock` | `ShallowOnlyForRejected` |
| `NothingHalfDone` | `NoRequestLeftBehind` |
| `SessionImplementsConnection` | `ImplementsConnection` |

The first two hold whatever a client sends.  `SlotInv` is about what is left of the stream,
read or not: a newline is behind each name and a size behind each zero byte
(`Follows`), because requests are sent whole and the server takes symbols off the front
only.  So a line that is begun ends with the next symbol (`LineBegun`).

The other two are about clients that pace themselves.  What is left of the stream is what
is left of the requests not served yet: `Layout` gives each of them its place in the
stream.  The fields of the slot tell how far into the first of them the
session is: at rest, in its line, before its block, in the header or in the data (`AtRest`,
`InLine`, `BeforeBlock`, `InHeader`, `InBlock`), and while a block is due,
what is known of it is what its command said (`Owed`).  `Pacing` says that nothing is sent behind a
block that is not served.  It is needed in `InBlock` only, where `CopySize` takes as many bytes as
the whole block has and would reach into a next request; without it
`session_overshoot` is the counterexample.  The step of the refinement then follows branch by branch:
a branch that serves a request appends the outcome `Disposition` gives, any other is a
stutter, and a slot that changes hands starts an empty connection whatever its fields hold.

`NwaServerProofs` extends this to the clients of the whole server that pace themselves, for any
number of slots and descriptors, any `Paceable` requests of theirs without an empty block, and whatever
the other clients send:

| theorem | property |
|---|---|
| `NoReadMisplaced` | `UnreadIsUnserved` |
| `ServerImplementsConnections` | `EveryConnectionOrderly` |

The outcome of a single request is the business of `SessionImplementsConnection`; here the question
is whether the loop mixes connections up.
Each step of `NwaServer` is a step of `PollServer`, so the invariant of `PollServerProofs` holds;
`ServerInv` adds that a descriptor without a connection has nothing unread
(`NothingLeftUnread`) and, outside the scan, no requests (`NothingKept`).  Inside the scan a
client that broke the protocol is out of the tables with requests still on record,
until the scan ends; accepting comes after that, which is what makes the next
connection on the descriptor start empty.

`NwaClientProofs` proves, for every set of replies, every capacity of the connection and of the
`BufReader`, and any number of commands,

| theorem | property |
|---|---|
| `TypeCorrect` | `TypeOK` |
| `InStepHolds` | `InStep` |
| `SimpleRepliesAsMeant` | `SimpleAsMeant` |

A reply is one word of bytes (`Word`), which its writes cut into pieces (`Pieces`).
`Carried` says that the writes still to be made, what is under way and what
`read_stream` holds are consecutive stretches of that word, and `Place` where in it the client
is: before it, behind a number of lines with the map they make, behind its first byte, behind its
size.  Hence a line that is not whole cannot be the end of the reply, the
client returns from an ascii reply exactly at the last byte, and what it throws away with
`read_stream` is nothing (`NothingBehind`), so the next reply finds a clean connection (`Clean`).
For a binary reply the same needs `Whole`: no piece has ended inside the size or the
data, which is what `broken` records.  A command is served only when the reply before it
is read to its end, by the count in `TypeInv`: commands without a result are the one
the client waits for.  In a reply without a repeated key every line is the last of its key, and none
panics when none is too long: there `AsRead` is `Meaning` (`SimpleTaken`), whence `SimpleRepliesAsMeant`.

`DummyEmulatorProofs` proves, for every finite set of clients, every set of memories, reads and
writes with sizes up to a bound `MaxSize` (empty ones, sizes in hexadecimal and several ranges
included), and every length of the supposed header,

| theorem | property |
|---|---|
| `TypeCorrect` | `TypeOK` |
| `WritesStayInRange` | `WriteStaysInRequest` |
| `WritesFindTarget` | `ApartHasTarget` |
| `OnlyFaultsKill` | `CrashForCause` |
| `SecondWriteFinishes` | `SecondWriteAnswered` |

One idea carries it: of the writes that wait for their block at most one has had nobody
in between, and the globals are that one's (`ApartIsSet`).  `TypeOK` bounds `size_written`, which
a command resets and blocks only add to; `RoomForBlocks` makes that inductive: every client
that waits may still add one block.

Assumptions on constants that go beyond types: finite sets where a proof counts (clients,
emulators, nodes), the size of a reply's data below what two digits say, two lines in an
error, texts and numbers apart (`LinesAssumption`), `Paceable` for `Regular` and the `Requests` of
`NwaServer`, what `atoi` makes of a size (`RequestsAssumption` of `DummyEmulator`), and for a line
no separator in the name (`NameAssumption`), no semicolon or newline in a text
(`TextsAssumption`: the protocol has no way to quote them) and `CommandMax < ArgMax`.
TLC evaluates each of them in the runs.

Model-checked only:

* everything under fairness, which is out of the prover's reach: `StopHonoured`,
  `GoneClientDropped`, `AcceptQueueServed`, `EveryRequestServed`, `PacedReadReturns`,
  `EveryReplyRead`, and the refinement with fairness, `ImplementsFairConnection`;
* what `get_offset` computes; the theorems about the list take its values as they are.

## Where the code and its documents disagree

1. `poll_leak`: a client that hangs up, closes or fails to read is dropped, the
   server says "Disconnecting client", and the socket is never closed.
   After enough of them `accept` fails and with it the server.
2. `session_overshoot`: the copy of block data is limited by the size of the whole
   block instead of what is missing, so a block cut over two reads, with the next
   request behind it, is filled beyond its buffer.
3. `session_stale`: a refused unknown command with a block leaves the previous
   `current_command` in place, even another client's; if it was `bCORE_WRITE`
   the block is written.
4. `dummy_unanswered`: `write_to_memory` still expects a header the event loop has
   removed, so the first write is four bytes short and gets no reply.  Neither does a later one
   whose size is in hexadecimal, as one of the validator's is, since `atoi` makes 0 of it.
5. `client_cut`: `get_reply` reads the size and the data of a binary reply with one `read`
   each and ignores how much came.  What is missing is left as zeros and then taken for
   the next reply.  With data longer than the 8 KiB of the `BufReader` this takes
   no delay on the way: the reader has then always got part of them with the size, unless
   the size came alone.

What else goes wrong has no run of its own; the models have it, and the properties name it
as an exception:

6. The block of an accepted custom command, or of an unknown one, is never finished
   with unless `current_command` happens to be `bCORE_WRITE` (G:342), and the session stays inside it.  If the block is
   empty and a byte follows it, `preprocess_data` never returns (G:437-497): the one thread serves
   nobody any more, and the stop flag is not looked at.  (`ScanSpins`; `pc = "spinning"` in the
   liveness properties of `PollServer` and `NwaServer`; `Paceable`.)
7. An empty block of a `bCORE_WRITE` is finished only when another byte arrives.
   (`NoRequestLeftBehind`, `Due` of `NwaConnection`.)
8. `get_reply` does not return from a binary reply without data until more arrives
   or the connection ends, since a read of no bytes still fills an empty `BufReader` (V `nwa.rs:136`);
   Draft-v4:101 says "A binary reply ends when the size is reached".  The dummy sends such a reply to a `CORE_READ` with a size
   in hexadecimal (D:276).  (`EveryReplyRead`.)
9. Of a list, with keys that repeat, `get_reply` keeps the last line of each key (V `nwa.rs:101`);
   Draft-v4:129 says that "Whenever a duplicate key is received this means the reply is a list".  And it panics
   at a key of more than 100 or a value of more than 1024 bytes (V `nwa.rs:82-99`), where
   Draft-v4:125 says "Values are arbitrary strings".  (`AsRead` against `Meaning`; `Simple`.)
10. A write of several ranges goes whole behind the first offset and is not answered (D:350-353),
   though the validator sends one and expects an Ok (V `main.rs:284-289`).
   (`WriteStaysInRequest`, `SecondWriteAnswered`.)
11. A write command of another client between the command and the block of a write redirects the block;
   the comment at D:292 suspects it.  (`disturbed`, `apart`.)

Disagreement 2 is why the properties of `session` speak of clients that do not pipeline
behind a block (`InPace`), and 3 and 6 are why their requests are `Paceable`, which excludes
accepted commands with a block other than `bCORE_WRITE` and unknown ones with any; in the
runs of 2 and 3 `Regular` is empty and every client does as it likes.  Disagreement 5 is why
`InStep` and `SimpleAsMeant` speak of runs in which no binary reply was cut.

## Not modelled

* The checks of the validator and its report; `connect`, `reconnected`, `is_connected` and
  `close` of its client, single calls of the standard library.
* The contents of the files and memories; `prep_memory` and the savestate reader
  appear as the set of memories they leave.
* `generic_poll_server_add_callback`: callbacks are set before the start and do not change;
  a host without them is a host that does not look.
* Failures of `socket` and `setsockopt` (before any port matters; `StartFails`), `SIGPIPE`,
  and a TCP reset that destroys an answer on its way after `close`.
* The Windows branches, logging, and the commented-out clock.

## Plan

Done: `PollServer`, `ClientSession` against `NwaConnection`, `NwaServer`, `CommandLine` and
`MemoryArgument`, `ServerStart`, `NwaClient` and `DummyEmulator`, and proofs for each of them
(those of `CommandLine` are in `MemoryArgumentProofs`); every safety property of the passing
runs is a theorem.  What could be added, in this order:

1. For `DummyEmulator`, what becomes of a write that somebody did come between.
2. The finer parts of `ClientSession` that its symbols hide: a cut inside a name or inside
   the four bytes of a size.
3. What `get_offset` computes, by the same induction as `Split`.
