------------------------------ MODULE NwaClient ------------------------------
(***************************************************************************)
(* A reply on its way from the emulator to NWASyncClient: the write()      *)
(* calls of the emulator's reply functions, a TCP stream that delivers     *)
(* them in pieces of any size, and get_reply, which reads them through a   *)
(* BufReader of its own and drops it with what it has read ahead.          *)
(*                                                                         *)
(* Data abstraction: a byte is Zero, Newline or some other; the text of a  *)
(* "key:value" line is one element, which counts as a byte.  A size takes  *)
(* two bytes to the base of Base instead of four.  Which command is sent,  *)
(* and the block it may come with, do not matter to the reply.             *)
(***************************************************************************)
EXTENDS Naturals, Sequences

CONSTANTS
    Lines,       \* "key:value" texts, model values
    KeyOf,       \* the key of each, a function
    Long,        \* the lines that overflow the arrays of get_reply
    Junk,        \* the text of any other line with a colon
    Replies,     \* what the emulator may reply: [kind, lines, data]
    ReadAhead,   \* capacity of the BufReader; 8 KiB in the library
    SendBuffer,  \* what the connection holds between the two
    MaxCommands  \* bound: commands of the client

Zero == 0
Newline == 2
Base == 3
Bytes == 0 .. Base - 1
HeaderSize == 2
Stream == Bytes \cup Lines

ASSUME LinesAssumption == Long \subseteq Lines /\ Junk \notin Lines /\ Lines \cap Nat = {}
ASSUME RepliesAssumption ==
    \A r \in Replies : /\ r.kind \in {"hash", "error", "binary"}
                       /\ r.lines \in Seq(Lines) /\ r.data \in Seq(Bytes)
                       /\ Len(r.data) < Base * Base
                       /\ r.kind = "error" => Len(r.lines) = 2    \* error and reason
ASSUME SizesAssumption ==
    ReadAhead \in Nat \ {0} /\ SendBuffer \in Nat \ {0} /\ MaxCommands \in Nat

VARIABLES
    requests,  \* commands the emulator has not read yet
    todo,      \* the write() calls its handler has still to make
    wire,      \* written and not read
    closed,    \* the emulator has closed the connection, or died
    pc,        \* where the client is in get_reply
    buf,       \* the contents of read_stream, with the line read so far
    map, size, \* of the reply being read
    results,   \* history: what get_reply returned
    served,    \* history: the replies the emulator made
    off,       \* history: bytes of the last of them that read_stream took
    broken     \* history: a reply was cut where get_reply cannot take it, or is not whole

clientVars == <<pc, buf, map, size, results>>
serverVars == <<requests, todo, served>>
vars == <<serverVars, wire, closed, clientVars, off, broken>>

TypeOK ==
    /\ requests \in 0 .. MaxCommands
    /\ todo \in Seq(Seq(Stream))
    /\ wire \in Seq(Stream) /\ Len(wire) <= SendBuffer
    /\ closed \in BOOLEAN /\ broken \in BOOLEAN
    /\ pc \in {"idle", "first", "line", "header", "data", "ended"}
    /\ buf \in Seq(Stream)
    /\ map \subseteq Lines \cup {Junk}
    /\ \A k, l \in map : KeyOf[k] = KeyOf[l] => k = l
    /\ size \in 0 .. Base * Base - 1
    /\ Len(results) <= MaxCommands /\ Len(served) <= MaxCommands
    /\ off \in Nat

Init ==
    /\ requests = 0 /\ todo = <<>> /\ wire = <<>> /\ closed = FALSE
    /\ pc = "idle" /\ buf = <<>> /\ map = {} /\ size = 0
    /\ results = <<>> /\ served = <<>> /\ off = 0 /\ broken = FALSE

Least(m, n) == IF m < n THEN m ELSE n
First(s, n) == SubSeq(s, 1, Least(n, Len(s)))
Rest(s, n)  == SubSeq(s, n + 1, Len(s))

-----------------------------------------------------------------------------
(* The emulator                                                            *)

StartHash == <<Newline>>

Mut_EndHash == <<>>                        \* mutant: the empty line at the end is left out
EndHash == <<Newline>>

\* One write() for the start, one for each line, one for the end.
HashReply(lines) ==
    <<StartHash>> \o [i \in 1 .. Len(lines) |-> <<lines[i], Newline>>] \o <<EndHash>>

\* Its error and its reason, in one write().
ErrorReply(lines) == <<StartHash \o <<lines[1], Newline, lines[2], Newline>> \o EndHash>>

BinaryBlock(data) == <<<<Zero>>, <<Len(data) \div Base, Len(data) % Base>>, data>>

Writes(r) ==
    CASE r.kind = "hash"   -> HashReply(r.lines)
      [] r.kind = "error"  -> ErrorReply(r.lines)
      [] r.kind = "binary" -> BinaryBlock(r.data)

Execute ==
    /\ ~closed /\ requests > 0 /\ todo = <<>>
    /\ requests' = requests - 1
    /\ \E r \in Replies : todo' = Writes(r) /\ served' = Append(served, r)
    /\ off' = 0
    /\ UNCHANGED <<wire, closed, clientVars, broken>>

\* The socket does not block and nobody looks at the result: what finds no room in
\* the connection is gone.
Write ==
    /\ todo # <<>>
    /\ LET room == SendBuffer - Len(wire) IN
         /\ wire' = wire \o First(Head(todo), room)
         /\ broken' = (broken \/ Len(Head(todo)) > room)
    /\ todo' = Tail(todo)
    /\ UNCHANGED <<requests, served, closed, clientVars, off>>

\* The emulator ends the connection, in the middle of a reply only when it dies.
Close ==
    /\ ~closed
    /\ closed' = TRUE
    /\ broken' = (broken \/ todo # <<>>)
    /\ todo' = <<>>
    /\ UNCHANGED <<requests, served, wire, clientVars, off>>

-----------------------------------------------------------------------------
(* The client: execute_command, then get_reply                             *)

execute_command ==
    /\ pc = "idle" /\ Len(results) < MaxCommands
    /\ pc' = "first"
    /\ requests' = requests + 1
    /\ UNCHANGED <<todo, served, wire, closed, buf, map, size, results, off, broken>>

\* What read_stream is asked for next, and needs the connection for: with nothing left
\* of what it has read ahead it reads, even into an array for no data.
NeedsMore ==
    \/ pc \in {"first", "header", "data"} /\ buf = <<>>
    \/ pc = "line" /\ \A i \in DOMAIN buf : buf[i] # Newline

AtEnd == wire = <<>> /\ closed

\* A read as long as the BufReader goes past it.
MostRead == IF pc = "data" /\ size >= ReadAhead THEN size ELSE ReadAhead

\* A piece of a binary reply that ends inside the size or inside the data.
Cuts(r, n) ==
    r.kind = "binary" /\ n \notin {1, 1 + HeaderSize, 1 + HeaderSize + Len(r.data)}

Fill ==
    /\ NeedsMore
    /\ \E n \in 1 .. Least(Len(wire), MostRead) :
         /\ buf' = buf \o First(wire, n)
         /\ wire' = Rest(wire, n)
         /\ off' = off + n
         /\ broken' = (broken \/ Cuts(served[Len(served)], off + n))
    /\ UNCHANGED <<serverVars, closed, pc, map, size, results>>

Result(kind, m, data) == [kind |-> kind, map |-> m, data |-> data]

\* get_reply returns, and read_stream goes with what is left in it.  The caller
\* gives up on an error.
Return(r) ==
    /\ results' = Append(results, r)
    /\ pc' = IF r.kind \in {"ascii", "binary"} THEN "idle" ELSE "ended"
    /\ buf' = <<>> /\ map' = {} /\ size' = 0

FirstByte ==
    /\ pc = "first"
    /\ \/ NeedsMore /\ AtEnd /\ Return(Result("aborted", {}, <<>>))
       \/ /\ ~NeedsMore /\ buf[1] \in {Newline, Zero}
          /\ pc' = IF buf[1] = Newline THEN "line" ELSE "header"
          /\ buf' = Tail(buf)
          /\ UNCHANGED <<map, size, results>>
       \/ ~NeedsMore /\ buf[1] \notin {Newline, Zero} /\ Return(Result("invalid", {}, <<>>))
    /\ UNCHANGED <<serverVars, wire, closed, off, broken>>

Entry(line) == IF Len(line) = 1 THEN line[1] ELSE Junk

Mut_insert(l) == map \cup {l}                              \* mutant: a key is kept twice
insert(l) == {k \in map : KeyOf[k] # KeyOf[l]} \cup {l}

\* The first line of buf is whole, or the connection ends before it is: the index
\* that looks for its end runs out of the line.
ReadLine ==
    /\ pc = "line"
    /\ \/ NeedsMore /\ AtEnd /\ Return(Result("panic", {}, <<>>))
       \/ /\ ~NeedsMore
          /\ \E k \in DOMAIN buf :
               LET line == First(buf, k - 1) IN
               /\ buf[k] = Newline /\ \A j \in 1 .. k - 1 : buf[j] # Newline
               /\ \/ k = 1 /\ Return(Result("ascii", map, <<>>))
                  \/ /\ k > 1 /\ \E j \in DOMAIN line : line[j] \in Lines \ Long
                     /\ map' = insert(Entry(line))
                     /\ buf' = Rest(buf, k)
                     /\ UNCHANGED <<pc, size, results>>
                  \/ /\ \E j \in DOMAIN line : line[j] \in Long
                     /\ Return(Result("panic", {}, <<>>))
                  \/ /\ k > 1 /\ \A j \in DOMAIN line : line[j] \notin Lines
                     /\ Return(Result("malformed", {}, <<>>))
    /\ UNCHANGED <<serverVars, wire, closed, off, broken>>

\* What one read() leaves in an array of n zeros: the read is not repeated when it
\* brings less, nor when it brings nothing.
ReadInto(n) == [i \in 1 .. n |-> IF i <= Len(buf) THEN buf[i] ELSE Zero]

ByteOf(x) == IF x \in Lines THEN 1 ELSE x

Mut_SizeOf(header) == ByteOf(header[2]) * Base + ByteOf(header[1])    \* mutant: last byte first
SizeOf(header) == ByteOf(header[1]) * Base + ByteOf(header[2])

ReadSize ==
    /\ pc = "header" /\ (NeedsMore => AtEnd)
    /\ size' = SizeOf(ReadInto(HeaderSize))
    /\ buf' = Rest(buf, HeaderSize)
    /\ pc' = "data"
    /\ UNCHANGED <<serverVars, wire, closed, map, results, off, broken>>

ReadData ==
    /\ pc = "data" /\ (NeedsMore => AtEnd)
    /\ Return(Result("binary", {}, ReadInto(size)))
    /\ UNCHANGED <<serverVars, wire, closed, off, broken>>

Read == Fill \/ FirstByte \/ ReadLine \/ ReadSize \/ ReadData

Next == execute_command \/ Execute \/ Write \/ Close \/ Read

Spec == Init /\ [][Next]_vars

\* The emulator and the client both go on once they have something to do.
FairSpec == Spec /\ WF_vars(Execute) /\ WF_vars(Write) /\ WF_vars(Read)

-----------------------------------------------------------------------------
(* Properties                                                              *)

\* What a reply says by the draft: all its lines, of which those with a key that has
\* come before start a new item of a list, or its data.
Meaning(r) ==
    IF r.kind = "binary" THEN Result("binary", {}, r.data)
                         ELSE Result("ascii", {r.lines[i] : i \in DOMAIN r.lines}, <<>>)

\* What get_reply makes of it when it has all of it: the last line of each key, and
\* nothing at all when a line is too long for its arrays.
AsRead(r) ==
    LET n == Len(r.lines)
        last == {i \in 1 .. n : \A j \in i + 1 .. n : KeyOf[r.lines[j]] # KeyOf[r.lines[i]]}
    IN  IF r.kind = "binary" THEN Result("binary", {}, r.data)
        ELSE IF \E i \in 1 .. n : r.lines[i] \in Long THEN Result("panic", {}, <<>>)
        ELSE Result("ascii", {r.lines[i] : i \in last}, <<>>)

\* However TCP cuts the stream, get_reply returns what it makes of the whole reply,
\* the n-th of the emulator to the n-th command, and notices a connection closed
\* between two: a piece of an ascii reply may end anywhere, one of a binary reply
\* before and after its size.
InStep ==
    ~broken => \A n \in DOMAIN results :
                  results[n] = IF n <= Len(served) THEN AsRead(served[n])
                                                   ELSE Result("aborted", {}, <<>>)

\* No key comes twice in it and no line is too long for get_reply.
Simple(r) ==
    \A i, j \in DOMAIN r.lines : /\ r.lines[i] \notin Long
                                 /\ KeyOf[r.lines[i]] = KeyOf[r.lines[j]] => i = j

\* The caller of such a command gets what the emulator said, not what is left of an
\* earlier reply, and none of it is missing.
SimpleAsMeant ==
    ~broken => \A n \in DOMAIN results \cap DOMAIN served :
                  Simple(served[n]) => results[n] = Meaning(served[n])

\* As long as no reply is cut or lost, get_reply returns from every one but a binary
\* reply without data, whose last read it does not come back from.
EveryReplyRead ==
    pc \notin {"idle", "ended"}
       ~> pc \in {"idle", "ended"} \/ broken \/ (pc = "data" /\ size = 0 /\ buf = <<>>)

\* "A binary reply ends when the size is reached": get_reply returns it whole.
BinaryEndsAtSize ==
    ~closed => \A n \in DOMAIN results \cap DOMAIN served :
                  served[n].kind = "binary" => results[n] = Meaning(served[n])

=============================================================================
