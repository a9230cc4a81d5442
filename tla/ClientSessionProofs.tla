------------------------ MODULE ClientSessionProofs ------------------------
(***************************************************************************)
(* What holds of a slot of clients[] whatever its clients send, for every  *)
(* set of requests and however the stream is cut.  The invariant is about  *)
(* what is left of the stream, read or not: a newline is behind each name  *)
(* and a size behind each zero byte, because requests are sent whole and   *)
(* the server takes symbols off the front only; so a line that is begun    *)
(* ends with the next symbol.                                              *)
(***************************************************************************)
EXTENDS ClientSession, SequenceTheorems, WellFoundedInduction, TLAPS

-----------------------------------------------------------------------------
(* The stream of a request                                                 *)

Symbols == [kind : {"name", "newline", "zero", "size", "data"}, of : Requests, n : Nat]

\* Where the block of a request begins in its stream, and how long the stream is.
TextLen(r)  == IF r.class = "none" THEN 0 ELSE 2
BlockLen(r) == IF r.block = NoBlock THEN 0 ELSE HeaderLen + r.block

\* The stream of a request, symbol by symbol.
LEMMA BytesFacts ==
    ASSUME NEW r \in Requests
    PROVE  /\ Bytes(r) \in Seq(Symbols)
           /\ Len(Bytes(r)) = TextLen(r) + BlockLen(r)
           /\ r.class # "none" => /\ Bytes(r)[1] = Sym("name", r, 0)
                                  /\ Bytes(r)[2] = Sym("newline", r, 0)
           /\ r.block # NoBlock => /\ Bytes(r)[TextLen(r) + 1] = Sym("zero", r, 0)
                                   /\ Bytes(r)[TextLen(r) + 2] = Sym("size", r, r.block)
                                   /\ \A j \in 1 .. r.block :
                                         Bytes(r)[TextLen(r) + 2 + j] = Sym("data", r, j)
<1> DEFINE text    == <<Sym("name", r, 0), Sym("newline", r, 0)>>
           zero    == <<Sym("zero", r, 0), Sym("size", r, r.block)>>
           payload == [j \in 1 .. r.block |-> Sym("data", r, j)]
           front   == IF r.class = "none" THEN <<>> ELSE text
           back    == IF r.block = NoBlock THEN <<>> ELSE zero \o payload
<1>1. Bytes(r) = front \o back
  BY DEF Bytes
<1>2. r.block \in Nat \cup {NoBlock}
  BY RequestsAssumption
<1>3. /\ Sym("name", r, 0) \in Symbols /\ Sym("newline", r, 0) \in Symbols
      /\ Sym("zero", r, 0) \in Symbols
      /\ \A j \in Nat : Sym("size", r, j) \in Symbols /\ Sym("data", r, j) \in Symbols
  BY DEF Symbols, Sym
<1>4. front \in Seq(Symbols) /\ Len(front) = TextLen(r)
  BY <1>3 DEF TextLen
<1>5. r.class # "none" => front[1] = Sym("name", r, 0) /\ front[2] = Sym("newline", r, 0)
  OBVIOUS
<1>6. back \in Seq(Symbols) /\ Len(back) = BlockLen(r)
  <2>1. CASE r.block = NoBlock
    BY <2>1 DEF BlockLen
  <2>2. CASE r.block # NoBlock
    <3>1. r.block \in Nat
      BY <1>2, <2>2
    <3>2. zero \in Seq(Symbols) /\ Len(zero) = 2
      BY <1>3, <3>1
    <3>3. payload \in Seq(Symbols) /\ Len(payload) = r.block
      BY <1>3, <3>1
    <3> HIDE DEF zero, payload
    <3>4. zero \o payload \in Seq(Symbols) /\ Len(zero \o payload) = Len(zero) + Len(payload)
      BY <3>2, <3>3, ConcatProperties
    <3> QED BY <2>2, <3>2, <3>3, <3>4 DEF BlockLen, HeaderLen
  <2> QED BY <2>1, <2>2
<1>7. ASSUME r.block # NoBlock
      PROVE  /\ back[1] = Sym("zero", r, 0) /\ back[2] = Sym("size", r, r.block)
             /\ \A j \in 1 .. r.block : back[2 + j] = Sym("data", r, j)
  <2>1. r.block \in Nat
    BY <1>2, <1>7
  <2>2. zero \in Seq(Symbols) /\ Len(zero) = 2 /\ zero[1] = Sym("zero", r, 0)
        /\ zero[2] = Sym("size", r, r.block)
    BY <1>3, <2>1
  <2>3. payload \in Seq(Symbols) /\ Len(payload) = r.block
        /\ \A j \in 1 .. r.block : payload[j] = Sym("data", r, j)
    BY <1>3, <2>1
  <2>4. back = zero \o payload
    BY <1>7
  <2> HIDE DEF zero, payload, back
  <2>5. \A j \in 1 .. 2 + r.block : back[j] = IF j <= 2 THEN zero[j] ELSE payload[j - 2]
    <3>1. \A j \in 1 .. Len(zero) + Len(payload) :
             (zero \o payload)[j] = IF j <= Len(zero) THEN zero[j] ELSE payload[j - Len(zero)]
      BY <2>2, <2>3, ConcatProperties
    <3> QED BY <2>2, <2>3, <2>4, <3>1
  <2>6. \A j \in 1 .. r.block : /\ 2 + j \in 1 .. 2 + r.block /\ ~(2 + j <= 2)
                                /\ (2 + j) - 2 = j
    BY <2>1
  <2>7. 1 \in 1 .. 2 + r.block /\ 2 \in 1 .. 2 + r.block
    BY <2>1
  <2> QED BY <2>2, <2>3, <2>5, <2>6, <2>7
<1> HIDE DEF front, back
<1>8. /\ Bytes(r) \in Seq(Symbols)
      /\ Len(Bytes(r)) = TextLen(r) + BlockLen(r)
      /\ \A j \in 1 .. TextLen(r) + BlockLen(r) :
            Bytes(r)[j] = IF j <= TextLen(r) THEN front[j] ELSE back[j - TextLen(r)]
  BY <1>1, <1>4, <1>6, ConcatProperties
<1>9. TextLen(r) \in {0, 2} /\ BlockLen(r) \in Nat
  BY <1>2 DEF TextLen, BlockLen, HeaderLen
<1>10. ASSUME r.class # "none"
       PROVE  Bytes(r)[1] = Sym("name", r, 0) /\ Bytes(r)[2] = Sym("newline", r, 0)
  <2>1. TextLen(r) = 2
    BY <1>10 DEF TextLen
  <2> QED BY <1>5, <1>8, <1>9, <1>10, <2>1
<1>11. ASSUME r.block # NoBlock, NEW j \in 1 .. 2 + r.block
       PROVE  Bytes(r)[TextLen(r) + j] = back[j]
  <2>1. r.block \in Nat /\ BlockLen(r) = 2 + r.block
    BY <1>2, <1>11 DEF BlockLen, HeaderLen
  <2>2. /\ TextLen(r) + j \in 1 .. TextLen(r) + BlockLen(r) /\ ~(TextLen(r) + j <= TextLen(r))
        /\ (TextLen(r) + j) - TextLen(r) = j
    BY <1>9, <2>1
  <2> QED BY <1>8, <2>2
<1>12. ASSUME r.block # NoBlock
       PROVE  /\ Bytes(r)[TextLen(r) + 1] = Sym("zero", r, 0)
              /\ Bytes(r)[TextLen(r) + 2] = Sym("size", r, r.block)
              /\ \A j \in 1 .. r.block : Bytes(r)[TextLen(r) + 2 + j] = Sym("data", r, j)
  <2>1. r.block \in Nat
    BY <1>2, <1>12
  <2>2. 1 \in 1 .. 2 + r.block /\ 2 \in 1 .. 2 + r.block
    BY <2>1
  <2>3. \A j \in 1 .. r.block : 2 + j \in 1 .. 2 + r.block /\ TextLen(r) + 2 + j = TextLen(r) + (2 + j)
    BY <1>9, <2>1
  <2> QED BY <1>7, <1>11, <1>12, <2>2, <2>3
<1> QED BY <1>8, <1>10, <1>12

\* The first d members of a sequence.
LEMMA PrefixFacts ==
    ASSUME NEW s \in Seq(Symbols), NEW d \in 0 .. Len(s)
    PROVE  /\ SubSeq(s, 1, d) \in Seq(Symbols) /\ Len(SubSeq(s, 1, d)) = d
           /\ \A j \in 1 .. d : SubSeq(s, 1, d)[j] = s[j]
<1>1. PICK r : r = SubSeq(s, 1, d)
  OBVIOUS
<1>2. d \in Int /\ 1 \in Int /\ Len(s) \in Nat /\ \A j \in 1 .. d : j \in 1 .. Len(s)
  OBVIOUS
<1>3. \A j \in 1 .. d : s[j] \in Symbols
  <2>1. \A j \in 1 .. Len(s) : s[j] \in Symbols
    OBVIOUS
  <2> QED BY <1>2, <2>1
<1>4. /\ r \in Seq(Symbols)
      /\ Len(r) = IF 1 <= d THEN d - 1 + 1 ELSE 0
      /\ \A j \in 1 .. d - 1 + 1 : r[j] = s[1 + j - 1]
  BY <1>1, <1>2, <1>3, SubSeqProperties
<1>5. d - 1 + 1 = d /\ (~(1 <= d) => d = 0) /\ \A j \in 1 .. d : 1 + j - 1 = j
  BY <1>2
<1> QED BY <1>1, <1>4, <1>5

\* The smaller of two numbers, as Min of FiniteSetsExt has it.
LEMMA MinFacts ==
    ASSUME NEW a \in Nat, NEW b \in Nat
    PROVE  Min({a, b}) = IF a <= b THEN a ELSE b
<1>1. PICK m \in {a, b} : \A y \in {a, b} : m <= y
  <2>1. CASE a <= b
    BY <2>1
  <2>2. CASE ~(a <= b)
    BY <2>2
  <2> QED BY <2>1, <2>2
<1>2. Min({a, b}) \in {a, b} /\ \A y \in {a, b} : Min({a, b}) <= y
  BY <1>1 DEF Min
<1>3. PICK n : n = Min({a, b})
  OBVIOUS
<1> QED BY <1>2, <1>3

-----------------------------------------------------------------------------
(* What is left to process                                                 *)

Stream == chunk \o wire

StreamType == chunk \in Seq(Symbols) /\ wire \in Seq(Symbols)

\* What is left is the chunk, then the wire.
LEMMA StreamFacts ==
    ASSUME StreamType
    PROVE  /\ Stream \in Seq(Symbols)
           /\ Len(Stream) \in Nat /\ Len(chunk) \in Nat /\ Len(wire) \in Nat
           /\ Len(Stream) = Len(chunk) + Len(wire)
           /\ \A j \in 1 .. Len(chunk) : Stream[j] = chunk[j]
           /\ \A j \in 1 .. Len(wire) : Stream[Len(chunk) + j] = wire[j]
           /\ \A j \in 1 .. Len(Stream) : Stream[j] \in Symbols
           /\ chunk # <<>> => Len(chunk) > 0 /\ Head(chunk) = chunk[1] /\ chunk[1] \in Symbols
<1>1. /\ Stream \in Seq(Symbols) /\ Len(Stream) = Len(chunk) + Len(wire)
      /\ \A j \in 1 .. Len(chunk) + Len(wire) :
            Stream[j] = IF j <= Len(chunk) THEN chunk[j] ELSE wire[j - Len(chunk)]
  BY ConcatProperties DEF StreamType, Stream
<1>2. Len(chunk) \in Nat /\ Len(wire) \in Nat
  BY DEF StreamType
<1>3. chunk # <<>> => Len(chunk) > 0 /\ Head(chunk) = chunk[1] /\ chunk[1] \in Symbols
  BY DEF StreamType
<1>4. \A j \in 1 .. Len(chunk) : Stream[j] = chunk[j]
  BY <1>1, <1>2
<1>5. ASSUME NEW j \in 1 .. Len(wire) PROVE Stream[Len(chunk) + j] = wire[j]
  <2>1. /\ Len(chunk) + j \in 1 .. Len(chunk) + Len(wire) /\ ~(Len(chunk) + j <= Len(chunk))
        /\ (Len(chunk) + j) - Len(chunk) = j
    BY <1>2
  <2> QED BY <1>1, <2>1
<1>6. \A j \in 1 .. Len(Stream) : Stream[j] \in Symbols
  BY <1>1
<1> QED BY <1>1, <1>2, <1>3, <1>4, <1>5, <1>6

\* Consuming symbols takes them off the front.
LEMMA ConsumeStream ==
    ASSUME StreamType, NEW d \in 0 .. Len(chunk), Consume(d)
    PROVE  /\ StreamType'
           /\ Len(chunk') = Len(chunk) - d
           /\ Len(Stream') = Len(Stream) - d
           /\ \A j \in 1 .. Len(Stream) - d : Stream'[j] = Stream[j + d]
<1>1. Len(chunk) \in Nat /\ chunk' = SubSeq(chunk, d + 1, Len(chunk)) /\ wire' = wire
  BY DEF StreamType, Consume, connVars
<1>2. /\ chunk' \in Seq(Symbols)
      /\ Len(chunk') = Len(chunk) - d
      /\ \A j \in 1 .. Len(chunk) - d : chunk'[j] = chunk[j + d]
  <2>1. \A j \in d + 1 .. Len(chunk) : chunk[j] \in Symbols
    BY <1>1 DEF StreamType
  <2>2. /\ chunk' \in Seq(Symbols)
        /\ Len(chunk') = IF d + 1 <= Len(chunk) THEN Len(chunk) - (d + 1) + 1 ELSE 0
        /\ \A j \in 1 .. Len(chunk) - (d + 1) + 1 : chunk'[j] = chunk[(d + 1) + j - 1]
    BY <1>1, <2>1, SubSeqProperties
  <2>3. Len(chunk) - (d + 1) + 1 = Len(chunk) - d
    BY <1>1
  <2>4. \A j \in 1 .. Len(chunk) - d : (d + 1) + j - 1 = j + d
    BY <1>1
  <2>5. Len(chunk') = Len(chunk) - d
    BY <1>1, <2>2
  <2>6. \A j \in 1 .. Len(chunk) - d : chunk'[j] = chunk[j + d]
    BY <2>2, <2>3, <2>4
  <2> QED BY <2>2, <2>5, <2>6
<1>3. StreamType'
  BY <1>1, <1>2 DEF StreamType
<1>4. /\ Len(Stream') = Len(chunk') + Len(wire')
      /\ \A j \in 1 .. Len(chunk') + Len(wire') :
            Stream'[j] = IF j <= Len(chunk') THEN chunk'[j] ELSE wire'[j - Len(chunk')]
  BY <1>3, ConcatProperties DEF StreamType, Stream
<1>5. /\ Len(wire) \in Nat /\ Len(Stream) = Len(chunk) + Len(wire)
      /\ \A j \in 1 .. Len(chunk) : Stream[j] = chunk[j]
      /\ \A j \in 1 .. Len(wire) : Stream[Len(chunk) + j] = wire[j]
  BY StreamFacts
<1>6. Len(Stream') = Len(Stream) - d
  BY <1>1, <1>2, <1>4, <1>5
<1>7. ASSUME NEW j \in 1 .. Len(Stream) - d PROVE Stream'[j] = Stream[j + d]
  <2>1. CASE j <= Len(chunk')
    <3>1. j \in 1 .. Len(chunk) - d /\ j + d \in 1 .. Len(chunk) /\ j \in 1 .. Len(chunk') + Len(wire')
      BY <1>1, <1>2, <1>5, <2>1
    <3> QED BY <1>2, <1>4, <1>5, <2>1, <3>1
  <2>2. CASE ~(j <= Len(chunk'))
    <3>1. PICK m : m = j - Len(chunk')
      OBVIOUS
    <3>2. m \in 1 .. Len(wire) /\ Len(chunk) + m = j + d /\ j \in 1 .. Len(chunk') + Len(wire')
      BY <1>1, <1>2, <1>5, <2>2, <3>1
    <3>3. Stream'[j] = wire[m]
      BY <1>1, <1>4, <2>2, <3>1, <3>2
    <3>4. Stream[j + d] = wire[m]
      BY <1>5, <3>2
    <3> QED BY <3>3, <3>4
  <2> QED BY <2>1, <2>2
<1> QED BY <1>2, <1>3, <1>6, <1>7

\* Reading moves symbols from the wire to the chunk.
LEMMA ReadStream ==
    ASSUME StreamType, read_client_data
    PROVE  /\ StreamType'
           /\ Len(chunk') \in 0 .. ReadMax
           /\ Stream' = Stream
<1>1. PICK k \in 1 .. Min({Len(wire), ReadMax}) :
         chunk' = SubSeq(wire, 1, k) /\ wire' = SubSeq(wire, k + 1, Len(wire))
  BY DEF read_client_data
<1>2. Len(wire) \in Nat /\ ReadMax \in Nat /\ chunk = <<>>
  BY ReadMaxAssumption DEF StreamType, read_client_data
<1>3. Min({Len(wire), ReadMax}) \in Nat
      /\ Min({Len(wire), ReadMax}) <= Len(wire) /\ Min({Len(wire), ReadMax}) <= ReadMax
  <2>1. PICK m : m = Min({Len(wire), ReadMax})
    OBVIOUS
  <2>2. m = IF Len(wire) <= ReadMax THEN Len(wire) ELSE ReadMax
    BY <1>2, <2>1, MinFacts
  <2> QED BY <1>2, <2>1, <2>2
<1>4. k \in Nat /\ 1 <= k /\ k <= Len(wire) /\ k <= ReadMax
  <2>1. PICK m \in Nat : m = Min({Len(wire), ReadMax})
    BY <1>3
  <2>2. k \in 1 .. m /\ m <= Len(wire) /\ m <= ReadMax
    BY <1>1, <1>3, <2>1
  <2> QED BY <1>2, <2>2
<1>5. wire = SubSeq(wire, 1, k) \o SubSeq(wire, k + 1, Len(wire))
  <2>1. SubSeq(wire, 1, Len(wire)) = wire
    BY SubSeqFull DEF StreamType
  <2>2. k \in 1 - 1 .. Len(wire) /\ Len(wire) \in k .. Len(wire) /\ 1 \in 1 .. Len(wire) + 1
    BY <1>2, <1>4
  <2>3. SubSeq(wire, 1, k) \o SubSeq(wire, k + 1, Len(wire)) = SubSeq(wire, 1, Len(wire))
    BY <2>2, ConcatAdjacentSubSeq DEF StreamType
  <2> QED BY <2>1, <2>3
<1>6. StreamType' /\ Len(chunk') = k
  <2>1. /\ \A j \in 1 .. k : wire[j] \in Symbols
        /\ \A j \in k + 1 .. Len(wire) : wire[j] \in Symbols
    BY <1>2, <1>4 DEF StreamType
  <2>2. chunk' \in Seq(Symbols) /\ Len(chunk') = IF 1 <= k THEN k - 1 + 1 ELSE 0
    BY <1>1, <1>4, <2>1, SubSeqProperties
  <2>3. wire' \in Seq(Symbols)
    BY <1>1, <1>2, <1>4, <2>1, SubSeqProperties
  <2> QED BY <1>4, <2>2, <2>3 DEF StreamType
<1>7. Stream' = wire /\ Stream = wire
  BY <1>1, <1>2, <1>5, ConcatEmptySeq DEF StreamType, Stream
<1> QED BY <1>2, <1>4, <1>6, <1>7

\* Sending appends a request.
LEMMA SendStream ==
    ASSUME StreamType, NEW r \in Requests, wire' = wire \o Bytes(r), chunk' = chunk
    PROVE  StreamType' /\ Stream' = Stream \o Bytes(r)
<1>1. Bytes(r) \in Seq(Symbols)
  BY BytesFacts
<1>2. wire' \in Seq(Symbols)
  BY <1>1, ConcatProperties DEF StreamType
<1>3. (chunk \o wire) \o Bytes(r) = chunk \o (wire \o Bytes(r))
  BY <1>1, ConcatAssociative DEF StreamType
<1> QED BY <1>2, <1>3 DEF StreamType, Stream

\* A newline follows each name and a size each zero byte.
Follows(s) ==
    \A j \in 1 .. Len(s) :
       /\ s[j].kind = "name" => j < Len(s) /\ s[j + 1].kind = "newline"
       /\ s[j].kind = "zero" => j < Len(s) /\ s[j + 1].kind = "size"

\* Requests are sent whole.
LEMMA BytesFollow == ASSUME NEW r \in Requests PROVE Follows(Bytes(r))
<1>1. /\ Len(Bytes(r)) = TextLen(r) + BlockLen(r)
      /\ r.class # "none" => /\ Bytes(r)[1] = Sym("name", r, 0)
                             /\ Bytes(r)[2] = Sym("newline", r, 0)
      /\ r.block # NoBlock => /\ Bytes(r)[TextLen(r) + 1] = Sym("zero", r, 0)
                              /\ Bytes(r)[TextLen(r) + 2] = Sym("size", r, r.block)
                              /\ \A j \in 1 .. r.block :
                                    Bytes(r)[TextLen(r) + 2 + j] = Sym("data", r, j)
  BY BytesFacts
<1>2. PICK b, t : b = Bytes(r) /\ t = TextLen(r)
  OBVIOUS
<1>3. r.block \in Nat \cup {NoBlock}
  BY RequestsAssumption
<1>4. t = IF r.class = "none" THEN 0 ELSE 2
  BY <1>2 DEF TextLen
<1>5. Len(b) = t + BlockLen(r)
  BY <1>1, <1>2
<1>6. r.block # NoBlock => r.block \in Nat /\ BlockLen(r) = 2 + r.block
  BY <1>3 DEF BlockLen, HeaderLen
<1>7. r.block = NoBlock => BlockLen(r) = 0
  BY DEF BlockLen
<1>8. t = 2 => b[1].kind = "name" /\ b[2].kind = "newline"
  BY <1>1, <1>2, <1>4 DEF Sym
<1>9. r.block # NoBlock => /\ b[t + 1].kind = "zero" /\ b[t + 2].kind = "size"
                           /\ \A j \in 1 .. r.block : b[t + 2 + j].kind = "data"
  <2>1. \A kind, n : Sym(kind, r, n).kind = kind
    BY DEF Sym
  <2>2. r.block # NoBlock => /\ b[t + 1] = Sym("zero", r, 0) /\ b[t + 2] = Sym("size", r, r.block)
                             /\ \A j \in 1 .. r.block : b[t + 2 + j] = Sym("data", r, j)
    BY <1>1, <1>2
  <2> QED BY <2>1, <2>2
<1> SUFFICES ASSUME NEW j \in 1 .. Len(b)
             PROVE  /\ b[j].kind = "name" => j < Len(b) /\ b[j + 1].kind = "newline"
                    /\ b[j].kind = "zero" => j < Len(b) /\ b[j + 1].kind = "size"
  BY <1>2 DEF Follows
<1>10. CASE j <= t
  <2>1. t = 2 /\ (j = 1 \/ j = 2) /\ Len(b) >= 2
    BY <1>3, <1>4, <1>5, <1>6, <1>7, <1>10
  <2> QED BY <1>8, <2>1
<1>11. CASE j > t
  <2>1. r.block \in Nat /\ Len(b) = t + 2 + r.block /\ r.block # NoBlock
    BY <1>3, <1>4, <1>5, <1>6, <1>7, <1>11
  <2>2. CASE j = t + 1 \/ j = t + 2
    <3>1. (t + 1) + 1 = t + 2 /\ t + 1 < Len(b)
      BY <1>4, <2>1
    <3> QED BY <1>9, <2>1, <2>2, <3>1
  <2>3. CASE j > t + 2
    <3>1. PICK m \in 1 .. r.block : j = t + 2 + m
      <4>1. j - (t + 2) \in 1 .. r.block /\ j = t + 2 + (j - (t + 2))
        BY <1>4, <2>1, <2>3
      <4> QED BY <4>1
    <3> QED BY <1>9, <2>1, <3>1
  <2> QED BY <1>4, <1>11, <2>2, <2>3
<1> QED BY <1>4, <1>10, <1>11

\* Two such streams, one behind the other.
LEMMA FollowsConcat ==
    ASSUME NEW s \in Seq(Symbols), NEW t \in Seq(Symbols), Follows(s), Follows(t)
    PROVE  Follows(s \o t)
<1>1. PICK a \in Nat, b \in Nat : a = Len(s) /\ b = Len(t)
  OBVIOUS
<1>2. PICK u : u = s \o t
  OBVIOUS
<1>3. Len(u) = a + b /\ \A j \in 1 .. a + b : u[j] = IF j <= a THEN s[j] ELSE t[j - a]
  BY <1>1, <1>2, ConcatProperties
<1> SUFFICES ASSUME NEW j \in 1 .. a + b
             PROVE  /\ u[j].kind = "name" => j < a + b /\ u[j + 1].kind = "newline"
                    /\ u[j].kind = "zero" => j < a + b /\ u[j + 1].kind = "size"
  BY <1>2, <1>3 DEF Follows
<1>4. CASE j <= a
  <2>1. j \in 1 .. a
    BY <1>4
  <2>2. /\ s[j].kind = "name" => j < a /\ s[j + 1].kind = "newline"
        /\ s[j].kind = "zero" => j < a /\ s[j + 1].kind = "size"
    BY <1>1, <2>1 DEF Follows
  <2>3. u[j] = s[j] /\ (j < a => u[j + 1] = s[j + 1])
    BY <1>3, <2>1
  <2> QED BY <2>1, <2>2, <2>3
<1>5. CASE ~(j <= a)
  <2>1. PICK m \in 1 .. b : m = j - a
    BY <1>5
  <2>2. /\ t[m].kind = "name" => m < b /\ t[m + 1].kind = "newline"
        /\ t[m].kind = "zero" => m < b /\ t[m + 1].kind = "size"
    BY <1>1 DEF Follows
  <2>3. u[j] = t[m]
    BY <1>3, <1>5, <2>1
  <2>4. m < b => j < a + b /\ u[j + 1] = t[m + 1]
    <3>1. m < b => j + 1 \in 1 .. a + b /\ ~(j + 1 <= a) /\ (j + 1) - a = m + 1
      BY <1>5, <2>1
    <3> QED BY <1>3, <3>1
  <2> QED BY <2>2, <2>3, <2>4
<1> QED BY <1>4, <1>5

\* ... and what is left of one.
LEMMA FollowsConsume ==
    ASSUME StreamType, NEW d \in 0 .. Len(chunk), Consume(d), Follows(Stream)
    PROVE  Follows(Stream')
<1>1. PICK s, u, n : s = Stream /\ u = Stream' /\ n = Len(Stream)
  OBVIOUS
<1>2. /\ n \in Nat /\ d \in Nat /\ Len(u) = n - d /\ \A j \in 1 .. n - d : u[j] = s[j + d]
  BY <1>1, StreamFacts, ConsumeStream, SMTT(30)
<1>3. \A j \in 1 .. n : /\ s[j].kind = "name" => j < n /\ s[j + 1].kind = "newline"
                        /\ s[j].kind = "zero" => j < n /\ s[j + 1].kind = "size"
  BY <1>1 DEF Follows
<1> SUFFICES ASSUME NEW j \in 1 .. n - d
             PROVE  /\ u[j].kind = "name" => j < n - d /\ u[j + 1].kind = "newline"
                    /\ u[j].kind = "zero" => j < n - d /\ u[j + 1].kind = "size"
  BY <1>1, <1>2 DEF Follows
<1>4. j + d \in 1 .. n /\ u[j] = s[j + d]
  BY <1>2
<1>5. j + d < n => j < n - d /\ u[j + 1] = s[(j + d) + 1]
  <2>1. j + d < n => j + 1 \in 1 .. n - d /\ (j + 1) + d = (j + d) + 1
    BY <1>2
  <2> QED BY <1>2, <2>1
<1> QED BY <1>3, <1>4, <1>5

-----------------------------------------------------------------------------
(* What one step takes from the chunk                                      *)

\* A line ends at the first newline of the chunk, or takes all of it.
LEMMA LineFacts ==
    ASSUME StreamType, chunk # <<>>
    PROVE  \E k \in 1 .. Len(chunk) :
              /\ LineRead \in Seq(Symbols) /\ Len(LineRead) = k
              /\ \A j \in 1 .. k : LineRead[j] = chunk[j]
              /\ \A j \in 1 .. k - 1 : chunk[j].kind # "newline"
              /\ Newlines = {} => k = Len(chunk) /\ chunk[k].kind # "newline"
              /\ Newlines # {} => chunk[k].kind = "newline"
<1>1. Len(chunk) \in Nat /\ Len(chunk) > 0 /\ DOMAIN chunk = 1 .. Len(chunk)
  BY StreamFacts DEF StreamType
<1>2. PICK k \in 1 .. Len(chunk) :
         /\ LineRead = SubSeq(chunk, 1, k)
         /\ \A j \in 1 .. k - 1 : chunk[j].kind # "newline"
         /\ Newlines = {} => k = Len(chunk) /\ chunk[k].kind # "newline"
         /\ Newlines # {} => chunk[k].kind = "newline"
  <2>1. CASE Newlines = {}
    <3>1. \A j \in 1 .. Len(chunk) : chunk[j].kind # "newline"
      BY <1>1, <2>1 DEF Newlines
    <3>2. LineRead = SubSeq(chunk, 1, Len(chunk))
      BY <2>1 DEF LineRead
    <3>3. Len(chunk) \in 1 .. Len(chunk) /\ \A j \in 1 .. Len(chunk) - 1 : j \in 1 .. Len(chunk)
      BY <1>1
    <3> QED BY <2>1, <3>1, <3>2, <3>3
  <2>2. CASE Newlines # {}
    <3>1. Newlines \subseteq Nat
      BY <1>1 DEF Newlines
    <3>2. PICK k \in Newlines : \A j \in Newlines : ~(<<j, k>> \in OpToRel(<, Nat))
      BY <2>2, <3>1, NatLessThanWellFounded, WFMin
    <3>3. k \in Newlines /\ k \in Nat /\ \A j \in Newlines : k <= j
      <4>1. \A j \in Newlines : ~(j < k)
        BY <3>1, <3>2, Zenon DEF OpToRel
      <4>2. k \in Nat
        BY <3>1
      <4>3. ASSUME NEW j \in Newlines PROVE k <= j
        <5>1. j \in Nat /\ ~(j < k)
          BY <3>1, <4>1
        <5> QED BY <4>2, <5>1
      <4> QED BY <4>2, <4>3
    <3>4. \E m \in Newlines : \A j \in Newlines : m <= j
      BY <3>3
    <3>5. Min(Newlines) \in Newlines /\ \A j \in Newlines : Min(Newlines) <= j
      BY <3>4 DEF Min
    <3>6. PICK m : m = Min(Newlines)
      OBVIOUS
    <3>7. m \in 1 .. Len(chunk) /\ chunk[m].kind = "newline"
      BY <1>1, <3>5, <3>6 DEF Newlines
    <3>8. ASSUME NEW j \in 1 .. m - 1 PROVE chunk[j].kind # "newline"
      <4>1. j \in 1 .. Len(chunk) /\ ~(m <= j)
        BY <1>1, <3>7
      <4> QED BY <1>1, <3>5, <3>6, <4>1 DEF Newlines
    <3> QED BY <2>2, <3>6, <3>7, <3>8 DEF LineRead
  <2> QED BY <2>1, <2>2
<1>3. k \in 0 .. Len(chunk)
  BY <1>1
<1>4. /\ LineRead \in Seq(Symbols) /\ Len(LineRead) = k
      /\ \A j \in 1 .. k : LineRead[j] = chunk[j]
  BY <1>2, <1>3, PrefixFacts DEF StreamType
<1> QED BY <1>2, <1>4

-----------------------------------------------------------------------------
(* What holds for every client                                             *)

Data == Seq({"name", "newline", "zero", "size", "data"} \X Nat)

Whats == {"executed", "invalid_command", "written", "swallowed", "protocol_error"}

Outcomes == [what : Whats, data : Data]

FieldsType ==
    /\ state \in {"WAITING_FOR_COMMAND", "GETTING_COMMAND", "EXPECTING_BINARY_DATA",
                  "GETTING_BINARY_DATA"}
    /\ command_data \in Seq(Symbols) /\ Len(command_data) \in {0, 1}
    /\ current_command \in {""} \cup {r.cmd : r \in Requests}
    /\ shallow_binary_block \in BOOLEAN
    /\ binary_header \in Seq(Symbols) /\ Len(binary_header) \in 0 .. HeaderLen
    /\ binary_block \in Seq(Symbols)
    /\ binary_block_defined_size \in Nat
    /\ expected_block_size \in Nat

ConnType ==
    /\ connected \in BOOLEAN /\ paced \in BOOLEAN
    /\ Len(chunk) \in 0 .. ReadMax
    /\ ~connected => chunk = <<>> /\ wire = <<>>
    /\ sent \in Seq(Requests)
    /\ served \in Seq(Outcomes)

\* A line that is begun has its name in command_data, or next in the stream; the
\* newline is behind the name.
LineBegun ==
    connected =>
      IF state = "GETTING_COMMAND"
      THEN \/ command_data = <<>> /\ Len(Stream) > 0 /\ Stream[1].kind = "name"
           \/ Len(command_data) = 1 /\ Len(Stream) > 0 /\ Stream[1].kind = "newline"
      ELSE command_data = <<>>

SlotInv ==
    /\ StreamType /\ Follows(Stream)
    /\ FieldsType /\ ConnType
    /\ LineBegun
    /\ ShallowOnlyForRejected

\* Nobody has the slot.
LEMMA SlotInit == Init => SlotInv
<1> SUFFICES ASSUME Init PROVE SlotInv
  OBVIOUS
<1>1. StreamType /\ Stream = <<>>
  <2>1. chunk = <<>> /\ wire = <<>>
    BY DEF Init
  <2>2. <<>> \in Seq(Symbols)
    BY EmptySeq
  <2> QED BY <2>1, <2>2, ConcatEmptySeq DEF StreamType, Stream
<1>2. Len(Stream) = 0
  BY <1>1
<1>3. Follows(Stream)
  BY <1>2 DEF Follows
<1>4. <<>> \in Seq(Symbols) /\ <<>> \in Seq(Requests) /\ <<>> \in Seq(Outcomes)
      /\ Len(<<>>) = 0 /\ 0 \in 0 .. ReadMax
  <2>1. <<>> \in Seq(Symbols) /\ Len(<<>>) = 0
    BY EmptySeq
  <2>2. <<>> \in Seq(Requests)
    BY EmptySeq
  <2>3. <<>> \in Seq(Outcomes)
    BY EmptySeq
  <2> QED BY <2>1, <2>2, <2>3, ReadMaxAssumption
<1>6. FieldsType
  <2>1. command_data = <<>> /\ binary_header = <<>> /\ binary_block = <<>>
    BY DEF Init
  <2>2. Len(command_data) \in {0, 1} /\ Len(binary_header) \in 0 .. HeaderLen
    BY <1>4, <2>1 DEF HeaderLen
  <2> QED BY <1>4, <2>1, <2>2 DEF Init, FieldsType
<1>7. ConnType
  BY <1>4 DEF Init, ConnType
<1>5. LineBegun /\ ShallowOnlyForRejected
  BY DEF Init, LineBegun, ShallowOnlyForRejected
<1> QED BY <1>1, <1>3, <1>5, <1>6, <1>7 DEF SlotInv

\* The header takes what it lacks, as far as the chunk has it.
LEMMA HeaderFacts ==
    ASSUME StreamType, FieldsType, HeaderGuard
    PROVE  \E d \in 1 .. Len(chunk) :
              /\ HeaderRead \in Seq(Symbols) /\ Len(HeaderRead) = d
              /\ HeaderSoFar \in Seq(Symbols) /\ Len(HeaderSoFar) = Len(binary_header) + d
              /\ Len(HeaderSoFar) \in 1 .. HeaderLen
              /\ Len(HeaderSoFar) < HeaderLen => d = Len(chunk)
              /\ \A j \in 1 .. d : HeaderSoFar[Len(binary_header) + j] = chunk[j]
<1>1. /\ Len(chunk) \in Nat /\ Len(chunk) > 0
      /\ chunk \in Seq(Symbols) /\ binary_header \in Seq(Symbols)
  BY StreamFacts DEF HeaderGuard, In, StreamType, FieldsType
<1>2. PICK h \in {0, 1} : h = Len(binary_header)
  <2>1. Len(binary_header) \in 0 .. 2 /\ Len(binary_header) < 2
    BY DEF HeaderGuard, FieldsType, HeaderLen
  <2> QED BY <2>1
<1>3. PICK d : d = Min({2 - h, Len(chunk)})
  OBVIOUS
<1>4. d = IF 2 - h <= Len(chunk) THEN 2 - h ELSE Len(chunk)
  BY <1>1, <1>2, <1>3, MinFacts, SMTT(30)
<1>5. d \in 1 .. Len(chunk) /\ d \in 0 .. Len(chunk) /\ h + d \in 1 .. 2
      /\ (h + d < 2 => d = Len(chunk))
  <2>1. CASE 2 - h <= Len(chunk)
    BY <1>1, <1>4, <2>1
  <2>2. CASE ~(2 - h <= Len(chunk))
    BY <1>1, <1>4, <2>2
  <2> QED BY <2>1, <2>2
<1>6. PICK t : t = HeaderRead
  OBVIOUS
<1>7. t = SubSeq(chunk, 1, d)
  BY <1>2, <1>3, <1>6 DEF HeaderRead, HeaderLen
<1>8. t \in Seq(Symbols) /\ Len(t) = d /\ \A j \in 1 .. d : t[j] = chunk[j]
  BY <1>1, <1>5, <1>7, PrefixFacts
<1>9. PICK u : u = HeaderSoFar
  OBVIOUS
<1>10. /\ u \in Seq(Symbols) /\ Len(u) = Len(binary_header) + Len(t)
       /\ \A j \in 1 .. Len(binary_header) + Len(t) :
             u[j] = IF j <= Len(binary_header) THEN binary_header[j] ELSE t[j - Len(binary_header)]
  <2>1. u = binary_header \o t
    BY <1>6, <1>9 DEF HeaderSoFar
  <2>2. binary_header \in Seq(Symbols) /\ t \in Seq(Symbols)
    BY <1>1, <1>8
  <2> QED BY <2>1, <2>2, ConcatProperties, ZenonT(30)
<1>11. ASSUME NEW j \in 1 .. d PROVE u[h + j] = chunk[j]
  <2>1. h + j \in 1 .. h + d /\ ~(h + j <= h) /\ (h + j) - h = j
    BY <1>2, <1>5
  <2> QED BY <1>2, <1>8, <1>10, <2>1
<1> QED BY <1>2, <1>5, <1>6, <1>8, <1>9, <1>10, <1>11 DEF HeaderLen

\* What is copied into the buffer.
LEMMA CopyFacts ==
    ASSUME StreamType, FieldsType, chunk # <<>>
    PROVE  \E d \in 0 .. Len(chunk) :
              /\ d = CopySize
              /\ d = IF Len(chunk) <= binary_block_defined_size THEN Len(chunk)
                                                               ELSE binary_block_defined_size
              /\ Filled \in Seq(Symbols) /\ Len(Filled) = Len(binary_block) + d
              /\ \A j \in 1 .. Len(binary_block) : Filled[j] = binary_block[j]
              /\ \A j \in 1 .. d : Filled[Len(binary_block) + j] = chunk[j]
<1>1. /\ Len(chunk) \in Nat /\ Len(chunk) > 0
      /\ chunk \in Seq(Symbols) /\ binary_block \in Seq(Symbols)
      /\ binary_block_defined_size \in Nat
  BY StreamFacts DEF StreamType, FieldsType
<1>2. PICK m \in Nat : m = Len(binary_block)
  BY <1>1
<1>3. PICK d : d = CopySize
  OBVIOUS
<1>4. d = IF Len(chunk) <= binary_block_defined_size THEN Len(chunk)
                                                     ELSE binary_block_defined_size
  BY <1>1, <1>3, MinFacts DEF CopySize
<1>5. d \in 0 .. Len(chunk)
  BY <1>1, <1>4
<1>6. PICK t : t = SubSeq(chunk, 1, d)
  OBVIOUS
<1>7. t \in Seq(Symbols) /\ Len(t) = d /\ \A j \in 1 .. d : t[j] = chunk[j]
  BY <1>1, <1>5, <1>6, PrefixFacts
<1>8. PICK u : u = Filled
  OBVIOUS
<1>9. /\ u \in Seq(Symbols) /\ Len(u) = m + d
      /\ \A j \in 1 .. m + d : u[j] = IF j <= m THEN binary_block[j] ELSE t[j - m]
  <2>1. u = binary_block \o t
    BY <1>3, <1>6, <1>8 DEF Filled
  <2>2. /\ u \in Seq(Symbols) /\ Len(u) = Len(binary_block) + Len(t)
        /\ \A j \in 1 .. Len(binary_block) + Len(t) :
              u[j] = IF j <= Len(binary_block) THEN binary_block[j] ELSE t[j - Len(binary_block)]
    BY <1>1, <1>7, <2>1, ConcatProperties
  <2> QED BY <1>2, <1>7, <2>2
<1>10. \A j \in 1 .. m : u[j] = binary_block[j]
  BY <1>2, <1>5, <1>9
<1>11. ASSUME NEW j \in 1 .. d PROVE u[m + j] = chunk[j]
  <2>1. m + j \in 1 .. m + d /\ ~(m + j <= m) /\ (m + j) - m = j
    BY <1>2, <1>5
  <2> QED BY <1>7, <1>9, <2>1
<1> QED BY <1>2, <1>3, <1>4, <1>5, <1>8, <1>9, <1>10, <1>11

\* Every step takes symbols off the stream, adds a request or drops it all.
Taking == \E d \in 0 .. Len(chunk) : Consume(d)

\* The branches that consume stay in the chunk.
LEMMA TakingSteps ==
    ASSUME SlotInv,
           HeaderPart \/ HeaderDone \/ BlockPart \/ BlockDone \/ BlockSwallowed
             \/ CommandPart \/ PlainCommand \/ BlockCommand
    PROVE  Taking
<1> USE DEF SlotInv
<1>1. CASE HeaderPart \/ HeaderDone
  <2>1. HeaderGuard /\ Consume(Len(HeaderRead))
    BY <1>1 DEF HeaderPart, HeaderDone, HeaderComplete
  <2>2. Len(HeaderRead) \in 1 .. Len(chunk)
    BY <2>1, HeaderFacts
  <2>3. Len(HeaderRead) \in 0 .. Len(chunk)
    BY <2>2
  <2> QED BY <2>1, <2>3 DEF Taking
<1>2. CASE BlockPart \/ BlockDone \/ BlockSwallowed
  <2>1. chunk # <<>> /\ Consume(CopySize)
    BY <1>2 DEF BlockPart, BlockDone, BlockSwallowed, DataGuard, In
  <2>2. CopySize \in 0 .. Len(chunk)
    BY <2>1, CopyFacts
  <2> QED BY <2>1, <2>2 DEF Taking
<1>3. CASE CommandPart \/ PlainCommand \/ BlockCommand
  <2>1. chunk # <<>> /\ Consume(Len(LineRead))
    BY <1>3 DEF CommandPart, PlainCommand, BlockCommand, Command, In
  <2>2. Len(LineRead) \in 1 .. Len(chunk)
    BY <2>1, LineFacts
  <2>3. Len(LineRead) \in 0 .. Len(chunk)
    BY <2>2
  <2> QED BY <2>1, <2>3 DEF Taking
<1> QED BY <1>1, <1>2, <1>3

\* ... and the stream stays well formed.
LEMMA StreamStep ==
    ASSUME SlotInv, [Next]_vars
    PROVE  StreamType' /\ Follows(Stream)' /\ Len(chunk') \in 0 .. ReadMax
<1> USE DEF SlotInv
<1>1. CASE UNCHANGED <<chunk, wire>>
  <2>1. Stream' = Stream
    BY <1>1 DEF Stream
  <2> QED BY <1>1, <2>1 DEF StreamType, ConnType
<1>2. ASSUME NEW r \in Requests, Send(r)
      PROVE  StreamType' /\ Follows(Stream)' /\ Len(chunk') \in 0 .. ReadMax
  <2>1. wire' = wire \o Bytes(r) /\ chunk' = chunk
    BY <1>2 DEF Send
  <2>2. StreamType' /\ Stream' = Stream \o Bytes(r)
    BY <2>1, SendStream
  <2>3. Follows(Stream \o Bytes(r))
    BY StreamFacts, BytesFacts, BytesFollow, FollowsConcat
  <2> QED BY <2>1, <2>2, <2>3 DEF ConnType
<1>3. CASE read_client_data
  BY <1>3, ReadStream
<1>4. CASE Taking
  <2>1. PICK d \in 0 .. Len(chunk) : Consume(d)
    BY <1>4 DEF Taking
  <2>2. StreamType' /\ Len(chunk') = Len(chunk) - d
    BY <2>1, ConsumeStream
  <2>3. Follows(Stream')
    BY <2>1, FollowsConsume
  <2>4. Len(chunk) \in 0 .. ReadMax
    BY DEF ConnType
  <2>5. Len(chunk') \in 0 .. ReadMax
    BY <2>2, <2>4, ReadMaxAssumption
  <2> QED BY <2>2, <2>3, <2>5
<1>5. CASE remove_client
  <2>1. chunk' = <<>> /\ wire' = <<>> /\ <<>> \in Seq(Symbols) /\ Len(<<>>) = 0
    BY <1>5, EmptySeq DEF remove_client
  <2>2. StreamType' /\ Stream' = <<>>
    BY <2>1, ConcatEmptySeq DEF StreamType, Stream
  <2>3. Follows(<<>>)
    BY DEF Follows
  <2> QED BY <2>1, <2>2, <2>3, ReadMaxAssumption
<1>6. CASE preprocess_data
  <2>1. CASE ExpectBlock \/ StartCommand
    BY <1>1, <2>1 DEF ExpectBlock, StartCommand, connVars
  <2>2. CASE NoBlockFollows \/ HeaderRefused \/ NotACommand
    BY <1>5, <2>2 DEF NoBlockFollows, HeaderRefused, NotACommand, ProtocolError
  <2>3. CASE HeaderPart \/ HeaderDone \/ BlockPart \/ BlockDone \/ BlockSwallowed
               \/ CommandPart \/ PlainCommand \/ BlockCommand
    BY <1>4, <2>3, TakingSteps
  <2> QED BY <1>6, <2>1, <2>2, <2>3 DEF preprocess_data
<1>7. CASE UNCHANGED vars
  BY <1>1, <1>7 DEF vars, connVars
<1>8. CASE add_to_clients
  BY <1>1, <1>8 DEF add_to_clients
<1>9. CASE Hangup
  BY <1>5, <1>9 DEF Hangup
<1> QED BY <1>2, <1>3, <1>6, <1>7, <1>8, <1>9 DEF Next

\* What execute_command returns for a known command.
LEMMA ReturnedFacts ==
    ASSUME NEW r \in Requests
    PROVE  /\ Returned(r) \in Int
           /\ r.class = "nohandler" => Returned(r) = -1
           /\ r.class \in {"handled", "custom"} => Returned(r) = r.ret
<1>1. r.class \in {"handled", "nohandler", "custom", "unknown", "none"} /\ r.ret \in Int
  BY RequestsAssumption DEF Classes
<1>2. r.class = "unknown" => Returned(r) = 0
  BY DEF Returned
<1>3. r.class = "nohandler" => Returned(r) = -1
  BY DEF Returned
<1>4. r.class \notin {"unknown", "nohandler"} => Returned(r) = r.ret
  BY DEF Returned
<1> QED BY <1>1, <1>2, <1>3, <1>4

\* The name alone is what is kept of a line the chunk has not ended.
LEMMA CommandPartFacts ==
    ASSUME SlotInv, CommandPart
    PROVE  /\ command_data = <<>> /\ Len(chunk) = 1 /\ chunk[1].kind = "name"
           /\ command_data' = <<chunk[1]>> /\ Consume(1)
           /\ command_data' \in Seq(Symbols) /\ Len(command_data') \in {0, 1}
<1> USE DEF SlotInv
<1>1. chunk # <<>> /\ state = "GETTING_COMMAND" /\ Newlines = {} /\ connected
  <2>1. chunk # <<>> /\ state = "GETTING_COMMAND" /\ Newlines = {}
    BY DEF CommandPart, In
  <2> QED BY <2>1 DEF ConnType
<1>2. PICK k \in 1 .. Len(chunk) :
         /\ LineRead \in Seq(Symbols) /\ Len(LineRead) = k
         /\ \A j \in 1 .. k : LineRead[j] = chunk[j]
         /\ \A j \in 1 .. k - 1 : chunk[j].kind # "newline"
         /\ k = Len(chunk) /\ chunk[k].kind # "newline"
  BY <1>1, LineFacts
<1>3. /\ Len(chunk) \in Nat /\ Len(Stream) \in Nat /\ Len(chunk) <= Len(Stream)
      /\ \A j \in 1 .. Len(chunk) : Stream[j] = chunk[j]
  BY StreamFacts
<1>4. \A j \in 1 .. Len(chunk) : Stream[j].kind # "newline"
  <2>1. \A j \in 1 .. Len(chunk) : j \in 1 .. k - 1 \/ j = k
    BY <1>2
  <2> QED BY <1>2, <1>3, <2>1
<1>5. 1 \in 1 .. Len(chunk)
  BY <1>2
<1>6. command_data = <<>> /\ Stream[1].kind = "name" /\ Len(Stream) > 0
  BY <1>1, <1>4, <1>5 DEF LineBegun
<1>7. Stream[2].kind = "newline"
  <2>1. 1 \in 1 .. Len(Stream)
    BY <1>3, <1>6
  <2> QED BY <1>6, <2>1 DEF Follows
<1>8. Len(chunk) = 1
  <2>1. ~(2 \in 1 .. Len(chunk))
    BY <1>4, <1>7
  <2> QED BY <1>2, <1>3, <2>1
<1>9. LineRead = <<chunk[1]>>
  <2>1. Len(LineRead) = 1 /\ LineRead[1] = chunk[1]
    BY <1>2, <1>5, <1>8
  <2>2. PICK t : t = LineRead
    OBVIOUS
  <2>3. t \in Seq(Symbols) /\ Len(t) = 1 /\ t[1] = chunk[1]
    BY <1>2, <2>1, <2>2
  <2>4. t = <<t[1]>>
    BY <2>3
  <2> QED BY <2>2, <2>3, <2>4
<1>10. chunk[1] \in Symbols /\ Stream[1] = chunk[1]
  BY <1>1, <1>3, <1>5, StreamFacts
<1>11. command_data' = <<chunk[1]>> /\ Consume(1)
  <2>1. command_data' = <<>> \o LineRead /\ Consume(Len(LineRead))
    BY <1>6 DEF CommandPart
  <2>2. Len(LineRead) = 1 /\ <<>> \o LineRead = LineRead
    BY <1>2, <1>8, ConcatEmptySeq
  <2> QED BY <1>9, <2>1, <2>2
<1> QED BY <1>6, <1>8, <1>10, <1>11

\* The fields keep their types.
LEMMA FieldsStep ==
    ASSUME SlotInv, [Next]_vars
    PROVE  FieldsType'
<1> USE DEF SlotInv
<1>1. <<>> \in Seq(Symbols) /\ Len(<<>>) = 0 /\ 0 \in {0, 1} /\ 0 \in 0 .. HeaderLen
  BY EmptySeq DEF HeaderLen
<1>2. CASE UNCHANGED fields
  BY <1>2 DEF FieldsType, fields, lineVars, blockVars, headerVars
<1>3. CASE add_to_clients
  BY <1>1, <1>3 DEF add_to_clients, FieldsType
<1>4. CASE Hangup
  BY <1>1, <1>4 DEF Hangup, remove_client, FieldsType, lineVars, headerVars
<1>5. CASE ExpectBlock
  BY <1>1, <1>5 DEF ExpectBlock, FieldsType, lineVars, blockVars
<1>6. CASE NoBlockFollows
  BY <1>1, <1>6 DEF NoBlockFollows, ProtocolError, remove_client, FieldsType, lineVars
<1>7. CASE HeaderPart
  <2>1. HeaderSoFar \in Seq(Symbols) /\ Len(HeaderSoFar) \in 0 .. HeaderLen
    <3>1. Len(HeaderSoFar) \in 1 .. HeaderLen
      BY <1>7, HeaderFacts DEF HeaderPart
    <3> QED BY <1>7, <3>1, HeaderFacts DEF HeaderPart, HeaderLen
  <2> QED BY <1>7, <2>1 DEF HeaderPart, FieldsType, lineVars, blockVars
<1>8. CASE HeaderDone \/ HeaderRefused
  <2>1. HeaderGuard /\ HeaderComplete
    BY <1>8 DEF HeaderDone, HeaderRefused, HeaderComplete
  <2>2. HeaderSoFar \in Seq(Symbols) /\ Len(HeaderSoFar) = 2
    BY <2>1, HeaderFacts DEF HeaderComplete, HeaderLen
  <2>3. HeaderSoFar[HeaderLen].n \in Nat /\ Len(HeaderSoFar) \in 0 .. HeaderLen
    <3>1. PICK u : u = HeaderSoFar
      OBVIOUS
    <3>2. u \in Seq(Symbols) /\ Len(u) = 2 /\ 2 \in 1 .. Len(u)
      <4>1. u \in Seq(Symbols) /\ Len(u) = 2
        BY <2>2, <3>1
      <4> QED BY <4>1
    <3>3. u[2] \in Symbols
      BY <3>2, ElementOfSeq
    <3>4. u[2].n \in Nat /\ Len(u) \in 0 .. 2
      BY <3>2, <3>3 DEF Symbols
    <3> QED BY <3>1, <3>4 DEF HeaderLen
  <2>4. binary_block' = <<>>
    BY <1>8 DEF HeaderDone, HeaderRefused, ProtocolError, remove_client
  <2> QED BY <1>1, <2>1, <2>2, <2>3, <2>4 DEF HeaderComplete, FieldsType, lineVars
<1>9. CASE BlockPart
  <2>1. Filled \in Seq(Symbols)
    BY <1>9, CopyFacts DEF BlockPart, DataGuard, In
  <2> QED BY <1>9, <2>1 DEF BlockPart, FieldsType, lineVars, headerVars
<1>10. CASE BlockDone
  <2>1. Filled \in Seq(Symbols)
    BY <1>10, CopyFacts DEF BlockDone, DataGuard, In
  <2>2. /\ process_binary_block /\ shallow_binary_block' = FALSE
        /\ UNCHANGED <<command_data, current_command, binary_block_defined_size>>
    BY <1>10 DEF BlockDone, Unmark, lineVars
  <2>3. CASE current_command = "bCORE_WRITE"
    <3>1. /\ binary_block' = <<>> /\ binary_header' = <<>> /\ expected_block_size' = 0
          /\ state' = "WAITING_FOR_COMMAND"
      BY <2>2, <2>3 DEF process_binary_block
    <3> QED BY <1>1, <2>2, <3>1 DEF FieldsType
  <2>4. CASE current_command # "bCORE_WRITE"
    BY <2>1, <2>2, <2>4 DEF process_binary_block, FieldsType, headerVars
  <2> QED BY <2>3, <2>4
<1>11. CASE BlockSwallowed
  BY <1>1, <1>11 DEF BlockSwallowed, Swallowed, Unmark, FieldsType, lineVars, headerVars
<1>12. CASE StartCommand
  BY <1>12 DEF StartCommand, FieldsType, lineVars, blockVars, headerVars
<1>13. CASE NotACommand
  BY <1>1, <1>13 DEF NotACommand, ProtocolError, remove_client, FieldsType, lineVars, headerVars
<1>14. CASE CommandPart
  <2>1. command_data' \in Seq(Symbols) /\ Len(command_data') \in {0, 1}
    BY <1>14, CommandPartFacts
  <2> QED BY <1>14, <2>1 DEF CommandPart, FieldsType, blockVars, headerVars
<1>15. ASSUME NEW r \in Requests, Command(r)
       PROVE  /\ command_data' = <<>>
              /\ current_command' \in {""} \cup {q.cmd : q \in Requests}
              /\ binary_block_defined_size' \in Nat
  BY <1>15 DEF Command, LineDone, execute_command, FieldsType
<1>16. CASE PlainCommand
  BY <1>1, <1>15, <1>16 DEF PlainCommand, FieldsType, headerVars
<1>17. CASE BlockCommand
  <2>1. PICK r \in Requests :
           /\ Command(r)
           /\ shallow_binary_block' = (shallow_binary_block \/ Returned(r) < 0)
           /\ expected_block_size' = IF Returned(r) < 0 THEN -Returned(r) ELSE Returned(r)
    BY <1>17 DEF BlockCommand
  <2>2. Returned(r) \in Int
    BY ReturnedFacts
  <2>3. expected_block_size' \in Nat
    BY <2>1, <2>2
  <2>4. shallow_binary_block' \in BOOLEAN
    BY <2>1 DEF FieldsType
  <2> QED BY <1>1, <1>15, <1>17, <2>1, <2>3, <2>4 DEF BlockCommand, FieldsType
<1>18. CASE preprocess_data
  BY <1>5, <1>6, <1>7, <1>8, <1>9, <1>10, <1>11, <1>12, <1>13, <1>14, <1>16, <1>17, <1>18
     DEF preprocess_data
<1>19. CASE UNCHANGED vars
  BY <1>2, <1>19 DEF vars
<1>20. CASE (\E r \in Requests : Send(r)) \/ read_client_data
  BY <1>2, <1>20 DEF Send, read_client_data
<1> QED BY <1>3, <1>4, <1>18, <1>19, <1>20 DEF Next

\* So do the connection and its histories.
LEMMA ConnStep ==
    ASSUME SlotInv, [Next]_vars
    PROVE  ConnType'
<1> USE DEF SlotInv
<1>1. Len(chunk') \in 0 .. ReadMax
  BY StreamStep
<1>2. <<>> \in Seq(Requests) /\ <<>> \in Seq(Outcomes)
  BY EmptySeq
<1>3. CASE UNCHANGED <<connected, paced, hist>> /\ connected
  BY <1>1, <1>3 DEF ConnType, hist
<1>4. CASE remove_client /\ UNCHANGED sent /\ served' \in Seq(Outcomes)
  BY <1>1, <1>4 DEF ConnType, remove_client
<1>5. CASE add_to_clients
  BY <1>1, <1>2, <1>5 DEF ConnType, add_to_clients
<1>6. ASSUME NEW r \in Requests, Send(r) PROVE ConnType'
  BY <1>1, <1>6 DEF ConnType, Send
<1>7. CASE Hangup
  BY <1>1, <1>2, <1>7 DEF ConnType, Hangup, remove_client
<1>8. CASE read_client_data
  BY <1>3, <1>8 DEF read_client_data
<1>9. ASSUME NEW w \in Whats, NEW d \in Data, Serves(Outcome(w, d))
      PROVE  served' \in Seq(Outcomes) /\ sent' = sent
  BY <1>9 DEF Serves, Outcome, Outcomes, ConnType
<1>10. <<>> \in Data
  BY EmptySeq DEF Data
<1>11. CASE preprocess_data
  <2>1. connected
    BY <1>11 DEF preprocess_data, ExpectBlock, NoBlockFollows, HeaderPart, HeaderDone,
                 HeaderRefused, HeaderComplete, HeaderGuard, BlockPart, BlockDone,
                 BlockSwallowed, DataGuard, StartCommand, NotACommand, CommandPart,
                 PlainCommand, BlockCommand, Command, In, ConnType
  <2>2. CASE ExpectBlock \/ StartCommand \/ HeaderPart \/ HeaderDone \/ BlockPart
             \/ CommandPart \/ BlockCommand
    <3>1. UNCHANGED <<connected, paced, hist>>
      BY <2>2 DEF ExpectBlock, StartCommand, HeaderPart, HeaderDone, BlockPart,
                  CommandPart, BlockCommand, Command, Consume, connVars
    <3> QED BY <1>3, <2>1, <3>1
  <2>3. CASE NoBlockFollows \/ HeaderRefused \/ NotACommand
    <3>1. ProtocolError
      BY <2>3 DEF NoBlockFollows, HeaderRefused, NotACommand
    <3>2. "protocol_error" \in Whats
      BY DEF Whats
    <3>3. served' \in Seq(Outcomes) /\ sent' = sent
      BY <1>9, <1>10, <3>1, <3>2 DEF ProtocolError
    <3> QED BY <1>4, <3>1, <3>3 DEF ProtocolError
  <2>4. CASE BlockSwallowed
    <3>1. "swallowed" \in Whats
      BY DEF Whats
    <3>2. served' \in Seq(Outcomes) /\ sent' = sent
      BY <1>9, <1>10, <2>4, <3>1 DEF BlockSwallowed
    <3> QED BY <1>1, <2>1, <2>4, <3>2 DEF ConnType, BlockSwallowed, Consume, connVars
  <2>5. CASE PlainCommand
    <3>1. PICK r \in Requests :
             Serves(Outcome(IF r.class \in {"unknown", "nohandler"} THEN "invalid_command"
                                                                     ELSE "executed", <<>>))
          /\ Command(r)
      BY <2>5 DEF PlainCommand
    <3>2. (IF r.class \in {"unknown", "nohandler"} THEN "invalid_command" ELSE "executed")
             \in Whats
      BY DEF Whats
    <3>3. served' \in Seq(Outcomes) /\ sent' = sent
      BY <1>9, <1>10, <3>1, <3>2
    <3> QED BY <1>1, <2>1, <3>1, <3>3 DEF ConnType, Command, Consume, connVars
  <2>6. CASE BlockDone
    <3>1. Filled \in Seq(Symbols)
      BY <2>6, CopyFacts DEF BlockDone, DataGuard, In
    <3>2. PICK u : u = Filled
      OBVIOUS
    <3>3. PICK d : d = [j \in DOMAIN u |-> <<u[j].kind, u[j].n>>]
      OBVIOUS
    <3>4. d \in Data
      <4>1. DOMAIN u = 1 .. Len(u) /\ Len(u) \in Nat
        BY <3>1, <3>2
      <4>2. \A j \in 1 .. Len(u) : u[j] \in Symbols
        BY <3>1, <3>2
      <4>3. \A j \in 1 .. Len(u) :
               <<u[j].kind, u[j].n>> \in {"name", "newline", "zero", "size", "data"} \X Nat
        BY <4>2 DEF Symbols
      <4>4. PICK n \in Nat : n = Len(u)
        BY <4>1
      <4>5. d = [j \in 1 .. n |-> <<u[j].kind, u[j].n>>]
        BY <3>3, <4>1, <4>4
      <4> QED BY <4>3, <4>4, <4>5 DEF Data
    <3>5. served' \in Seq(Outcomes) /\ sent' = sent
      <4>1. CASE current_command = "bCORE_WRITE"
        <5>1. Serves(Outcome("written", d))
          BY <2>6, <3>2, <3>3, <4>1 DEF BlockDone, process_binary_block
        <5>2. "written" \in Whats
          BY DEF Whats
        <5> QED BY <1>9, <3>4, <5>1, <5>2
      <4>2. CASE current_command # "bCORE_WRITE"
        BY <2>6, <4>2 DEF BlockDone, process_binary_block, hist, ConnType
      <4> QED BY <4>1, <4>2
    <3> QED BY <1>1, <2>1, <2>6, <3>5 DEF ConnType, BlockDone, Consume, connVars
  <2> QED BY <1>11, <2>2, <2>3, <2>4, <2>5, <2>6 DEF preprocess_data
<1>12. CASE UNCHANGED vars
  BY <1>12 DEF ConnType, vars, connVars, hist
<1> QED BY <1>5, <1>6, <1>7, <1>8, <1>11, <1>12 DEF Next

\* A line that is begun goes on.
LEMMA LineStep ==
    ASSUME SlotInv, [Next]_vars
    PROVE  LineBegun'
<1> USE DEF SlotInv
<1>1. CASE add_to_clients \/ Hangup \/ NoBlockFollows \/ HeaderRefused \/ NotACommand
  BY <1>1 DEF LineBegun, add_to_clients, Hangup, NoBlockFollows, HeaderRefused, NotACommand,
              ProtocolError, remove_client
<1>2. CASE UNCHANGED <<chunk, wire, state, command_data, connected>>
  <2>1. Stream' = Stream
    BY <1>2 DEF Stream
  <2> QED BY <1>2, <2>1 DEF LineBegun
<1>3. ASSUME NEW r \in Requests, Send(r) PROVE LineBegun'
  <2>1. wire' = wire \o Bytes(r) /\ chunk' = chunk
        /\ UNCHANGED <<state, command_data, connected>>
    BY <1>3 DEF Send, fields, lineVars
  <2>2. Stream' = Stream \o Bytes(r)
    BY <2>1, SendStream
  <2>3. /\ Len(Stream') = Len(Stream) + Len(Bytes(r)) /\ Len(Stream) \in Nat
        /\ Len(Bytes(r)) \in Nat
        /\ \A j \in 1 .. Len(Stream) + Len(Bytes(r)) : j <= Len(Stream) => Stream'[j] = Stream[j]
    BY <2>2, StreamFacts, BytesFacts, ConcatProperties
  <2>4. Len(Stream) > 0 => Len(Stream') > 0 /\ Stream'[1] = Stream[1]
    <3>1. PICK a \in Nat, b \in Nat : a = Len(Stream) /\ b = Len(Bytes(r))
      BY <2>3
    <3>2. a > 0 => 1 \in 1 .. a + b /\ 1 <= a /\ a + b > 0
      OBVIOUS
    <3> QED BY <2>3, <3>1, <3>2
  <2> QED BY <2>1, <2>4 DEF LineBegun
<1>4. CASE read_client_data
  <2>1. Stream' = Stream
    BY <1>4, ReadStream
  <2> QED BY <1>4, <2>1 DEF read_client_data, LineBegun, fields, lineVars
<1>5. ASSUME connected, state # "GETTING_COMMAND", state' # "GETTING_COMMAND",
             command_data' = command_data
      PROVE  LineBegun'
  BY <1>5 DEF LineBegun
<1>6. CASE ExpectBlock \/ HeaderPart \/ HeaderDone \/ BlockPart \/ BlockDone \/ BlockSwallowed
  <2>1. chunk # <<>> /\ state # "GETTING_COMMAND" /\ command_data' = command_data
    BY <1>6 DEF ExpectBlock, HeaderPart, HeaderDone, HeaderComplete, HeaderGuard, BlockPart,
                BlockDone, BlockSwallowed, DataGuard, In, lineVars
  <2>2. state' # "GETTING_COMMAND"
    BY <1>6, <2>1 DEF ExpectBlock, HeaderPart, HeaderDone, HeaderComplete, BlockPart,
                BlockDone, process_binary_block, BlockSwallowed, Swallowed
  <2>3. connected
    BY <2>1 DEF ConnType
  <2> QED BY <1>5, <2>1, <2>2, <2>3
<1>7. CASE StartCommand
  <2>1. chunk # <<>> /\ state = "WAITING_FOR_COMMAND" /\ Head(chunk).kind = "name"
        /\ UNCHANGED <<chunk, wire, command_data, connected>>
    BY <1>7 DEF StartCommand, In, lineVars, connVars
  <2>2. command_data' = <<>>
    BY <2>1 DEF LineBegun, ConnType
  <2>3. Stream' = Stream
    BY <2>1 DEF Stream
  <2>4. Len(Stream) > 0 /\ Stream[1] = Head(chunk)
    <3>1. PICK a \in Nat, b \in Nat : a = Len(chunk) /\ b = Len(wire)
      BY StreamFacts
    <3>2. a > 0 /\ Len(Stream) = a + b /\ Head(chunk) = chunk[1] /\ \A j \in 1 .. a : Stream[j] = chunk[j]
      BY <2>1, <3>1, StreamFacts
    <3> QED BY <3>2
  <2> QED BY <2>1, <2>2, <2>3, <2>4 DEF LineBegun
<1>8. CASE CommandPart
  <2>1. /\ Len(chunk) = 1 /\ chunk[1].kind = "name" /\ command_data' = <<chunk[1]>>
        /\ Consume(1) /\ 1 \in 0 .. Len(chunk) /\ Len(command_data') = 1
    <3>1. Len(chunk) = 1 /\ chunk[1].kind = "name" /\ command_data' = <<chunk[1]>> /\ Consume(1)
      BY <1>8, CommandPartFacts
    <3> QED BY <3>1
  <2>2. PICK n \in Nat : n = Len(Stream)
    BY StreamFacts
  <2>3. Len(Stream') = n - 1 /\ \A j \in 1 .. n - 1 : Stream'[j] = Stream[j + 1]
    BY <2>1, <2>2, ConsumeStream
  <2>4. n > 0 /\ Stream[1].kind = "name"
    <3>1. n = Len(chunk) + Len(wire) /\ Len(wire) \in Nat /\ Stream[1] = chunk[1]
      BY <2>1, <2>2, StreamFacts
    <3> QED BY <2>1, <3>1
  <2>5. 1 < n /\ Stream[1 + 1].kind = "newline"
    <3>1. 1 \in 1 .. n
      BY <2>4
    <3> QED BY <2>2, <2>4, <3>1 DEF Follows
  <2>6. Len(Stream') > 0 /\ Stream'[1].kind = "newline"
    <3>1. 1 \in 1 .. n - 1 /\ n - 1 > 0
      BY <2>5
    <3> QED BY <2>3, <2>5, <3>1
  <2>7. state' = "GETTING_COMMAND"
    BY <1>8 DEF CommandPart, In
  <2> QED BY <2>1, <2>6, <2>7 DEF LineBegun
<1>9. CASE PlainCommand \/ BlockCommand
  BY <1>9 DEF PlainCommand, BlockCommand, Command, LineDone, LineBegun
<1>10. CASE preprocess_data
  BY <1>1, <1>6, <1>7, <1>8, <1>9, <1>10 DEF preprocess_data
<1>11. CASE UNCHANGED vars
  BY <1>2, <1>11 DEF vars, fields, lineVars, connVars
<1> QED BY <1>1, <1>3, <1>4, <1>10, <1>11 DEF Next

\* The mark is gone when the session waits for a command.
LEMMA ShallowStep ==
    ASSUME SlotInv, [Next]_vars
    PROVE  ShallowOnlyForRejected'
<1> USE DEF SlotInv, ShallowOnlyForRejected
<1>1. CASE add_to_clients \/ Hangup \/ NoBlockFollows \/ HeaderRefused \/ NotACommand
  BY <1>1 DEF add_to_clients, Hangup, NoBlockFollows, HeaderRefused, NotACommand,
              ProtocolError, remove_client
<1>2. CASE UNCHANGED <<state, shallow_binary_block, connected>>
  BY <1>2
<1>3. CASE (\E r \in Requests : Send(r)) \/ read_client_data \/ UNCHANGED vars
  BY <1>2, <1>3 DEF Send, read_client_data, vars, fields, connVars
<1>4. CASE ExpectBlock
  BY <1>4 DEF ExpectBlock
<1>5. CASE HeaderPart \/ HeaderDone \/ BlockPart \/ CommandPart
  BY <1>2, <1>5 DEF HeaderPart, HeaderDone, HeaderComplete, BlockPart, CommandPart,
                    Consume, connVars
<1>6. CASE BlockDone \/ BlockSwallowed
  BY <1>6 DEF BlockDone, BlockSwallowed, Unmark
<1>7. CASE StartCommand
  BY <1>7 DEF StartCommand, In, connVars
<1>8. CASE PlainCommand
  BY <1>8 DEF PlainCommand, Command, Consume, connVars, In
<1>9. CASE BlockCommand
  BY <1>9 DEF BlockCommand
<1>10. CASE preprocess_data
  BY <1>1, <1>4, <1>5, <1>6, <1>7, <1>8, <1>9, <1>10 DEF preprocess_data
<1> QED BY <1>1, <1>3, <1>10 DEF Next

\* The invariant holds from the first client of the slot on, through every branch of
\* preprocess_data and every change of client.
THEOREM SlotInvHolds == Spec => []SlotInv
<1>1. Init => SlotInv
  BY SlotInit
<1>2. SlotInv /\ [Next]_vars => SlotInv'
  BY StreamStep, FieldsStep, ConnStep, LineStep, ShallowStep DEF SlotInv
<1> QED BY <1>1, <1>2, PTL DEF Spec

\* The fields of the slot have their types: a line is executed with its newline, so no
\* more than the name of one is kept in command_data; the header keeps to its size;
\* what is served has one of the five outcomes.
THEOREM TypeCorrect == Spec => []TypeOK
<1>1. SlotInv => TypeOK
  <2> SUFFICES ASSUME SlotInv PROVE TypeOK
    OBVIOUS
  <2>1. \A j \in DOMAIN sent : sent[j] \in Requests
    BY DEF SlotInv, ConnType
  <2>2. \A j \in DOMAIN served : served[j].what \in {"executed", "invalid_command", "written",
                                                     "swallowed", "protocol_error"}
    <3>1. DOMAIN served = 1 .. Len(served) /\ \A j \in 1 .. Len(served) : served[j] \in Outcomes
      BY DEF SlotInv, ConnType
    <3> QED BY <3>1 DEF Outcomes, Whats
  <2> QED BY <2>1, <2>2 DEF SlotInv, FieldsType, ConnType, TypeOK
<1> QED BY <1>1, SlotInvHolds, PTL

\* No session waits for a command with shallow_binary_block set: the mark never
\* swallows the block of a later command.
THEOREM MarkIsForOneBlock == Spec => []ShallowOnlyForRejected
<1>1. SlotInv => ShallowOnlyForRejected
  BY DEF SlotInv
<1> QED BY <1>1, SlotInvHolds, PTL

=============================================================================
