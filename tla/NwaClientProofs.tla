-------------------------- MODULE NwaClientProofs --------------------------
(***************************************************************************)
(* get_reply makes of every reply what it makes of one that comes whole,   *)
(* for every set of replies, however the connection cuts them, as long as  *)
(* no binary reply is cut and no write() lost; of a reply with no key      *)
(* twice and no line too long that is all the reply says.                  *)
(*                                                                         *)
(* A reply is one word of bytes, and everything between the two programs   *)
(* is a stretch of that word: the writes still to be made, what is under   *)
(* way, and what read_stream holds (Carried).  Where the client is in      *)
(* get_reply says where in the word it is (Place).  So what it throws away *)
(* with read_stream is nothing, and the next reply starts on a clean       *)
(* connection.                                                             *)
(***************************************************************************)
EXTENDS NwaClient, SequenceTheorems, TLAPS

-----------------------------------------------------------------------------
(* Pieces of sequences                                                     *)

LEMMA FirstFacts ==
    ASSUME NEW S, NEW s \in Seq(S), NEW n \in Nat
    PROVE  /\ First(s, n) \in Seq(S)
           /\ Len(First(s, n)) = Least(n, Len(s))
           /\ Least(n, Len(s)) \in Nat
           /\ Least(n, Len(s)) <= n /\ Least(n, Len(s)) <= Len(s)
           /\ \A j \in 1 .. Least(n, Len(s)) : First(s, n)[j] = s[j]
<1>1. PICK m \in Nat : m = Least(n, Len(s))
  BY DEF Least
<1>2. m <= Len(s) /\ m <= n /\ Len(s) \in Nat
  BY <1>1 DEF Least
<1>3. \A j \in 1 .. m : s[j] \in S
  <2>1. \A j \in 1 .. m : j \in 1 .. Len(s)
    BY <1>2
  <2> QED BY <2>1, ElementOfSeq
<1>4. PICK u : u = SubSeq(s, 1, m)
  OBVIOUS
<1>5. 1 \in Int /\ m \in Int
  BY <1>1
<1>6. /\ u \in Seq(S) /\ Len(u) = IF 1 <= m THEN m - 1 + 1 ELSE 0
      /\ \A j \in 1 .. m - 1 + 1 : u[j] = s[1 + j - 1]
  BY <1>3, <1>4, <1>5, SubSeqProperties
<1>7. Len(u) = m /\ \A j \in 1 .. m : u[j] = s[j]
  BY <1>1, <1>6
<1>8. First(s, n) = u
  BY <1>1, <1>4 DEF First
<1> QED BY <1>1, <1>2, <1>6, <1>7, <1>8

LEMMA RestFacts ==
    ASSUME NEW S, NEW s \in Seq(S), NEW n \in Nat
    PROVE  /\ Rest(s, n) \in Seq(S)
           /\ Len(Rest(s, n)) = IF n <= Len(s) THEN Len(s) - n ELSE 0
           /\ \A j \in 1 .. Len(s) - n : Rest(s, n)[j] = s[n + j]
<1>1. PICK m \in Nat : m = Len(s)
  OBVIOUS
<1>2. \A j \in n + 1 .. m : s[j] \in S
  <2>1. \A j \in n + 1 .. m : j \in 1 .. Len(s)
    BY <1>1
  <2> QED BY <2>1, ElementOfSeq
<1>3. PICK u : u = SubSeq(s, n + 1, m)
  OBVIOUS
<1>4. n + 1 \in Int /\ m \in Int
  BY <1>1
<1>5. /\ u \in Seq(S) /\ Len(u) = IF n + 1 <= m THEN m - (n + 1) + 1 ELSE 0
      /\ \A j \in 1 .. m - (n + 1) + 1 : u[j] = s[(n + 1) + j - 1]
  BY <1>2, <1>3, <1>4, SubSeqProperties
<1>6. Len(u) = (IF n <= m THEN m - n ELSE 0) /\ \A j \in 1 .. m - n : u[j] = s[n + j]
  <2>1. m - (n + 1) + 1 = m - n /\ \A j \in Nat : (n + 1) + j - 1 = n + j
    BY <1>1
  <2>2. (IF n + 1 <= m THEN m - n ELSE 0) = (IF n <= m THEN m - n ELSE 0)
    BY <1>1
  <2>3. \A j \in 1 .. m - n : u[j] = s[(n + 1) + j - 1] /\ j \in Nat
    BY <1>1, <1>5, <2>1
  <2>4. Len(u) = IF n + 1 <= m THEN m - n ELSE 0
    BY <1>5, <2>1
  <2> QED BY <2>1, <2>2, <2>3, <2>4
<1>7. Rest(s, n) = u
  BY <1>1, <1>3 DEF Rest
<1> QED BY <1>1, <1>5, <1>6, <1>7

-----------------------------------------------------------------------------
(* The word of a reply                                                     *)

\* All bytes of a reply.
Word(r) ==
    IF r.kind = "binary"
    THEN <<Zero, Len(r.data) \div Base, Len(r.data) % Base>> \o r.data
    ELSE [p \in 1 .. 2 + 2 * Len(r.lines) |->
            IF p % 2 = 0 /\ p <= 2 * Len(r.lines) THEN r.lines[p \div 2] ELSE Newline]

LEMMA ReplyFacts ==
    ASSUME NEW r \in Replies
    PROVE  /\ r.kind \in {"hash", "error", "binary"}
           /\ r.lines \in Seq(Lines) /\ Len(r.lines) \in Nat
           /\ r.data \in Seq(0 .. 2) /\ Len(r.data) \in 0 .. 8
           /\ \A i \in 1 .. Len(r.lines) : r.lines[i] \in Lines
           /\ \A i \in 1 .. Len(r.data) : r.data[i] \in 0 .. 2
           /\ r.kind = "error" => Len(r.lines) = 2
<1>1. /\ r.kind \in {"hash", "error", "binary"}
      /\ r.lines \in Seq(Lines) /\ r.data \in Seq(0 .. 2)
      /\ Len(r.data) < 9
      /\ r.kind = "error" => Len(r.lines) = 2
  BY RepliesAssumption DEF Bytes, Base
<1>2. Len(r.lines) \in Nat /\ Len(r.data) \in Nat
  BY <1>1, LenProperties
<1>3. \A i \in 1 .. Len(r.lines) : r.lines[i] \in Lines
  BY <1>1, ElementOfSeq
<1>4. \A i \in 1 .. Len(r.data) : r.data[i] \in 0 .. 2
  BY <1>1, ElementOfSeq
<1>5. Len(r.data) \in 0 .. 8
  <2>1. PICK l \in Nat : l = Len(r.data)
    BY <1>2
  <2>2. l < 9
    BY <1>1, <2>1
  <2>3. l \in 0 .. 8
    BY <2>2
  <2> QED BY <2>1, <2>3
<1> QED BY <1>1, <1>2, <1>3, <1>4, <1>5

LEMMA AsciiWord ==
    ASSUME NEW r \in Replies, r.kind # "binary", NEW n \in Nat, n = Len(r.lines)
    PROVE  /\ Word(r) \in Seq(Stream) /\ Len(Word(r)) = 2 + 2 * n
           /\ Word(r)[1] = Newline /\ Word(r)[2 + 2 * n] = Newline
           /\ \A i \in 1 .. n : Word(r)[2 * i] = r.lines[i] /\ Word(r)[1 + 2 * i] = Newline
<1>1. PICK w : w = [p \in 1 .. 2 + 2 * n |->
                     IF p % 2 = 0 /\ p <= 2 * n THEN r.lines[p \div 2] ELSE Newline]
  OBVIOUS
<1>2. Word(r) = w
  BY <1>1 DEF Word
<1>3. \A p \in 1 .. 2 + 2 * n :
         w[p] = IF p % 2 = 0 /\ p <= 2 * n THEN r.lines[p \div 2] ELSE Newline
  BY <1>1
<1>4. \A p \in 1 .. 2 + 2 * n : p % 2 = 0 /\ p <= 2 * n => p \div 2 \in 1 .. n
  OBVIOUS
<1>5. \A p \in 1 .. 2 + 2 * n : w[p] \in Stream
  <2>1. Newline \in Stream /\ Lines \subseteq Stream
    BY DEF Stream, Newline, Bytes, Base
  <2>2. \A i \in 1 .. n : r.lines[i] \in Lines
    BY ReplyFacts
  <2> SUFFICES ASSUME NEW p \in 1 .. 2 + 2 * n PROVE w[p] \in Stream
    OBVIOUS
  <2>3. CASE p % 2 = 0 /\ p <= 2 * n
    <3>1. w[p] = r.lines[p \div 2] /\ p \div 2 \in 1 .. n
      BY <1>3, <1>4, <2>3
    <3> QED BY <2>1, <2>2, <3>1
  <2>4. CASE ~(p % 2 = 0 /\ p <= 2 * n)
    BY <1>3, <2>1, <2>4
  <2> QED BY <2>3, <2>4
<1>6. w \in Seq(Stream) /\ Len(w) = 2 + 2 * n
  <2>1. PICK c \in Nat : c = 2 + 2 * n
    OBVIOUS
  <2>2. w \in [1 .. c -> Stream]
    BY <1>1, <1>5, <2>1
  <2> QED BY <2>1, <2>2
<1>7. w[1] = Newline /\ w[2 + 2 * n] = Newline
  <2>1. 1 % 2 # 0 /\ 1 \in 1 .. 2 + 2 * n /\ 2 + 2 * n \in 1 .. 2 + 2 * n /\ ~(2 + 2 * n <= 2 * n)
    OBVIOUS
  <2> QED BY <1>3, <2>1
<1>8. ASSUME NEW i \in 1 .. n PROVE w[2 * i] = r.lines[i] /\ w[1 + 2 * i] = Newline
  <2>1. /\ 2 * i \in 1 .. 2 + 2 * n /\ (2 * i) % 2 = 0 /\ 2 * i <= 2 * n /\ (2 * i) \div 2 = i
        /\ 1 + 2 * i \in 1 .. 2 + 2 * n /\ (1 + 2 * i) % 2 # 0
    OBVIOUS
  <2> QED BY <1>3, <2>1
<1> QED BY <1>2, <1>6, <1>7, <1>8

\* A size is two digits.
LEMMA TwoDigits ==
    ASSUME NEW n \in 0 .. 8
    PROVE  n \div 3 \in 0 .. 2 /\ n % 3 \in 0 .. 2 /\ (n \div 3) * 3 + (n % 3) = n
OBVIOUS

LEMMA BinaryWord ==
    ASSUME NEW r \in Replies, r.kind = "binary", NEW n \in Nat, n = Len(r.data)
    PROVE  /\ Word(r) \in Seq(Stream) /\ Len(Word(r)) = 3 + n
           /\ Word(r)[1] = Zero /\ Word(r)[2] = n \div Base /\ Word(r)[3] = n % Base
           /\ \A i \in 1 .. n : Word(r)[3 + i] = r.data[i]
           /\ n \div Base \in 0 .. 2 /\ n % Base \in 0 .. 2
           /\ (n \div Base) * Base + (n % Base) = n
<1>1. n \div Base \in 0 .. 2 /\ n % Base \in 0 .. 2 /\ (n \div Base) * Base + (n % Base) = n
  <2>1. n \in 0 .. 8
    BY ReplyFacts
  <2> QED BY <2>1, TwoDigits DEF Base
<1>2. PICK a \in 0 .. 2, b \in 0 .. 2 : a = n \div Base /\ b = n % Base
  BY <1>1
<1>3. PICK h : h = <<Zero, a, b>>
  OBVIOUS
<1>4. 0 .. 2 \subseteq Stream
  BY DEF Stream, Bytes, Base
<1>5. h \in Seq(0 .. 2) /\ Len(h) = 3 /\ h[1] = Zero /\ h[2] = a /\ h[3] = b
  BY <1>3 DEF Zero
<1>6. PICK w : w = h \o r.data
  OBVIOUS
<1>7. /\ w \in Seq(0 .. 2) /\ Len(w) = 3 + n
      /\ \A i \in 1 .. 3 + n : w[i] = IF i <= 3 THEN h[i] ELSE r.data[i - 3]
  <2>1. r.data \in Seq(0 .. 2)
    BY ReplyFacts
  <2>2. /\ w \in Seq(0 .. 2) /\ Len(w) = Len(h) + Len(r.data)
        /\ \A i \in 1 .. Len(h) + Len(r.data) :
              w[i] = IF i <= Len(h) THEN h[i] ELSE r.data[i - Len(h)]
    BY <1>5, <1>6, <2>1, ConcatProperties
  <2> QED BY <1>5, <2>2
<1>8. w \in Seq(Stream)
  BY <1>4, <1>7, SeqMonotonic
<1>9. w[1] = Zero /\ w[2] = a /\ w[3] = b
  <2>1. 1 \in 1 .. 3 + n /\ 2 \in 1 .. 3 + n /\ 3 \in 1 .. 3 + n
    OBVIOUS
  <2>2. w[1] = h[1] /\ w[2] = h[2] /\ w[3] = h[3]
    BY <1>7, <2>1
  <2> QED BY <1>5, <2>2
<1>10. ASSUME NEW i \in 1 .. n PROVE w[3 + i] = r.data[i]
  <2>1. 3 + i \in 1 .. 3 + n /\ ~(3 + i <= 3) /\ (3 + i) - 3 = i
    OBVIOUS
  <2> QED BY <1>7, <2>1
<1>11. Word(r) = w
  BY <1>2, <1>3, <1>6 DEF Word
<1> QED BY <1>1, <1>2, <1>7, <1>8, <1>9, <1>10, <1>11

\* The writes of a reply cut its word into pieces: start[m] bytes are written when m
\* writes are made.
Pieces(start, r) ==
    LET n == Len(Writes(r)) IN
    /\ n \in Nat
    /\ start \in [0 .. n -> Nat]
    /\ start[0] = 0 /\ start[n] = Len(Word(r))
    /\ \A a, b \in 0 .. n : a <= b => start[a] <= start[b]
    /\ \A m \in 1 .. n : /\ Len(Writes(r)[m]) = start[m] - start[m - 1]
                         /\ \A j \in 1 .. Len(Writes(r)[m]) :
                               Writes(r)[m][j] = Word(r)[start[m - 1] + j]

LEMMA HashPieces ==
    ASSUME NEW r \in Replies, r.kind = "hash"
    PROVE  Writes(r) \in Seq(Seq(Stream)) /\ \E start : Pieces(start, r)
<1> DEFINE L == r.lines
<1>1. PICK n \in Nat : n = Len(L)
  BY ReplyFacts
<1>2. Writes(r) = HashReply(L)
  BY Zenon DEF Writes
<1>3. PICK a, mid, e : /\ a = <<StartHash>> /\ e = <<EndHash>>
                       /\ mid = [i \in 1 .. n |-> <<L[i], Newline>>]
  OBVIOUS
<1>4. Newline \in Stream /\ \A i \in 1 .. n : L[i] \in Stream
  BY <1>1, ReplyFacts DEF Stream, Newline, Bytes, Base
<1>5. <<Newline>> \in Seq(Stream) /\ StartHash = <<Newline>> /\ EndHash = <<Newline>>
  BY <1>4 DEF StartHash, EndHash
<1>6. \A i \in 1 .. n : <<L[i], Newline>> \in Seq(Stream)
  BY <1>4
<1>7. /\ a \in Seq(Seq(Stream)) /\ Len(a) = 1 /\ a[1] = <<Newline>>
      /\ e \in Seq(Seq(Stream)) /\ Len(e) = 1 /\ e[1] = <<Newline>>
  BY <1>3, <1>5
<1>8. mid \in Seq(Seq(Stream)) /\ Len(mid) = n /\ \A i \in 1 .. n : mid[i] = <<L[i], Newline>>
  BY <1>3, <1>6
<1>9. PICK am : am = a \o mid
  OBVIOUS
<1>10. /\ am \in Seq(Seq(Stream)) /\ Len(am) = 1 + n
       /\ \A i \in 1 .. 1 + n : am[i] = IF i <= 1 THEN a[i] ELSE mid[i - 1]
  <2>1. /\ am \in Seq(Seq(Stream)) /\ Len(am) = Len(a) + Len(mid)
        /\ \A i \in 1 .. Len(a) + Len(mid) :
              am[i] = IF i <= Len(a) THEN a[i] ELSE mid[i - Len(a)]
    BY <1>7, <1>8, <1>9, ConcatProperties
  <2> QED BY <1>7, <1>8, <2>1
<1>11. PICK w : w = am \o e
  OBVIOUS
<1>12. /\ w \in Seq(Seq(Stream)) /\ Len(w) = n + 2
       /\ \A i \in 1 .. n + 2 : w[i] = IF i <= n + 1 THEN am[i] ELSE e[i - (n + 1)]
  <2>1. /\ w \in Seq(Seq(Stream)) /\ Len(w) = Len(am) + Len(e)
        /\ \A i \in 1 .. Len(am) + Len(e) :
              w[i] = IF i <= Len(am) THEN am[i] ELSE e[i - Len(am)]
    BY <1>7, <1>10, <1>11, ConcatProperties
  <2>2. Len(am) = n + 1 /\ Len(am) + Len(e) = n + 2
    BY <1>7, <1>10
  <2> QED BY <2>1, <2>2
<1>13. Writes(r) = w
  BY <1>1, <1>2, <1>3, <1>9, <1>11 DEF HashReply
<1>14. w[1] = <<Newline>> /\ w[n + 2] = <<Newline>>
  <2>1. am[1] = <<Newline>>
    BY <1>7, <1>10
  <2>2. w[1] = am[1] /\ w[n + 2] = e[1]
    BY <1>12
  <2> QED BY <1>7, <2>1, <2>2
<1>15. ASSUME NEW m \in 2 .. n + 1 PROVE w[m] = <<L[m - 1], Newline>>
  <2>1. w[m] = am[m] /\ am[m] = mid[m - 1] /\ m - 1 \in 1 .. n
    BY <1>10, <1>12
  <2> QED BY <1>8, <2>1
<1>16. PICK s : s = [m \in 0 .. n + 2 |-> IF m = 0 THEN 0 ELSE IF m = n + 2 THEN 2 + 2 * n
                                                                           ELSE 2 * m - 1]
  OBVIOUS
<1>17. /\ s \in [0 .. n + 2 -> Nat] /\ s[0] = 0 /\ s[n + 2] = 2 + 2 * n
       /\ \A m \in 1 .. n + 1 : s[m] = 2 * m - 1
  BY <1>16
<1>18. \A b, c \in 0 .. n + 2 : b <= c => s[b] <= s[c]
  BY <1>16
<1>19. /\ Len(Word(r)) = 2 + 2 * n /\ Word(r)[1] = Newline /\ Word(r)[2 + 2 * n] = Newline
       /\ \A i \in 1 .. n : Word(r)[2 * i] = L[i] /\ Word(r)[1 + 2 * i] = Newline
  BY <1>1, AsciiWord
<1>20. ASSUME NEW m \in 1 .. n + 2
       PROVE  /\ Len(w[m]) = s[m] - s[m - 1]
              /\ \A j \in 1 .. Len(w[m]) : w[m][j] = Word(r)[s[m - 1] + j]
  <2>1. CASE m = 1
    <3>1. s[m] = 1 /\ s[m - 1] = 0
      BY <1>17, <2>1
    <3>2. w[m] = <<Newline>> /\ Len(w[m]) = 1 /\ w[m][1] = Newline
      BY <1>14, <2>1
    <3> QED BY <1>19, <3>1, <3>2
  <2>2. CASE m = n + 2
    <3>1. s[m] = 2 + 2 * n /\ s[m - 1] = 1 + 2 * n
      <4>1. n + 1 \in 1 .. n + 1 /\ m - 1 = n + 1
        BY <2>2
      <4> QED BY <1>17, <2>2, <4>1
    <3>2. w[m] = <<Newline>> /\ Len(w[m]) = 1 /\ w[m][1] = Newline
      BY <1>14, <2>2
    <3>3. s[m] - s[m - 1] = 1 /\ s[m - 1] + 1 = 2 + 2 * n
      BY <3>1
    <3> QED BY <1>19, <3>2, <3>3
  <2>3. CASE m \in 2 .. n + 1
    <3>1. s[m] = 2 * m - 1 /\ s[m - 1] = 2 * m - 3
      <4>1. m \in 1 .. n + 1 /\ m - 1 \in 1 .. n + 1
        BY <2>3
      <4> QED BY <1>17, <4>1
    <3>2. PICK i \in 1 .. n : i = m - 1
      BY <2>3
    <3>3. w[m] = <<L[i], Newline>> /\ Len(w[m]) = 2 /\ w[m][1] = L[i] /\ w[m][2] = Newline
      BY <1>15, <2>3, <3>2
    <3>4. s[m] - s[m - 1] = 2 /\ s[m - 1] + 1 = 2 * i /\ s[m - 1] + 2 = 1 + 2 * i
      BY <3>1, <3>2
    <3>5. Word(r)[s[m - 1] + 1] = L[i] /\ Word(r)[s[m - 1] + 2] = Newline
      BY <1>19, <3>4
    <3> QED BY <3>3, <3>4, <3>5
  <2> QED BY <2>1, <2>2, <2>3
<1>21. Pieces(s, r)
  <2>1. Len(Writes(r)) = n + 2 /\ n + 2 \in Nat
    BY <1>12, <1>13
  <2> QED BY <1>13, <1>17, <1>18, <1>19, <1>20, <2>1 DEF Pieces
<1> QED BY <1>12, <1>13, <1>21

LEMMA ErrorPieces ==
    ASSUME NEW r \in Replies, r.kind = "error"
    PROVE  Writes(r) \in Seq(Seq(Stream)) /\ \E start : Pieces(start, r)
<1>1. Writes(r) = ErrorReply(r.lines)
  BY Zenon DEF Writes
<1>2. /\ Len(r.lines) = 2 /\ r.lines[1] \in Stream /\ r.lines[2] \in Stream
      /\ Newline \in Stream
  <2>1. Len(r.lines) = 2 /\ \A i \in 1 .. Len(r.lines) : r.lines[i] \in Lines
    BY ReplyFacts
  <2> QED BY <2>1 DEF Stream, Newline, Bytes, Base
<1>3. PICK c, d : c = r.lines[1] /\ d = r.lines[2]
  OBVIOUS
<1>4. PICK mid, a, x : /\ mid = <<c, Newline, d, Newline>>
                       /\ a = StartHash \o mid
                       /\ x = a \o EndHash
  OBVIOUS
<1>5. /\ mid \in Seq(Stream) /\ Len(mid) = 4
      /\ mid[1] = c /\ mid[2] = Newline /\ mid[3] = d /\ mid[4] = Newline
  BY <1>2, <1>3, <1>4
<1>6. /\ StartHash \in Seq(Stream) /\ Len(StartHash) = 1 /\ StartHash[1] = Newline
      /\ EndHash \in Seq(Stream) /\ Len(EndHash) = 1 /\ EndHash[1] = Newline
  BY <1>2 DEF StartHash, EndHash
<1>7. /\ a \in Seq(Stream) /\ Len(a) = 5
      /\ \A i \in 1 .. 5 : a[i] = IF i <= 1 THEN StartHash[i] ELSE mid[i - 1]
  <2>1. /\ a \in Seq(Stream) /\ Len(a) = Len(StartHash) + Len(mid)
        /\ \A i \in 1 .. Len(StartHash) + Len(mid) :
              a[i] = IF i <= Len(StartHash) THEN StartHash[i] ELSE mid[i - Len(StartHash)]
    <3>1. a = StartHash \o mid /\ StartHash \in Seq(Stream) /\ mid \in Seq(Stream)
      BY <1>4, <1>5, <1>6
    <3> QED BY <3>1, ConcatProperties, ZenonT(30)
  <2> QED BY <1>5, <1>6, <2>1
<1>8. /\ x \in Seq(Stream) /\ Len(x) = 6
      /\ \A i \in 1 .. 6 : x[i] = IF i <= 5 THEN a[i] ELSE EndHash[i - 5]
  <2>1. /\ x \in Seq(Stream) /\ Len(x) = Len(a) + Len(EndHash)
        /\ \A i \in 1 .. Len(a) + Len(EndHash) :
              x[i] = IF i <= Len(a) THEN a[i] ELSE EndHash[i - Len(a)]
    BY <1>4, <1>6, <1>7, ConcatProperties
  <2> QED BY <1>6, <1>7, <2>1
<1>9. /\ x[1] = Newline /\ x[2] = c /\ x[3] = Newline /\ x[4] = d /\ x[5] = Newline
      /\ x[6] = Newline
  <2>1. a[1] = Newline /\ a[2] = c /\ a[3] = Newline /\ a[4] = d /\ a[5] = Newline
    BY <1>5, <1>6, <1>7
  <2>2. x[6] = EndHash[1] /\ \A i \in 1 .. 5 : x[i] = a[i]
    BY <1>8
  <2> QED BY <1>6, <2>1, <2>2
<1>10. Writes(r) = <<x>>
  BY <1>1, <1>3, <1>4 DEF ErrorReply
<1>11. PICK w : w = <<x>>
  OBVIOUS
<1>12. w \in Seq(Seq(Stream)) /\ Len(w) = 1 /\ w[1] = x
  BY <1>8, <1>11
<1>13. /\ Len(Word(r)) = 6 /\ Word(r)[1] = Newline /\ Word(r)[2] = c /\ Word(r)[3] = Newline
       /\ Word(r)[4] = d /\ Word(r)[5] = Newline /\ Word(r)[6] = Newline
  <2>1. PICK n \in Nat : n = 2
    OBVIOUS
  <2>2. /\ Len(Word(r)) = 2 + 2 * n /\ Word(r)[1] = Newline /\ Word(r)[2 + 2 * n] = Newline
        /\ \A i \in 1 .. n : Word(r)[2 * i] = r.lines[i] /\ Word(r)[1 + 2 * i] = Newline
    BY <1>2, <2>1, AsciiWord
  <2> QED BY <1>3, <2>1, <2>2
<1>14. PICK s : s = [m \in 0 .. 1 |-> 6 * m]
  OBVIOUS
<1>15. /\ s \in [0 .. 1 -> Nat] /\ s[0] = 0 /\ s[1] = 6
       /\ \A b, e \in 0 .. 1 : b <= e => s[b] <= s[e]
  BY <1>14
<1>16. ASSUME NEW m \in 1 .. 1
       PROVE  /\ Len(w[m]) = s[m] - s[m - 1]
              /\ \A j \in 1 .. Len(w[m]) : w[m][j] = Word(r)[s[m - 1] + j]
  <2>1. m = 1 /\ s[m] = 6 /\ s[m - 1] = 0 /\ w[m] = x
    BY <1>12, <1>15
  <2>2. \A j \in 1 .. 6 : x[j] = Word(r)[j] /\ s[m - 1] + j = j
    BY <1>9, <1>13, <2>1
  <2>3. Len(w[m]) = 6 /\ s[m] - s[m - 1] = 6
    BY <1>8, <2>1
  <2> QED BY <2>1, <2>2, <2>3
<1>17. Pieces(s, r)
  <2>1. Len(Writes(r)) = 1 /\ 1 \in Nat
    BY <1>10, <1>11, <1>12
  <2> QED BY <1>10, <1>11, <1>13, <1>15, <1>16, <2>1 DEF Pieces
<1> QED BY <1>10, <1>11, <1>12, <1>17

LEMMA BinaryPieces ==
    ASSUME NEW r \in Replies, r.kind = "binary"
    PROVE  Writes(r) \in Seq(Seq(Stream)) /\ \E start : Pieces(start, r)
<1>1. Writes(r) = BinaryBlock(r.data)
  BY Zenon DEF Writes
<1>2. PICK n \in Nat : n = Len(r.data)
  BY ReplyFacts
<1>3. PICK a, b : a = n \div Base /\ b = n % Base
  OBVIOUS
<1>4. /\ Len(Word(r)) = 3 + n
      /\ Word(r)[1] = Zero /\ Word(r)[2] = a /\ Word(r)[3] = b
      /\ \A i \in 1 .. n : Word(r)[3 + i] = r.data[i]
      /\ a \in 0 .. 2 /\ b \in 0 .. 2
  BY <1>2, <1>3, BinaryWord
<1>5. 0 .. 2 \subseteq Stream /\ Zero \in Stream
  BY DEF Stream, Bytes, Base, Zero
<1>6. r.data \in Seq(Stream)
  <2>1. r.data \in Seq(0 .. 2)
    BY ReplyFacts
  <2> QED BY <1>5, <2>1, SeqMonotonic
<1>7. PICK w, x, y, z : /\ w = <<x, y, z>> /\ x = <<Zero>> /\ y = <<a, b>> /\ z = r.data
  OBVIOUS
<1>8. /\ x \in Seq(Stream) /\ Len(x) = 1 /\ x[1] = Zero
      /\ y \in Seq(Stream) /\ Len(y) = 2 /\ y[1] = a /\ y[2] = b
      /\ z \in Seq(Stream) /\ Len(z) = n
  BY <1>2, <1>4, <1>5, <1>6, <1>7
<1>9. w \in Seq(Seq(Stream)) /\ Len(w) = 3 /\ w[1] = x /\ w[2] = y /\ w[3] = z
  BY <1>7, <1>8
<1>10. Writes(r) = w
  BY <1>1, <1>2, <1>3, <1>7 DEF BinaryBlock
<1>11. PICK s : s = [m \in 0 .. 3 |-> IF m = 0 THEN 0 ELSE IF m = 1 THEN 1
                                     ELSE IF m = 2 THEN 3 ELSE 3 + n]
  OBVIOUS
<1>12. /\ s \in [0 .. 3 -> Nat] /\ s[0] = 0 /\ s[1] = 1 /\ s[2] = 3 /\ s[3] = 3 + n
       /\ \A c, d \in 0 .. 3 : c <= d => s[c] <= s[d]
  BY <1>11
<1>13. ASSUME NEW m \in 1 .. 3
       PROVE  /\ Len(w[m]) = s[m] - s[m - 1]
              /\ \A j \in 1 .. Len(w[m]) : w[m][j] = Word(r)[s[m - 1] + j]
  <2>1. CASE m = 1
    <3>1. w[m] = x /\ s[m] = 1 /\ s[m - 1] = 0
      BY <1>9, <1>12, <2>1
    <3>2. s[m] - s[m - 1] = 1 /\ s[m - 1] + 1 = 1 /\ Len(w[m]) = 1
      BY <1>8, <3>1
    <3>3. w[m][1] = Word(r)[s[m - 1] + 1]
      BY <1>4, <1>8, <3>1, <3>2
    <3> QED BY <3>2, <3>3
  <2>2. CASE m = 2
    <3>1. w[m] = y /\ s[m] = 3 /\ s[m - 1] = 1
      BY <1>9, <1>12, <2>2
    <3>2. s[m] - s[m - 1] = 2 /\ s[m - 1] + 1 = 2 /\ s[m - 1] + 2 = 3 /\ Len(w[m]) = 2
      BY <1>8, <3>1
    <3>3. w[m][1] = Word(r)[s[m - 1] + 1] /\ w[m][2] = Word(r)[s[m - 1] + 2]
      BY <1>4, <1>8, <3>1, <3>2
    <3> QED BY <3>2, <3>3
  <2>3. CASE m = 3
    <3>1. w[m] = z /\ s[m] = 3 + n /\ s[m - 1] = 3
      BY <1>9, <1>12, <2>3
    <3>2. Len(z) = s[m] - s[m - 1]
      BY <1>8, <3>1
    <3> QED BY <1>4, <1>7, <1>8, <3>1, <3>2
  <2> QED BY <2>1, <2>2, <2>3
<1>14. Pieces(s, r)
  <2>1. Len(Writes(r)) = 3 /\ 3 \in Nat
    BY <1>9, <1>10
  <2> QED BY <1>4, <1>10, <1>12, <1>13, <2>1 DEF Pieces
<1> QED BY <1>9, <1>10, <1>14

\* Where they begin.
Start(r) == CHOOSE start : Pieces(start, r)

LEMMA WritesAre ==
    ASSUME NEW r \in Replies
    PROVE  Writes(r) \in Seq(Seq(Stream)) /\ Pieces(Start(r), r)
<1>1. Writes(r) \in Seq(Seq(Stream)) /\ \E start : Pieces(start, r)
  BY HashPieces, ErrorPieces, BinaryPieces, ReplyFacts
<1> QED BY <1>1 DEF Start

-----------------------------------------------------------------------------
(* Types                                                                   *)

\* The commands that are sent and have no result are the one the client waits for.
Waiting == IF pc \in {"first", "line", "header", "data"} THEN 1 ELSE 0

Texts   == Lines \cup {Junk}
Results == [kind : {"aborted", "invalid", "ascii", "panic", "malformed", "binary"},
            map : SUBSET Texts, data : Seq(Stream)]

TypeInv ==
    /\ TypeOK
    /\ served \in Seq(Replies) /\ results \in Seq(Results)
    /\ requests + Len(served) = Len(results) + Waiting
    /\ Len(results) + Waiting <= MaxCommands
    /\ closed => todo = <<>>
    /\ pc # "line" => map = {}

LEMMA TypeInit == Init => TypeInv
<1> SUFFICES ASSUME Init PROVE TypeInv
  OBVIOUS
<1> USE DEF Init
<1>1. <<>> \in Seq(Stream) /\ <<>> \in Seq(Seq(Stream)) /\ <<>> \in Seq(Replies)
      /\ <<>> \in Seq(Results) /\ Len(<<>>) = 0
  BY EmptySeq
<1>2. MaxCommands \in Nat /\ SendBuffer \in Nat
  BY SizesAssumption
<1>3. Waiting = 0
  BY DEF Waiting
<1>4. 0 \in 0 .. MaxCommands /\ 0 \in 0 .. Base * Base - 1 /\ 0 <= SendBuffer /\ 0 <= MaxCommands
  BY <1>2 DEF Base
<1>5. TypeOK
  BY <1>1, <1>4 DEF TypeOK
<1> QED BY <1>1, <1>2, <1>3, <1>5 DEF TypeInv

\* TypeInv with its numbers spelt out.
LEMMA TypeFacts ==
    ASSUME TypeInv
    PROVE  /\ requests \in Nat /\ Len(served) \in Nat /\ Len(results) \in Nat
           /\ Waiting \in {0, 1}
           /\ todo \in Seq(Seq(Stream)) /\ wire \in Seq(Stream) /\ buf \in Seq(Stream)
           /\ Len(wire) \in Nat /\ Len(buf) \in Nat /\ Len(todo) \in Nat
           /\ Len(wire) <= SendBuffer /\ SendBuffer \in Nat /\ MaxCommands \in Nat
           /\ off \in Nat /\ size \in 0 .. 8
           /\ pc \in {"idle", "first", "line", "header", "data", "ended"}
<1>1. MaxCommands \in Nat /\ SendBuffer \in Nat
  BY SizesAssumption
<1>2. /\ requests \in 0 .. MaxCommands /\ off \in Nat /\ size \in 0 .. 8
      /\ todo \in Seq(Seq(Stream)) /\ wire \in Seq(Stream) /\ buf \in Seq(Stream)
      /\ served \in Seq(Replies) /\ results \in Seq(Results) /\ Len(wire) <= SendBuffer
      /\ pc \in {"idle", "first", "line", "header", "data", "ended"}
  BY DEF TypeInv, TypeOK, Base
<1>3. /\ Len(served) \in Nat /\ Len(results) \in Nat
      /\ Len(wire) \in Nat /\ Len(buf) \in Nat /\ Len(todo) \in Nat
  BY <1>2, LenProperties
<1>4. Waiting \in {0, 1}
  BY DEF Waiting
<1>5. requests \in Nat
  BY <1>1, <1>2
<1> QED BY <1>1, <1>2, <1>3, <1>4, <1>5

\* The histories stay as short as the bound on commands.
LEMMA ShortHistories ==
    ASSUME NEW q \in Nat, NEW n \in Nat, NEW m \in Nat, NEW w \in {0, 1}, q + n = m + w,
           m + w <= MaxCommands
    PROVE  q \in 0 .. MaxCommands /\ n <= MaxCommands /\ m <= MaxCommands
BY SizesAssumption

LEMMA AskType ==
    ASSUME TypeInv, execute_command
    PROVE  TypeInv'
<1>1. /\ pc = "idle" /\ pc' = "first" /\ requests' = requests + 1
      /\ Len(results) < MaxCommands
      /\ UNCHANGED <<todo, served, wire, closed, buf, map, size, results, off, broken>>
  BY DEF execute_command
<1>2. Waiting = 0 /\ Waiting' = 1
  BY <1>1 DEF Waiting
<1>3. /\ requests' \in Nat /\ requests' + Len(served') = Len(results') + Waiting'
      /\ Len(results') + Waiting' <= MaxCommands
  BY <1>1, <1>2, TypeFacts DEF TypeInv
<1>4. requests' \in 0 .. MaxCommands
  BY <1>1, <1>2, <1>3, TypeFacts, ShortHistories
<1>5. TypeOK'
  BY <1>1, <1>4 DEF TypeInv, TypeOK
<1> QED BY <1>1, <1>3, <1>5 DEF TypeInv

LEMMA ExecuteType ==
    ASSUME TypeInv, Execute
    PROVE  TypeInv'
<1>1. PICK r \in Replies : todo' = Writes(r) /\ served' = Append(served, r)
  BY DEF Execute
<1>2. /\ ~closed /\ requests > 0 /\ requests' = requests - 1 /\ off' = 0
      /\ UNCHANGED <<wire, closed, pc, buf, map, size, results, broken>>
  BY DEF Execute, clientVars
<1>3. todo' \in Seq(Seq(Stream))
  BY <1>1, WritesAre
<1>4. served' \in Seq(Replies) /\ Len(served') = Len(served) + 1
  BY <1>1, AppendProperties DEF TypeInv
<1>5. Waiting' = Waiting
  BY <1>2 DEF Waiting
<1>6. /\ requests' \in Nat /\ requests' + Len(served') = Len(results') + Waiting'
      /\ Len(results') + Waiting' <= MaxCommands
  <2>1. /\ requests + Len(served) = Len(results) + Waiting
        /\ Len(results) + Waiting <= MaxCommands
    BY DEF TypeInv
  <2>2. requests - 1 \in Nat /\ (requests - 1) + (Len(served) + 1) = requests + Len(served)
    BY <1>2, TypeFacts
  <2> QED BY <1>2, <1>4, <1>5, <2>1, <2>2
<1>7. requests' \in 0 .. MaxCommands /\ Len(served') <= MaxCommands
  BY <1>2, <1>4, <1>5, <1>6, TypeFacts, ShortHistories
<1>8. TypeOK'
  BY <1>2, <1>3, <1>7 DEF TypeInv, TypeOK
<1> QED BY <1>2, <1>4, <1>6, <1>8 DEF TypeInv

\* What a write() leaves in the connection.
LEMMA WriteFacts ==
    ASSUME TypeInv, Write
    PROVE  /\ Head(todo) \in Seq(Stream) /\ Tail(todo) \in Seq(Seq(Stream))
           /\ Len(todo) > 0 /\ Head(todo) = todo[1] /\ Len(Head(todo)) \in Nat
           /\ Len(Tail(todo)) = Len(todo) - 1
           /\ \A q \in 1 .. Len(todo) - 1 : Tail(todo)[q] = todo[q + 1]
           /\ \E room \in Nat :
                 /\ room = SendBuffer - Len(wire)
                 /\ wire' = wire \o First(Head(todo), room)
                 /\ broken' = (broken \/ Len(Head(todo)) > room)
           /\ todo' = Tail(todo)
           /\ UNCHANGED <<requests, served, closed, pc, buf, map, size, results, off>>
<1>1. todo # <<>> /\ todo \in Seq(Seq(Stream))
  BY TypeFacts DEF Write
<1>2. /\ Head(todo) \in Seq(Stream) /\ Tail(todo) \in Seq(Seq(Stream))
      /\ Len(Tail(todo)) = Len(todo) - 1
      /\ \A q \in 1 .. Len(Tail(todo)) : Tail(todo)[q] = todo[q + 1]
  BY <1>1, HeadTailProperties
<1>3. Head(todo) = todo[1] /\ Len(todo) > 0
  BY <1>1, EmptySeq
<1>4. SendBuffer - Len(wire) \in Nat
  BY TypeFacts
<1>5. /\ wire' = wire \o First(Head(todo), SendBuffer - Len(wire))
      /\ broken' = (broken \/ Len(Head(todo)) > SendBuffer - Len(wire))
      /\ todo' = Tail(todo)
      /\ UNCHANGED <<requests, served, closed, pc, buf, map, size, results, off>>
  BY DEF Write, clientVars
<1>6. Len(Head(todo)) \in Nat
  BY <1>2, LenProperties
<1> QED BY <1>2, <1>3, <1>4, <1>5, <1>6

LEMMA WriteType ==
    ASSUME TypeInv, Write
    PROVE  TypeInv'
<1>1. PICK room \in Nat : /\ room = SendBuffer - Len(wire)
                          /\ wire' = wire \o First(Head(todo), room)
                          /\ broken' = (broken \/ Len(Head(todo)) > room)
  BY WriteFacts
<1>2. /\ First(Head(todo), room) \in Seq(Stream) /\ Len(First(Head(todo), room)) <= room
      /\ Len(First(Head(todo), room)) \in Nat
  <2>1. Head(todo) \in Seq(Stream)
    BY WriteFacts
  <2> QED BY <2>1, FirstFacts
<1>3. wire' \in Seq(Stream) /\ Len(wire') = Len(wire) + Len(First(Head(todo), room))
  BY <1>1, <1>2, TypeFacts, ConcatProperties
<1>4. Len(wire') <= SendBuffer
  BY <1>1, <1>2, <1>3, TypeFacts
<1>5. /\ todo' \in Seq(Seq(Stream))
      /\ UNCHANGED <<requests, served, closed, pc, buf, map, size, results, off>>
  BY WriteFacts
<1>6. ~closed
  BY DEF TypeInv, Write
<1>7. broken' \in BOOLEAN
  BY <1>1 DEF TypeInv, TypeOK
<1>8. TypeOK'
  BY <1>3, <1>4, <1>5, <1>7 DEF TypeInv, TypeOK
<1>9. Waiting' = Waiting
  BY <1>5 DEF Waiting
<1> QED BY <1>5, <1>6, <1>8, <1>9 DEF TypeInv

LEMMA CloseType ==
    ASSUME TypeInv, Close
    PROVE  TypeInv'
<1>1. /\ closed' = TRUE /\ todo' = <<>> /\ broken' = (broken \/ todo # <<>>)
      /\ UNCHANGED <<requests, served, wire, pc, buf, map, size, results, off>>
  BY DEF Close, clientVars
<1>2. <<>> \in Seq(Seq(Stream)) /\ broken' \in BOOLEAN
  BY <1>1, EmptySeq DEF TypeInv, TypeOK
<1>3. TypeOK'
  BY <1>1, <1>2 DEF TypeInv, TypeOK
<1>4. Waiting' = Waiting
  BY <1>1 DEF Waiting
<1> QED BY <1>1, <1>3, <1>4 DEF TypeInv

\* Whatever get_reply returns, the next call starts anew.
LEMMA ReturnType ==
    ASSUME TypeInv, Waiting = 1, NEW r \in Results, Return(r),
           UNCHANGED <<serverVars, wire, closed, off, broken>>
    PROVE  TypeInv'
<1>1. /\ results' = Append(results, r) /\ buf' = <<>> /\ map' = {} /\ size' = 0
      /\ pc' \in {"idle", "ended"}
      /\ UNCHANGED <<requests, todo, served, wire, closed, off, broken>>
  BY DEF Return, serverVars
<1>2. results' \in Seq(Results) /\ Len(results') = Len(results) + 1
  BY <1>1, AppendProperties DEF TypeInv
<1>3. Waiting' = 0
  BY <1>1 DEF Waiting
<1>4. /\ requests' + Len(served') = Len(results') + Waiting'
      /\ Len(results') + Waiting' <= MaxCommands
  BY <1>1, <1>2, <1>3, TypeFacts DEF TypeInv
<1>5. Len(results') <= MaxCommands
  BY <1>2, <1>3, <1>4, TypeFacts
<1>6. <<>> \in Seq(Stream) /\ 0 \in 0 .. Base * Base - 1
  BY EmptySeq DEF Base
<1>7. TypeOK'
  BY <1>1, <1>5, <1>6 DEF TypeInv, TypeOK
<1> QED BY <1>1, <1>2, <1>4, <1>7 DEF TypeInv

LEMMA ResultType ==
    ASSUME NEW k \in {"aborted", "invalid", "ascii", "panic", "malformed", "binary"},
           NEW m \in SUBSET Texts, NEW d \in Seq(Stream)
    PROVE  Result(k, m, d) \in Results
BY DEF Result, Results

LEMMA EmptyTypes == {} \in SUBSET Texts /\ <<>> \in Seq(Stream)
BY EmptySeq

\* A piece of any size arrives.
LEMMA FillFacts ==
    ASSUME TypeInv, Fill
    PROVE  \E n \in 1 .. Len(wire) :
              /\ buf' = buf \o First(wire, n) /\ wire' = Rest(wire, n)
              /\ First(wire, n) \in Seq(Stream) /\ Len(First(wire, n)) = n
              /\ \A j \in 1 .. n : First(wire, n)[j] = wire[j]
              /\ wire' \in Seq(Stream) /\ Len(wire') = Len(wire) - n
              /\ \A j \in 1 .. Len(wire) - n : wire'[j] = wire[n + j]
              /\ off' = off + n
              /\ broken' = (broken \/ Cuts(served[Len(served)], off + n))
              /\ UNCHANGED <<requests, todo, served, closed, pc, map, size, results>>
<1>1. PICK n \in 1 .. Least(Len(wire), MostRead) :
         /\ buf' = buf \o First(wire, n) /\ wire' = Rest(wire, n) /\ off' = off + n
         /\ broken' = (broken \/ Cuts(served[Len(served)], off + n))
  BY DEF Fill
<1>2. MostRead \in Nat
  BY TypeFacts, SizesAssumption DEF MostRead
<1>3. n \in Nat /\ n \in 1 .. Len(wire) /\ n <= Len(wire) /\ Least(n, Len(wire)) = n
  <2>1. PICK a \in Nat, b \in Nat : a = Len(wire) /\ b = MostRead
    BY <1>2, TypeFacts
  <2>2. n \in 1 .. a
    BY <2>1 DEF Least
  <2>3. Least(n, a) = n
    BY <2>2 DEF Least
  <2> QED BY <2>1, <2>2, <2>3
<1>4. /\ First(wire, n) \in Seq(Stream) /\ Len(First(wire, n)) = n
      /\ \A j \in 1 .. n : First(wire, n)[j] = wire[j]
  <2>1. n \in Nat /\ wire \in Seq(Stream)
    BY <1>3, TypeFacts
  <2>2. /\ First(wire, n) \in Seq(Stream) /\ Len(First(wire, n)) = Least(n, Len(wire))
        /\ \A j \in 1 .. Least(n, Len(wire)) : First(wire, n)[j] = wire[j]
    BY <2>1, FirstFacts
  <2> QED BY <1>3, <2>2
<1>5. /\ wire' \in Seq(Stream) /\ Len(wire') = Len(wire) - n
      /\ \A j \in 1 .. Len(wire) - n : wire'[j] = wire[n + j]
  BY <1>1, <1>3, TypeFacts, RestFacts
<1>6. UNCHANGED <<requests, todo, served, closed, pc, map, size, results>>
  BY DEF Fill, serverVars
<1> QED BY <1>1, <1>3, <1>4, <1>5, <1>6

LEMMA FillType ==
    ASSUME TypeInv, Fill
    PROVE  TypeInv'
<1>1. PICK n \in 1 .. Len(wire) :
         /\ buf' = buf \o First(wire, n)
         /\ First(wire, n) \in Seq(Stream)
         /\ wire' \in Seq(Stream) /\ Len(wire') = Len(wire) - n
         /\ off' = off + n
         /\ broken' = (broken \/ Cuts(served[Len(served)], off + n))
         /\ UNCHANGED <<requests, todo, served, closed, pc, map, size, results>>
  BY FillFacts
<1>2. buf' \in Seq(Stream)
  BY <1>1, TypeFacts, ConcatProperties
<1>3. Len(wire') <= SendBuffer /\ off' \in Nat
  <2>1. PICK a \in Nat, b \in Nat, o \in Nat :
           a = Len(wire) /\ b = SendBuffer /\ o = off /\ a <= b
    BY TypeFacts
  <2>2. Len(wire') = a - n /\ off' = o + n /\ n \in 1 .. a
    BY <1>1, <2>1
  <2> QED BY <2>1, <2>2
<1>4. broken' \in BOOLEAN
  BY <1>1 DEF TypeInv, TypeOK
<1>5. TypeOK'
  BY <1>1, <1>2, <1>3, <1>4 DEF TypeInv, TypeOK
<1>6. Waiting' = Waiting
  BY <1>1 DEF Waiting
<1> QED BY <1>1, <1>5, <1>6 DEF TypeInv

LEMMA FirstByteType ==
    ASSUME TypeInv, FirstByte
    PROVE  TypeInv'
<1>1. pc = "first" /\ UNCHANGED <<serverVars, wire, closed, off, broken>>
  BY DEF FirstByte
<1>2. Waiting = 1
  BY <1>1 DEF Waiting
<1>3. CASE Return(Result("aborted", {}, <<>>)) \/ Return(Result("invalid", {}, <<>>))
  BY <1>1, <1>2, <1>3, EmptyTypes, ResultType, ReturnType
<1>4. CASE /\ ~NeedsMore /\ pc' \in {"line", "header"} /\ buf' = Tail(buf)
           /\ UNCHANGED <<map, size, results>>
  <2>1. buf # <<>>
    BY <1>1, <1>4 DEF NeedsMore
  <2>2. buf' \in Seq(Stream)
    BY <1>4, <2>1, TypeFacts, HeadTailProperties
  <2>3. Waiting' = 1
    BY <1>4 DEF Waiting
  <2>4. TypeOK'
    BY <1>1, <1>4, <2>2 DEF TypeInv, TypeOK, serverVars
  <2>5. map' = {}
    BY <1>1, <1>4 DEF TypeInv
  <2> QED BY <1>1, <1>2, <1>4, <2>3, <2>4, <2>5 DEF TypeInv, serverVars
<1> QED BY <1>1, <1>3, <1>4 DEF FirstByte

\* A line takes the place of the one with its key.
LEMMA InsertType ==
    ASSUME TypeInv, NEW l \in Texts
    PROVE  /\ insert(l) \subseteq Texts
           /\ \A k, m \in insert(l) : KeyOf[k] = KeyOf[m] => k = m
BY DEF TypeInv, TypeOK, insert, Texts

LEMMA ReadLineType ==
    ASSUME TypeInv, ReadLine
    PROVE  TypeInv'
<1>1. pc = "line" /\ UNCHANGED <<serverVars, wire, closed, off, broken>>
  BY DEF ReadLine
<1>2. Waiting = 1 /\ map \in SUBSET Texts
  BY <1>1 DEF Waiting, TypeInv, TypeOK, Texts
<1>3. CASE \/ Return(Result("panic", {}, <<>>)) \/ Return(Result("malformed", {}, <<>>))
           \/ Return(Result("ascii", map, <<>>))
  BY <1>1, <1>2, <1>3, EmptyTypes, ResultType, ReturnType
<1>4. CASE \E k \in DOMAIN buf : LET line == First(buf, k - 1) IN
               /\ k > 1 /\ \E j \in DOMAIN line : line[j] \in Lines \ Long
               /\ map' = insert(Entry(line))
               /\ buf' = Rest(buf, k)
               /\ UNCHANGED <<pc, size, results>>
  <2>1. PICK k \in 1 .. Len(buf) : LET line == First(buf, k - 1) IN
               /\ \E j \in DOMAIN line : line[j] \in Lines \ Long
               /\ map' = insert(Entry(line))
               /\ buf' = Rest(buf, k)
               /\ UNCHANGED <<pc, size, results>>
    <3>1. DOMAIN buf = 1 .. Len(buf)
      BY TypeFacts, LenProperties
    <3> QED BY <1>4, <3>1
  <2>2. PICK line : line = First(buf, k - 1)
    OBVIOUS
  <2>3. line \in Seq(Stream)
    <3>1. k - 1 \in Nat
      BY TypeFacts
    <3> QED BY <2>2, <3>1, TypeFacts, FirstFacts
  <2>4. PICK j \in 1 .. Len(line) : line[j] \in Lines
    BY <2>1, <2>2, <2>3, LenProperties
  <2>5. Entry(line) \in Texts
    <3>1. CASE Len(line) = 1
      BY <2>4, <3>1 DEF Entry, Texts
    <3>2. CASE Len(line) # 1
      BY <3>2 DEF Entry, Texts
    <3> QED BY <3>1, <3>2
  <2>6. map' = insert(Entry(line)) /\ buf' = Rest(buf, k) /\ UNCHANGED <<pc, size, results>>
    BY <2>1, <2>2
  <2>7. buf' \in Seq(Stream)
    BY <2>6, TypeFacts, RestFacts
  <2>8. map' \subseteq Texts /\ \A l, m \in map' : KeyOf[l] = KeyOf[m] => l = m
    BY <2>5, <2>6, InsertType
  <2>9. TypeOK'
    BY <1>1, <2>6, <2>7, <2>8 DEF TypeInv, TypeOK, serverVars, Texts
  <2>10. Waiting' = Waiting
    BY <2>6 DEF Waiting
  <2> QED BY <1>1, <2>6, <2>9, <2>10 DEF TypeInv, serverVars
<1> QED BY <1>3, <1>4 DEF ReadLine

\* What one read leaves.
LEMMA ReadIntoFacts ==
    ASSUME TypeInv, NEW n \in Nat
    PROVE  /\ ReadInto(n) \in Seq(Stream) /\ Len(ReadInto(n)) = n
           /\ \A i \in 1 .. n : ReadInto(n)[i] = IF i <= Len(buf) THEN buf[i] ELSE Zero
<1>1. PICK u : u = [i \in 1 .. n |-> IF i <= Len(buf) THEN buf[i] ELSE Zero]
  OBVIOUS
<1>2. Zero \in Stream
  BY DEF Stream, Bytes, Base, Zero
<1>3. ASSUME NEW i \in 1 .. n PROVE (IF i <= Len(buf) THEN buf[i] ELSE Zero) \in Stream
  <2>1. CASE i <= Len(buf)
    <3>1. i \in 1 .. Len(buf) /\ buf \in Seq(Stream)
      BY <2>1, TypeFacts
    <3>2. buf[i] \in Stream
      BY <3>1, ElementOfSeq
    <3> QED BY <2>1, <3>2
  <2>2. CASE ~(i <= Len(buf))
    BY <1>2, <2>2
  <2> QED BY <2>1, <2>2
<1>4. u \in [1 .. n -> Stream]
  BY <1>1, <1>3
<1>5. u \in Seq(Stream) /\ Len(u) = n
  BY <1>4
<1>6. \A i \in 1 .. n : u[i] = IF i <= Len(buf) THEN buf[i] ELSE Zero
  BY <1>1
<1> QED BY <1>1, <1>5, <1>6 DEF ReadInto

LEMMA ReadSizeType ==
    ASSUME TypeInv, ReadSize
    PROVE  TypeInv'
<1>1. /\ pc = "header" /\ pc' = "data" /\ size' = SizeOf(ReadInto(2)) /\ buf' = Rest(buf, 2)
      /\ UNCHANGED <<requests, todo, served, wire, closed, map, results, off, broken>>
  BY DEF ReadSize, serverVars, HeaderSize
<1>2. ReadInto(2)[1] \in Stream /\ ReadInto(2)[2] \in Stream
  <2>1. ReadInto(2) \in Seq(Stream) /\ Len(ReadInto(2)) = 2
    BY ReadIntoFacts
  <2> QED BY <2>1, ElementOfSeq
<1>3. ByteOf(ReadInto(2)[1]) \in 0 .. 2 /\ ByteOf(ReadInto(2)[2]) \in 0 .. 2
  BY <1>2 DEF ByteOf, Stream, Bytes, Base
<1>4. size' \in 0 .. 8
  BY <1>1, <1>3 DEF SizeOf, Base
<1>5. buf' \in Seq(Stream)
  BY <1>1, TypeFacts, RestFacts
<1>6. size' \in 0 .. Base * Base - 1
  BY <1>4 DEF Base
<1>7. TypeOK'
  BY <1>1, <1>5, <1>6 DEF TypeInv, TypeOK
<1>8. Waiting' = Waiting
  BY <1>1 DEF Waiting
<1> QED BY <1>1, <1>7, <1>8 DEF TypeInv

LEMMA ReadDataType ==
    ASSUME TypeInv, ReadData
    PROVE  TypeInv'
<1>1. /\ pc = "data" /\ Return(Result("binary", {}, ReadInto(size)))
      /\ UNCHANGED <<serverVars, wire, closed, off, broken>>
  BY DEF ReadData
<1>2. Waiting = 1
  BY <1>1 DEF Waiting
<1>3. ReadInto(size) \in Seq(Stream)
  <2>1. size \in Nat
    BY TypeFacts
  <2> QED BY <2>1, ReadIntoFacts
<1>4. Result("binary", {}, ReadInto(size)) \in Results
  BY <1>3, EmptyTypes, ResultType
<1> QED BY <1>1, <1>2, <1>4, ReturnType

LEMMA StutterType ==
    ASSUME TypeInv, UNCHANGED vars
    PROVE  TypeInv'
<1>1. UNCHANGED <<requests, todo, served, wire, closed, pc, buf, map, size, results, off, broken>>
  BY DEF vars, serverVars, clientVars
<1> QED BY <1>1 DEF TypeInv, TypeOK, Waiting

THEOREM TypeInvHolds == Spec => []TypeInv
<1>1. Init => TypeInv
  BY TypeInit
<1>2. TypeInv /\ [Next]_vars => TypeInv'
  BY AskType, ExecuteType, WriteType, CloseType, FillType, FirstByteType, ReadLineType,
     ReadSizeType, ReadDataType, StutterType DEF Next, Read
<1> QED BY <1>1, <1>2, PTL DEF Spec

\* Every variable keeps its type, for any replies, bounds and cuts: the client is at one
\* of the places of get_reply, keeps one line for each key and reads a size that two
\* digits can name.
THEOREM TypeCorrect == Spec => []TypeOK
<1>1. TypeInv => TypeOK
  BY DEF TypeInv
<1> QED BY <1>1, TypeInvHolds, PTL

-----------------------------------------------------------------------------
(* Where a reply is                                                        *)

\* m writes of r are made; the client has taken p bytes of it out of read_stream.
Carried(r, p, m) ==
    /\ m \in 0 .. Len(Writes(r))
    /\ Len(todo) = Len(Writes(r)) - m
    /\ \A q \in 1 .. Len(Writes(r)) - m : todo[q] = Writes(r)[m + q]
    /\ p \in Nat /\ p <= off /\ off <= Start(r)[m]
    /\ Len(wire) = Start(r)[m] - off
    /\ \A j \in 1 .. Start(r)[m] - off : wire[j] = Word(r)[off + j]
    /\ Len(buf) = off - p
    /\ \A j \in 1 .. off - p : buf[j] = Word(r)[p + j]

\* The last line of each key among the first i.
LastOf(lines, i) ==
    {lines[k] : k \in {k \in 1 .. i : \A j \in k + 1 .. i : KeyOf[lines[j]] # KeyOf[lines[k]]}}

\* Where in r the client is: before it, behind i lines, behind its first byte, or
\* behind its size.
Place(r, p) ==
    \/ pc = "first" /\ p = 0
    \/ /\ pc = "line" /\ r.kind # "binary"
       /\ \E i \in 0 .. Len(r.lines) : /\ p = 1 + 2 * i
                                       /\ map = LastOf(r.lines, i)
                                       /\ \A k \in 1 .. i : r.lines[k] \notin Long
    \/ pc = "header" /\ r.kind = "binary" /\ p = 1
    \/ pc = "data" /\ r.kind = "binary" /\ p = 3 /\ size = Len(r.data)

\* No piece has ended inside the size or the data.
Whole(r) == r.kind = "binary" => off \in {0, 1, 3, 3 + Len(r.data)}

Latest  == served[Len(served)]
Reading == \E p, m \in Nat : Carried(Latest, p, m) /\ Place(Latest, p) /\ Whole(Latest)

\* Nothing of a reply is anywhere.
Clean == wire = <<>> /\ buf = <<>> /\ \A q \in 1 .. Len(todo) : todo[q] = <<>>

StepInv ==
    ~broken =>
      /\ InStep
      /\ pc = "ended" => requests = 0 \/ closed
      /\ pc = "idle"  => Len(served) = Len(results) /\ Clean
      /\ Waiting = 1  => \/ Len(served) = Len(results) /\ pc = "first" /\ Clean
                         \/ Len(served) = Len(results) + 1 /\ Reading

\* The numbers behind Carried.
LEMMA CarriedFacts ==
    ASSUME TypeInv, NEW r \in Replies, NEW p \in Nat, NEW m \in Nat, Carried(r, p, m)
    PROVE  \E n, l, b \in Nat :
              /\ n = Len(Writes(r)) /\ l = Len(Word(r)) /\ b = Start(r)[m]
              /\ m <= n /\ p <= off /\ off <= b /\ b <= l
              /\ Len(todo) = n - m /\ Len(wire) = b - off /\ Len(buf) = off - p
              /\ m = n => b = l
<1>1. Pieces(Start(r), r)
  BY WritesAre
<1>2. PICK n \in Nat : n = Len(Writes(r))
  BY <1>1 DEF Pieces
<1>3. /\ Start(r) \in [0 .. n -> Nat] /\ Start(r)[n] = Len(Word(r))
      /\ \A a, b \in 0 .. n : a <= b => Start(r)[a] <= Start(r)[b]
  BY <1>1, <1>2 DEF Pieces
<1>4. m \in 0 .. n /\ n \in 0 .. n /\ m <= n
  BY <1>2 DEF Carried
<1>5. Start(r)[m] \in Nat /\ Start(r)[n] \in Nat /\ Start(r)[m] <= Start(r)[n]
  BY <1>3, <1>4
<1>6. /\ p <= off /\ off <= Start(r)[m]
      /\ Len(todo) = n - m /\ Len(wire) = Start(r)[m] - off /\ Len(buf) = off - p
  BY <1>2 DEF Carried
<1> QED BY <1>2, <1>3, <1>4, <1>5, <1>6

\* All of the reply has arrived once nothing more can.
LEMMA AllArrived ==
    ASSUME TypeInv, NEW r \in Replies, NEW p \in Nat, NEW m \in Nat, Carried(r, p, m), AtEnd
    PROVE  off = Len(Word(r)) /\ Len(buf) = Len(Word(r)) - p
<1>1. PICK n, l, b \in Nat :
         /\ l = Len(Word(r)) /\ m <= n /\ off <= b
         /\ Len(todo) = n - m /\ Len(wire) = b - off /\ Len(buf) = off - p
         /\ m = n => b = l
  BY CarriedFacts
<1>2. wire = <<>> /\ todo = <<>>
  BY DEF AtEnd, TypeInv
<1>3. Len(wire) = 0 /\ Len(todo) = 0
  BY <1>2
<1>4. m = n /\ b = off
  BY <1>1, <1>3, TypeFacts
<1> QED BY <1>1, <1>4

\* When the last byte has come to the client, nothing is left on the way to it.
LEMMA NothingBehind ==
    ASSUME TypeInv, NEW r \in Replies, NEW p \in Nat, NEW m \in Nat, Carried(r, p, m),
           off = Len(Word(r))
    PROVE  wire = <<>> /\ \A q \in 1 .. Len(todo) : todo[q] = <<>>
<1>1. Pieces(Start(r), r)
  BY WritesAre
<1>2. PICK n, l, b \in Nat :
         /\ n = Len(Writes(r)) /\ l = Len(Word(r)) /\ b = Start(r)[m] /\ m <= n
         /\ off <= b /\ b <= l /\ Len(todo) = n - m /\ Len(wire) = b - off
  BY CarriedFacts
<1>3. b = l
  <2>1. l <= b /\ b <= l
    BY <1>2
  <2> QED BY <2>1
<1>4. Len(wire) = 0
  BY <1>2, <1>3, TypeFacts
<1>5. /\ Start(r) \in [0 .. n -> Nat] /\ Start(r)[n] = l
      /\ \A c, d \in 0 .. n : c <= d => Start(r)[c] <= Start(r)[d]
      /\ \A c \in 1 .. n : Len(Writes(r)[c]) = Start(r)[c] - Start(r)[c - 1]
  BY <1>1, <1>2 DEF Pieces
<1>6. ASSUME NEW q \in 1 .. n - m PROVE todo[q] = <<>>
  <2>1. PICK c \in 1 .. n : c = m + q
    BY <1>2
  <2>2. /\ m \in 0 .. n /\ c \in 0 .. n /\ c - 1 \in 0 .. n /\ n \in 0 .. n
        /\ m <= c - 1 /\ c - 1 <= n /\ c <= n
    BY <1>2, <2>1
  <2>3. /\ Start(r)[m] <= Start(r)[c - 1] /\ Start(r)[c - 1] <= Start(r)[n]
        /\ Start(r)[m] <= Start(r)[c] /\ Start(r)[c] <= Start(r)[n]
        /\ Start(r)[c] \in Nat /\ Start(r)[c - 1] \in Nat
    <3>1. PICK s \in [0 .. n -> Nat] : s = Start(r)
      BY <1>5
    <3>2. \A a, d \in 0 .. n : a <= d => s[a] <= s[d]
      BY <1>5, <3>1
    <3>3. m <= c
      BY <1>2, <2>1
    <3>4. s[m] <= s[c - 1] /\ s[c - 1] <= s[n] /\ s[m] <= s[c] /\ s[c] <= s[n]
      BY <2>2, <3>2, <3>3
    <3> QED BY <2>2, <3>1, <3>4
  <2>4. Start(r)[c] = l /\ Start(r)[c - 1] = l
    BY <1>2, <1>3, <1>5, <2>3
  <2>5. Len(Writes(r)[c]) = 0
    BY <1>5, <2>4
  <2>6. todo[q] = Writes(r)[c]
    BY <1>2, <2>1 DEF Carried
  <2>7. Writes(r)[c] \in Seq(Stream)
    BY <1>2, WritesAre, ElementOfSeq
  <2> QED BY <2>5, <2>6, <2>7, EmptySeq
<1>7. wire = <<>>
  BY <1>4, TypeFacts, EmptySeq
<1> QED BY <1>2, <1>6, <1>7

\* A reply is made.
LEMMA CarriedStarts ==
    ASSUME TypeInv, NEW r \in Replies, todo' = Writes(r), off' = 0,
           wire = <<>>, buf = <<>>, UNCHANGED <<wire, buf>>, NEW z \in Nat, z = 0
    PROVE  Carried(r, z, z)'
<1>1. Pieces(Start(r), r)
  BY WritesAre
<1>2. PICK n \in Nat : n = Len(Writes(r))
  BY <1>1 DEF Pieces
<1>3. Start(r)[z] = 0 /\ z \in 0 .. n
  BY <1>1, <1>2 DEF Pieces
<1>4. Len(wire') = 0 /\ Len(buf') = 0
  OBVIOUS
<1>5. \A q \in 1 .. n - z : todo'[q] = Writes(r)[z + q]
  <2>1. \A q \in 1 .. n - z : z + q = q
    BY <1>2
  <2> QED BY <2>1
<1>6. off' = z /\ Start(r)[z] - off' = 0 /\ off' - z = 0 /\ n - z = n /\ z <= off'
      /\ off' <= Start(r)[z]
  BY <1>2, <1>3
<1>7. 1 .. Start(r)[z] - off' = {} /\ 1 .. off' - z = {}
  BY <1>6
<1> QED BY <1>2, <1>3, <1>4, <1>5, <1>6, <1>7 DEF Carried

\* A write is made that the connection has room for.
LEMMA CarriedWrite ==
    ASSUME TypeInv, NEW r \in Replies, NEW p \in Nat, NEW m \in Nat, Carried(r, p, m),
           Write, ~broken'
    PROVE  Carried(r, p, m + 1)'
<1>0. PICK o \in Nat : o = off
  BY TypeFacts
<1>1. PICK n, l, b \in Nat :
         /\ n = Len(Writes(r)) /\ l = Len(Word(r)) /\ b = Start(r)[m] /\ m <= n
         /\ o <= b /\ b <= l /\ Len(todo) = n - m /\ Len(wire) = b - o /\ p <= o
  BY <1>0, CarriedFacts
<1>2. /\ Len(todo) > 0 /\ Head(todo) = todo[1] /\ todo' = Tail(todo)
      /\ Len(Tail(todo)) = Len(todo) - 1
      /\ \A q \in 1 .. Len(todo) - 1 : Tail(todo)[q] = todo[q + 1]
      /\ buf' = buf /\ off' = off
  BY WriteFacts
<1>3. m + 1 \in 1 .. n /\ m + 1 <= n /\ 1 \in 1 .. n - m
  BY <1>1, <1>2
<1>4. PICK h : h = Writes(r)[m + 1]
  OBVIOUS
<1>5. Head(todo) = h
  <2>1. \A q \in 1 .. n - m : todo[q] = Writes(r)[m + q]
    BY <1>1 DEF Carried
  <2>2. todo[1] = Writes(r)[m + 1]
    BY <1>3, <2>1
  <2> QED BY <1>2, <1>4, <2>2
<1>6. PICK c \in Nat : c = Start(r)[m + 1]
  <2>1. Pieces(Start(r), r)
    BY WritesAre
  <2>2. Start(r) \in [0 .. n -> Nat]
    BY <1>1, <2>1 DEF Pieces
  <2>3. m + 1 \in 0 .. n
    BY <1>3
  <2> QED BY <2>2, <2>3
<1>7. /\ Len(h) = c - b /\ b <= c
      /\ \A j \in 1 .. c - b : h[j] = Word(r)[b + j]
  <2>1. /\ n = Len(Writes(r)) /\ Start(r)[m] <= Start(r)[m + 1]
        /\ Len(Writes(r)[m + 1]) = Start(r)[m + 1] - Start(r)[(m + 1) - 1]
        /\ \A j \in 1 .. Len(Writes(r)[m + 1]) :
              Writes(r)[m + 1][j] = Word(r)[Start(r)[(m + 1) - 1] + j]
    <3>1. m \in 0 .. n /\ m + 1 \in 0 .. n /\ m <= m + 1
      BY <1>1, <1>3
    <3> QED BY <1>1, <1>3, <3>1, WritesAre DEF Pieces
  <2>2. (m + 1) - 1 = m
    OBVIOUS
  <2> QED BY <1>1, <1>4, <1>6, <2>1, <2>2
<1>8. h \in Seq(Stream)
  BY <1>5, WriteFacts
<1>9. PICK room \in Nat : wire' = wire \o First(h, room) /\ broken' = (broken \/ Len(h) > room)
  BY <1>5, WriteFacts
<1>10. PICK f : f = First(h, room)
  OBVIOUS
<1>11. /\ f \in Seq(Stream) /\ Len(f) = c - b /\ \A j \in 1 .. c - b : f[j] = h[j]
  <2>1. PICK k \in Nat : k = Len(h)
    BY <1>8, LenProperties
  <2>2. ~(Len(h) > room)
    BY <1>9
  <2>3. Least(room, Len(h)) = k
    BY <2>1, <2>2 DEF Least
  <2>4. room \in Nat
    BY <1>9
  <2>5. /\ f \in Seq(Stream) /\ Len(f) = Least(room, Len(h))
        /\ \A j \in 1 .. Least(room, Len(h)) : f[j] = h[j]
    BY <1>8, <1>10, <2>4, FirstFacts
  <2>6. k = c - b
    BY <1>7, <2>1
  <2> QED BY <1>7, <2>3, <2>5, <2>6
<1>12. /\ Len(wire') = (b - o) + (c - b)
       /\ \A j \in 1 .. (b - o) + (c - b) :
             wire'[j] = IF j <= b - o THEN wire[j] ELSE f[j - (b - o)]
  <2>1. /\ Len(wire') = Len(wire) + Len(f)
        /\ \A j \in 1 .. Len(wire) + Len(f) :
              wire'[j] = IF j <= Len(wire) THEN wire[j] ELSE f[j - Len(wire)]
    BY <1>9, <1>10, <1>11, TypeFacts, ConcatProperties
  <2> QED BY <1>1, <1>11, <2>1
<1>13. (b - o) + (c - b) = c - o
  BY <1>1
<1>14. ASSUME NEW j \in 1 .. c - o PROVE wire'[j] = Word(r)[o + j]
  <2>0. wire'[j] = IF j <= b - o THEN wire[j] ELSE f[j - (b - o)]
    BY <1>12, <1>13
  <2>1. CASE j <= b - o
    <3>1. j \in 1 .. b - o
      BY <2>1
    <3>2. wire'[j] = wire[j]
      BY <2>0, <2>1
    <3>3. wire[j] = Word(r)[o + j]
      BY <1>0, <1>1, <3>1 DEF Carried
    <3> QED BY <3>2, <3>3
  <2>2. CASE ~(j <= b - o)
    <3>1. wire'[j] = f[j - (b - o)]
      BY <2>0, <2>2
    <3>2. PICK k \in 1 .. c - b : k = j - (b - o)
      <4>1. o \in Nat /\ b \in Nat /\ c \in Nat /\ j \in 1 .. c - o /\ o <= b
        BY <1>0, <1>1, <1>6
      <4>2. j - (b - o) \in 1 .. c - b
        BY <2>2, <4>1
      <4> QED BY <4>2
    <3>3. b + k = o + j
      BY <3>2
    <3>4. f[k] = h[k] /\ h[k] = Word(r)[b + k]
      BY <1>7, <1>11
    <3> QED BY <3>1, <3>2, <3>3, <3>4
  <2> QED BY <2>1, <2>2
<1>15. ASSUME NEW q \in 1 .. n - (m + 1) PROVE todo'[q] = Writes(r)[(m + 1) + q]
  <2>1. q \in 1 .. Len(todo) - 1 /\ q + 1 \in 1 .. n - m /\ m + (q + 1) = (m + 1) + q
    BY <1>1
  <2>2. todo'[q] = todo[q + 1]
    BY <1>2, <2>1
  <2>3. todo[q + 1] = Writes(r)[m + (q + 1)]
    BY <1>1, <2>1 DEF Carried
  <2> QED BY <2>1, <2>2, <2>3
<1>16. m + 1 \in 0 .. n /\ Len(todo') = n - (m + 1)
  <2>1. (n - m) - 1 = n - (m + 1) /\ m + 1 \in 0 .. n
    BY <1>1, <1>3
  <2>2. Len(todo') = (n - m) - 1
    BY <1>1, <1>2
  <2> QED BY <2>1, <2>2
<1>17. off' = o /\ p <= o /\ o <= c /\ Len(wire') = c - o
  <2>1. p <= o /\ o <= b /\ b <= c
    BY <1>1, <1>7
  <2>2. o <= c
    BY <2>1
  <2> QED BY <1>0, <1>2, <1>12, <1>13, <2>1, <2>2
<1>18. Len(buf') = o - p /\ \A j \in 1 .. o - p : buf'[j] = Word(r)[p + j]
  BY <1>0, <1>2 DEF Carried
<1>19. n = Len(Writes(r)) /\ c = Start(r)[m + 1]
  BY <1>1, <1>6
<1> QED BY <1>14, <1>15, <1>16, <1>17, <1>18, <1>19 DEF Carried

\* A piece comes to the client.
LEMMA CarriedFill ==
    ASSUME TypeInv, NEW r \in Replies, NEW p \in Nat, NEW m \in Nat, Carried(r, p, m), Fill
    PROVE  Carried(r, p, m)'
<1>0. PICK o \in Nat : o = off
  BY TypeFacts
<1>1. PICK n, l, b \in Nat :
         /\ n = Len(Writes(r)) /\ l = Len(Word(r)) /\ b = Start(r)[m] /\ m <= n
         /\ o <= b /\ b <= l /\ Len(todo) = n - m /\ Len(wire) = b - o
         /\ p <= o /\ Len(buf) = o - p
  BY <1>0, CarriedFacts
<1>2. PICK d \in 1 .. b - o :
         /\ buf' = buf \o First(wire, d)
         /\ First(wire, d) \in Seq(Stream) /\ Len(First(wire, d)) = d
         /\ \A j \in 1 .. d : First(wire, d)[j] = wire[j]
         /\ Len(wire') = (b - o) - d
         /\ \A j \in 1 .. (b - o) - d : wire'[j] = wire[d + j]
         /\ off' = o + d
         /\ todo' = todo
  BY <1>0, <1>1, FillFacts
<1>3. PICK f : f = First(wire, d)
  OBVIOUS
<1>4. /\ Len(buf') = (o - p) + d
      /\ \A j \in 1 .. (o - p) + d :
            buf'[j] = IF j <= o - p THEN buf[j] ELSE f[j - (o - p)]
  <2>1. /\ Len(buf') = Len(buf) + Len(f)
        /\ \A j \in 1 .. Len(buf) + Len(f) :
              buf'[j] = IF j <= Len(buf) THEN buf[j] ELSE f[j - Len(buf)]
    BY <1>2, <1>3, TypeFacts, ConcatProperties
  <2> QED BY <1>1, <1>2, <1>3, <2>1
<1>5. PICK u \in Nat : u = o + d
  BY <1>2
<1>6. u <= b /\ p <= u /\ (o - p) + d = u - p /\ (b - o) - d = b - u
  <2>1. d <= b - o
    BY <1>1, <1>2
  <2>2. o \in Nat /\ b \in Nat /\ p \in Nat /\ d \in Nat /\ p <= o /\ o <= b /\ u = o + d
    BY <1>0, <1>1, <1>5, <2>1
  <2> QED BY <2>1, <2>2
<1>7. ASSUME NEW j \in 1 .. u - p PROVE buf'[j] = Word(r)[p + j]
  <2>0. buf'[j] = IF j <= o - p THEN buf[j] ELSE f[j - (o - p)]
    BY <1>4, <1>6
  <2>1. CASE j <= o - p
    <3>1. j \in 1 .. o - p
      BY <2>1
    <3>2. buf'[j] = buf[j]
      BY <2>0, <2>1
    <3>3. buf[j] = Word(r)[p + j]
      BY <1>0, <3>1 DEF Carried
    <3> QED BY <3>2, <3>3
  <2>2. CASE ~(j <= o - p)
    <3>1. buf'[j] = f[j - (o - p)]
      BY <2>0, <2>2
    <3>2. PICK k \in 1 .. d : k = j - (o - p)
      BY <1>6, <2>2
    <3>3. o + k = p + j
      BY <3>2
    <3>4. k \in 1 .. b - o
      BY <1>2
    <3>5. f[k] = wire[k]
      BY <1>2, <1>3
    <3>6. wire[k] = Word(r)[o + k]
      BY <1>0, <1>1, <3>4 DEF Carried
    <3> QED BY <3>1, <3>2, <3>3, <3>5, <3>6
  <2> QED BY <2>1, <2>2
<1>8. ASSUME NEW j \in 1 .. b - u PROVE wire'[j] = Word(r)[u + j]
  <2>1. j \in 1 .. (b - o) - d /\ d + j \in 1 .. b - o /\ o + (d + j) = u + j
    BY <1>5, <1>6
  <2>2. wire'[j] = wire[d + j]
    BY <1>2, <2>1
  <2>3. wire[d + j] = Word(r)[o + (d + j)]
    BY <1>0, <1>1, <2>1 DEF Carried
  <2> QED BY <2>1, <2>2, <2>3
<1>9. Len(buf') = u - p /\ Len(wire') = b - u
  BY <1>2, <1>4, <1>6
<1>10. /\ m \in 0 .. n /\ Len(todo') = n - m
       /\ \A q \in 1 .. n - m : todo'[q] = Writes(r)[m + q]
  BY <1>1, <1>2 DEF Carried
<1>11. off' = u
  BY <1>2, <1>5
<1>12. n = Len(Writes(r)) /\ b = Start(r)[m] /\ u <= b /\ p <= u
  BY <1>1, <1>6
<1> QED BY <1>7, <1>8, <1>9, <1>10, <1>11, <1>12 DEF Carried

\* The client takes d bytes out of read_stream.
LEMMA CarriedTake ==
    ASSUME TypeInv, NEW r \in Replies, NEW p \in Nat, NEW m \in Nat, Carried(r, p, m),
           NEW d \in Nat, d <= Len(buf), Len(buf') = Len(buf) - d,
           \A j \in 1 .. Len(buf) - d : buf'[j] = buf[d + j],
           UNCHANGED <<todo, wire, off>>
    PROVE  Carried(r, p + d, m)'
<1>1. PICK n, l, b \in Nat :
         /\ n = Len(Writes(r)) /\ b = Start(r)[m] /\ m <= n
         /\ p <= off /\ Len(buf) = off - p
  BY CarriedFacts
<1>2. PICK o \in Nat : o = off
  BY TypeFacts
<1>3. p + d \in Nat /\ p + d <= o /\ Len(buf') = o - (p + d)
  BY <1>1, <1>2
<1>4. ASSUME NEW j \in 1 .. o - (p + d) PROVE buf'[j] = Word(r)[(p + d) + j]
  <2>1. j \in 1 .. Len(buf) - d /\ d + j \in 1 .. o - p /\ p + (d + j) = (p + d) + j
    BY <1>1, <1>2, <1>3
  <2>2. buf'[j] = buf[d + j]
    BY <2>1
  <2>3. buf[d + j] = Word(r)[p + (d + j)]
    BY <1>2, <2>1 DEF Carried
  <2> QED BY <2>1, <2>2, <2>3
<1>5. off' = o /\ todo' = todo /\ wire' = wire
  BY <1>2
<1> QED BY <1>2, <1>3, <1>4, <1>5 DEF Carried

\* The next line takes the place of the one with its key.
LEMMA LastInsert ==
    ASSUME NEW s \in Seq(Lines), NEW i \in Nat, i < Len(s), map = LastOf(s, i)
    PROVE  insert(s[i + 1]) = LastOf(s, i + 1)
<1>1. ASSUME NEW x PROVE x \in insert(s[i + 1]) <=> x \in LastOf(s, i + 1)
  <2>1. ASSUME x \in insert(s[i + 1]) PROVE x \in LastOf(s, i + 1)
    <3>1. CASE x = s[i + 1]
      <4>1. i + 1 \in 1 .. i + 1 /\ (i + 1) + 1 .. i + 1 = {}
        OBVIOUS
      <4> QED BY <3>1, <4>1 DEF LastOf
    <3>2. CASE x # s[i + 1]
      <4>1. x \in LastOf(s, i) /\ KeyOf[x] # KeyOf[s[i + 1]]
        BY <2>1, <3>2 DEF insert
      <4>2. PICK k \in 1 .. i : /\ x = s[k]
                                /\ \A j \in k + 1 .. i : KeyOf[s[j]] # KeyOf[s[k]]
        BY <4>1 DEF LastOf
      <4>3. k \in 1 .. i + 1 /\ \A j \in k + 1 .. i + 1 : j = i + 1 \/ j \in k + 1 .. i
        BY <4>2
      <4>4. \A j \in k + 1 .. i + 1 : KeyOf[s[j]] # KeyOf[s[k]]
        BY <4>1, <4>2, <4>3
      <4> QED BY <4>2, <4>3, <4>4 DEF LastOf
    <3> QED BY <3>1, <3>2
  <2>2. ASSUME x \in LastOf(s, i + 1) PROVE x \in insert(s[i + 1])
    <3>1. PICK k \in 1 .. i + 1 : /\ x = s[k]
                                  /\ \A j \in k + 1 .. i + 1 : KeyOf[s[j]] # KeyOf[s[k]]
      BY <2>2 DEF LastOf
    <3>2. CASE k = i + 1
      BY <3>1, <3>2 DEF insert
    <3>3. CASE k # i + 1
      <4>1. k \in 1 .. i /\ i + 1 \in k + 1 .. i + 1 /\ \A j \in k + 1 .. i : j \in k + 1 .. i + 1
        BY <3>1, <3>3
      <4>2. KeyOf[x] # KeyOf[s[i + 1]]
        BY <3>1, <4>1
      <4>3. x \in LastOf(s, i)
        BY <3>1, <4>1 DEF LastOf
      <4> QED BY <4>2, <4>3 DEF insert
    <3> QED BY <3>2, <3>3
  <2> QED BY <2>1, <2>2
<1> QED BY <1>1

-----------------------------------------------------------------------------
(* No step takes the client out of step                                    *)

\* The client waits for the last reply that was made, and is somewhere in it.
LEMMA ReadingFacts ==
    ASSUME TypeInv, Waiting = 1, Len(served) = Len(results) + 1
    PROVE  requests = 0 /\ Latest \in Replies
<1>1. requests = 0
  BY TypeFacts DEF TypeInv
<1>2. Len(served) \in 1 .. Len(served) /\ served \in Seq(Replies)
  BY TypeFacts DEF TypeInv
<1> QED BY <1>1, <1>2, ElementOfSeq DEF Latest

LEMMA StepInit == Init => StepInv
<1> SUFFICES ASSUME Init PROVE StepInv
  OBVIOUS
<1>1. results = <<>> /\ served = <<>> /\ todo = <<>> /\ wire = <<>> /\ buf = <<>> /\ pc = "idle"
  BY DEF Init
<1>2. Len(results) = 0 /\ Len(served) = 0 /\ DOMAIN results = {} /\ Len(todo) = 0
  BY <1>1
<1>3. InStep
  BY <1>2 DEF InStep
<1>4. Clean
  BY <1>1, <1>2 DEF Clean
<1>5. Waiting = 0
  BY <1>1 DEF Waiting
<1> QED BY <1>1, <1>2, <1>3, <1>4, <1>5 DEF StepInv

LEMMA AskStep ==
    ASSUME TypeInv, StepInv, execute_command
    PROVE  StepInv'
<1> SUFFICES ASSUME ~broken' PROVE StepInv'
  BY DEF StepInv
<1>1. /\ pc = "idle" /\ pc' = "first"
      /\ UNCHANGED <<todo, served, wire, closed, buf, results, broken>>
  BY DEF execute_command
<1>2. InStep /\ Len(served) = Len(results) /\ Clean
  BY <1>1 DEF StepInv
<1>3. InStep' /\ Clean' /\ Len(served') = Len(results')
  BY <1>1, <1>2 DEF InStep, Clean
<1> QED BY <1>1, <1>3 DEF StepInv

LEMMA ExecuteStep ==
    ASSUME TypeInv, StepInv, Execute
    PROVE  StepInv'
<1> SUFFICES ASSUME ~broken' PROVE StepInv'
  BY DEF StepInv
<1>1. PICK r \in Replies : todo' = Writes(r) /\ served' = Append(served, r)
  BY DEF Execute
<1>2. /\ ~closed /\ requests > 0 /\ off' = 0
      /\ UNCHANGED <<wire, closed, pc, buf, map, size, results, broken>>
  BY DEF Execute, clientVars
<1>3. InStep /\ ~broken
  BY <1>2 DEF StepInv
<1>4. Waiting = 1
  <2>1. CASE pc = "idle"
    <3>1. Waiting = 0 /\ Len(served) = Len(results)
      BY <1>3, <2>1 DEF Waiting, StepInv
    <3> QED BY <1>2, <3>1, TypeFacts DEF TypeInv
  <2>2. CASE pc = "ended"
    BY <1>2, <1>3, <2>2 DEF StepInv
  <2> QED BY <2>1, <2>2, TypeFacts DEF Waiting
<1>5. Len(served) = Len(results) /\ pc = "first" /\ Clean
  <2>1. Len(served) # Len(results) + 1
    BY <1>2, <1>4, ReadingFacts
  <2> QED BY <1>3, <1>4, <2>1 DEF StepInv
<1>6. PICK z \in Nat : z = 0
  OBVIOUS
<1>7. Carried(r, z, z)'
  <2>1. wire = <<>> /\ buf = <<>>
    BY <1>5 DEF Clean
  <2> QED BY <1>1, <1>2, <1>6, <2>1, CarriedStarts
<1>8. /\ served' \in Seq(Replies) /\ Len(served') = Len(served) + 1
      /\ served'[Len(served) + 1] = r
      /\ \A n \in 1 .. Len(served) : served'[n] = served[n]
  BY <1>1, AppendProperties DEF TypeInv
<1>9. Latest' = r
  BY <1>8 DEF Latest
<1>10. Place(r, z)' /\ Whole(r)'
  BY <1>2, <1>5, <1>6 DEF Place, Whole
<1>11. Reading'
  BY <1>6, <1>7, <1>9, <1>10 DEF Reading
<1>12. InStep'
  <2>1. DOMAIN results = 1 .. Len(served)
    BY <1>5, LenProperties DEF TypeInv
  <2>2. ASSUME NEW n \in DOMAIN results PROVE results'[n] = AsRead(served'[n]) /\ n <= Len(served')
    <3>1. n \in 1 .. Len(served) /\ n <= Len(served) /\ n <= Len(served) + 1
      BY <2>1, TypeFacts
    <3>2. results[n] = AsRead(served[n])
      BY <1>3, <3>1 DEF InStep
    <3> QED BY <1>2, <1>8, <3>1, <3>2
  <2> QED BY <1>2, <2>2 DEF InStep
<1>13. Len(served') = Len(results') + 1 /\ pc' = "first"
  BY <1>2, <1>5, <1>8
<1> QED BY <1>11, <1>12, <1>13 DEF StepInv

LEMMA WriteStep ==
    ASSUME TypeInv, StepInv, Write
    PROVE  StepInv'
<1> SUFFICES ASSUME ~broken' PROVE StepInv'
  BY DEF StepInv
<1>1. /\ todo' = Tail(todo) /\ Head(todo) = todo[1] /\ Len(todo) > 0
      /\ Len(Tail(todo)) = Len(todo) - 1
      /\ \A q \in 1 .. Len(todo) - 1 : Tail(todo)[q] = todo[q + 1]
      /\ UNCHANGED <<requests, served, closed, pc, buf, map, size, results, off>>
  BY WriteFacts
<1>2. PICK room \in Nat : /\ wire' = wire \o First(Head(todo), room)
                          /\ broken' = (broken \/ Len(Head(todo)) > room)
  BY WriteFacts
<1>3. ~broken /\ InStep /\ InStep'
  BY <1>1, <1>2 DEF StepInv, InStep
<1>4. ASSUME Clean PROVE Clean'
  <2>1. wire = <<>> /\ buf = <<>> /\ \A q \in 1 .. Len(todo) : todo[q] = <<>>
    BY <1>4 DEF Clean
  <2>2. 1 \in 1 .. Len(todo) /\ \A q \in 1 .. Len(todo) - 1 : q + 1 \in 1 .. Len(todo)
    BY <1>1, TypeFacts
  <2>3. Head(todo) = <<>>
    BY <1>1, <2>1, <2>2
  <2>4. PICK f : f = First(Head(todo), room)
    OBVIOUS
  <2>5. PICK h \in Seq(Stream) : h = Head(todo) /\ Len(h) = 0
    <3>1. Head(todo) \in Seq(Stream)
      BY WriteFacts
    <3> QED BY <2>3, <3>1
  <2>6. f = <<>>
    <3>1. /\ f \in Seq(Stream) /\ Len(f) = Least(room, Len(h))
          /\ Least(room, Len(h)) \in Nat /\ Least(room, Len(h)) <= Len(h)
      BY <2>4, <2>5, FirstFacts
    <3>2. Len(f) = 0
      BY <2>5, <3>1
    <3> QED BY <3>1, <3>2, EmptySeq
  <2>7. wire' = <<>>
    BY <1>2, <2>1, <2>4, <2>6
  <2>8. \A q \in 1 .. Len(todo') : todo'[q] = <<>>
    BY <1>1, <2>1, <2>2
  <2> QED BY <1>1, <2>1, <2>7, <2>8 DEF Clean
<1>5. ASSUME Waiting = 1, Len(served) = Len(results) + 1, Reading PROVE Reading'
  <2>1. PICK r \in Replies : r = Latest
    BY <1>5, ReadingFacts
  <2>2. PICK p \in Nat, m \in Nat : Carried(r, p, m) /\ Place(r, p) /\ Whole(r)
    BY <1>5, <2>1 DEF Reading
  <2>3. m + 1 \in Nat /\ Carried(r, p, m + 1)'
    BY <2>2, CarriedWrite
  <2>4. Place(r, p)' /\ Whole(r)' /\ Latest' = r
    BY <1>1, <2>1, <2>2 DEF Place, Whole, Latest
  <2> QED BY <2>3, <2>4 DEF Reading
<1>6. Waiting' = Waiting
  BY <1>1 DEF Waiting
<1> QED BY <1>1, <1>3, <1>4, <1>5, <1>6 DEF StepInv

LEMMA CloseStep ==
    ASSUME TypeInv, StepInv, Close
    PROVE  StepInv'
<1> SUFFICES ASSUME ~broken' PROVE StepInv'
  BY DEF StepInv
<1>1. /\ closed' = TRUE /\ todo' = <<>> /\ broken' = (broken \/ todo # <<>>)
      /\ UNCHANGED <<requests, served, wire, pc, buf, map, size, results, off>>
  BY DEF Close, clientVars
<1>2. ~broken /\ todo' = todo /\ InStep /\ InStep'
  BY <1>1 DEF StepInv, InStep
<1>3. Clean' = Clean /\ Waiting' = Waiting /\ Latest' = Latest
  BY <1>1, <1>2 DEF Clean, Waiting, Latest
<1>4. ASSUME Reading PROVE Reading'
  <2>1. PICK r : r = Latest
    OBVIOUS
  <2>2. PICK p \in Nat, m \in Nat : Carried(r, p, m) /\ Place(r, p) /\ Whole(r)
    BY <1>4, <2>1 DEF Reading
  <2>3. Carried(r, p, m)' /\ Place(r, p)' /\ Whole(r)'
    BY <1>1, <1>2, <2>2 DEF Carried, Place, Whole
  <2> QED BY <1>3, <2>1, <2>3 DEF Reading
<1> QED BY <1>1, <1>2, <1>3, <1>4 DEF StepInv

\* Only the reply the client waits for can come to it.
LEMMA FillStep ==
    ASSUME TypeInv, StepInv, Fill
    PROVE  StepInv'
<1> SUFFICES ASSUME ~broken' PROVE StepInv'
  BY DEF StepInv
<1>1. PICK n \in 1 .. Len(wire) :
         /\ off' = off + n
         /\ broken' = (broken \/ Cuts(served[Len(served)], off + n))
         /\ UNCHANGED <<requests, todo, served, closed, pc, map, size, results>>
  BY FillFacts
<1>2. ~broken /\ InStep /\ InStep'
  BY <1>1 DEF StepInv, InStep
<1>3. Waiting = 1 /\ Waiting' = 1 /\ pc' # "idle" /\ pc' # "ended"
  BY <1>1 DEF Fill, NeedsMore, Waiting
<1>4. ~Clean
  BY <1>1, TypeFacts DEF Clean
<1>5. Len(served) = Len(results) + 1 /\ Reading
  BY <1>2, <1>3, <1>4 DEF StepInv
<1>6. PICK r \in Replies : r = Latest
  BY <1>3, <1>5, ReadingFacts
<1>7. PICK p \in Nat, m \in Nat : Carried(r, p, m) /\ Place(r, p)
  BY <1>5, <1>6 DEF Reading
<1>8. Carried(r, p, m)'
  BY <1>7, CarriedFill
<1>9. Place(r, p)' /\ Latest' = r
  BY <1>1, <1>6, <1>7 DEF Place, Latest
<1>10. Whole(r)'
  <2>1. ~Cuts(r, off')
    BY <1>1, <1>6 DEF Latest
  <2> QED BY <2>1 DEF Cuts, Whole, HeaderSize
<1>11. Reading'
  BY <1>8, <1>9, <1>10 DEF Reading
<1> QED BY <1>1, <1>2, <1>3, <1>5, <1>11 DEF StepInv

\* get_reply returns what the last reply means, and throws nothing away when the
\* caller goes on.
LEMMA ReturnStep ==
    ASSUME TypeInv, ~broken, InStep, Len(served) = Len(results) + 1, Waiting = 1,
           NEW x, x = AsRead(Latest), Return(x),
           x.kind \in {"ascii", "binary"} => wire = <<>> /\ \A q \in 1 .. Len(todo) : todo[q] = <<>>,
           UNCHANGED <<serverVars, wire, closed, off, broken>>
    PROVE  StepInv'
<1>1. /\ results' = Append(results, x) /\ buf' = <<>>
      /\ pc' = IF x.kind \in {"ascii", "binary"} THEN "idle" ELSE "ended"
      /\ UNCHANGED <<requests, todo, served, wire, closed, off, broken>>
  BY DEF Return, serverVars
<1>2. PICK t \in Nat : t = Len(results)
  BY TypeFacts
<1>3. /\ DOMAIN results' = 1 .. t + 1 /\ Len(results') = t + 1 /\ results'[t + 1] = x
      /\ \A n \in 1 .. t : results'[n] = results[n]
      /\ DOMAIN results = 1 .. t
  <2>1. results \in Seq(Results)
    BY DEF TypeInv
  <2> QED BY <1>1, <1>2, <2>1
<1>4. x = AsRead(served[t + 1]) /\ Len(served) = t + 1
  BY <1>2 DEF Latest
<1>5. ASSUME NEW n \in 1 .. t + 1 PROVE n <= Len(served) /\ results'[n] = AsRead(served[n])
  <2>1. n <= Len(served)
    BY <1>4
  <2>2. CASE n = t + 1
    BY <1>3, <1>4, <2>1, <2>2
  <2>3. CASE n # t + 1
    <3>1. n \in 1 .. t
      BY <2>3
    <3>2. results[n] = AsRead(served[n])
      BY <1>3, <2>1, <3>1 DEF InStep
    <3> QED BY <1>3, <2>1, <3>1, <3>2
  <2> QED BY <2>2, <2>3
<1>6. InStep'
  BY <1>1, <1>3, <1>5 DEF InStep
<1>7. Waiting' = 0
  BY <1>1 DEF Waiting
<1>8. pc' = "ended" => requests' = 0
  BY <1>1, ReadingFacts
<1>9. pc' = "idle" => Len(served') = Len(results') /\ Clean'
  BY <1>1, <1>2, <1>3, <1>4 DEF Clean
<1> QED BY <1>6, <1>7, <1>8, <1>9 DEF StepInv

\* The first byte tells a hash reply from a block, and only a connection closed
\* between two replies ends instead.
LEMMA FirstByteStep ==
    ASSUME TypeInv, StepInv, FirstByte
    PROVE  StepInv'
<1> SUFFICES ASSUME ~broken' PROVE StepInv'
  BY DEF StepInv
<1>1. pc = "first" /\ UNCHANGED <<requests, todo, served, wire, closed, off, broken>>
  BY DEF FirstByte, serverVars
<1>2. ~broken /\ InStep /\ Waiting = 1
  BY <1>1 DEF StepInv, Waiting
<1>3. CASE ~Reading \/ Len(served) # Len(results) + 1
  <2>1. Len(served) = Len(results) /\ Clean
    BY <1>2, <1>3 DEF StepInv
  <2>2. NeedsMore
    BY <1>1, <2>1 DEF NeedsMore, Clean
  <2>3. AtEnd /\ Return(Result("aborted", {}, <<>>))
    BY <2>2 DEF FirstByte
  <2>4. closed /\ pc' = "ended" /\ results' = Append(results, Result("aborted", {}, <<>>))
    BY <2>3 DEF AtEnd, Return, Result
  <2>5. PICK t \in Nat : t = Len(results)
    BY TypeFacts
  <2>6. /\ DOMAIN results' = 1 .. t + 1 /\ results'[t + 1] = Result("aborted", {}, <<>>)
        /\ \A n \in 1 .. t : results'[n] = results[n]
        /\ DOMAIN results = 1 .. t
    <3>1. results \in Seq(Results)
      BY DEF TypeInv
    <3> QED BY <2>4, <2>5, <3>1
  <2>7. Len(served') = t /\ ~(t + 1 <= t)
    BY <1>1, <2>1, <2>5
  <2>8. ASSUME NEW n \in 1 .. t PROVE results'[n] = AsRead(served'[n]) /\ n <= t
    <3>1. results[n] = AsRead(served[n])
      BY <1>2, <2>1, <2>5, <2>6 DEF InStep
    <3> QED BY <1>1, <2>6, <3>1
  <2>9. InStep'
    <3>1. \A n \in 1 .. t + 1 : n = t + 1 \/ n \in 1 .. t
      OBVIOUS
    <3> QED BY <2>6, <2>7, <2>8, <3>1 DEF InStep
  <2>10. Waiting' = 0
    BY <2>4 DEF Waiting
  <2> QED BY <1>1, <2>4, <2>9, <2>10 DEF StepInv
<1>4. CASE Reading /\ Len(served) = Len(results) + 1
  <2>1. PICK r \in Replies : r = Latest
    BY <1>2, <1>4, ReadingFacts
  <2>2. PICK p \in Nat, m \in Nat : Carried(r, p, m) /\ Place(r, p) /\ Whole(r)
    BY <1>4, <2>1 DEF Reading
  <2>3. p = 0
    BY <1>1, <2>2 DEF Place
  <2>4. /\ Len(Word(r)) \in Nat /\ Len(Word(r)) >= 2
        /\ Word(r)[1] = IF r.kind = "binary" THEN Zero ELSE Newline
    <3>1. CASE r.kind = "binary"
      <4>1. PICK n \in Nat : n = Len(r.data)
        BY ReplyFacts
      <4> QED BY <3>1, <4>1, BinaryWord
    <3>2. CASE r.kind # "binary"
      <4>1. PICK n \in Nat : n = Len(r.lines)
        BY ReplyFacts
      <4> QED BY <3>2, <4>1, AsciiWord
    <3> QED BY <3>1, <3>2
  <2>5. ~(NeedsMore /\ AtEnd)
    <3>1. ASSUME NeedsMore, AtEnd PROVE FALSE
      <4>1. buf = <<>> /\ Len(buf) = 0
        BY <1>1, <3>1 DEF NeedsMore
      <4>2. Len(buf) = Len(Word(r)) - p
        BY <2>2, <3>1, AllArrived
      <4> QED BY <2>3, <2>4, <4>1, <4>2
    <3> QED BY <3>1
  <2>6. ASSUME ~NeedsMore PROVE Len(buf) >= 1 /\ buf[1] = Word(r)[1]
    <3>1. buf # <<>>
      BY <1>1, <2>6 DEF NeedsMore
    <3>2. Len(buf) >= 1
      BY <3>1, TypeFacts, EmptySeq
    <3>3. Len(buf) = off - p
      BY <2>2 DEF Carried
    <3>4. 1 \in 1 .. off - p /\ p + 1 = 1
      BY <2>3, <3>2, <3>3, TypeFacts
    <3>5. buf[1] = Word(r)[p + 1]
      BY <2>2, <3>4 DEF Carried
    <3> QED BY <3>2, <3>4, <3>5
  <2>7. /\ ~NeedsMore
        /\ pc' = IF r.kind = "binary" THEN "header" ELSE "line"
        /\ buf' = Tail(buf)
        /\ UNCHANGED <<map, size, results>>
    <3>1. Zero # Newline
      BY DEF Zero, Newline
    <3> QED BY <2>4, <2>5, <2>6, <3>1 DEF FirstByte
  <2>8. PICK d \in Nat : d = 1
    OBVIOUS
  <2>9. Carried(r, p + d, m)'
    <3>1. buf # <<>> /\ buf \in Seq(Stream)
      BY <1>1, <2>7, TypeFacts DEF NeedsMore
    <3>2. /\ Len(buf') = Len(buf) - d
          /\ \A j \in 1 .. Len(buf) - d : buf'[j] = buf[d + j]
      <4>1. /\ Len(Tail(buf)) = Len(buf) - 1
            /\ \A q \in 1 .. Len(Tail(buf)) : Tail(buf)[q] = buf[q + 1]
        BY <3>1, HeadTailProperties
      <4>2. \A q \in 1 .. Len(buf) - 1 : q + 1 = 1 + q
        OBVIOUS
      <4> QED BY <2>7, <2>8, <4>1, <4>2
    <3>3. d <= Len(buf)
      BY <2>6, <2>7, <2>8
    <3> QED BY <1>1, <2>2, <3>2, <3>3, CarriedTake
  <2>10. Place(r, p + d)'
    <3>1. p + d = 1
      BY <2>3, <2>8
    <3>2. CASE r.kind = "binary"
      BY <2>7, <3>1, <3>2 DEF Place
    <3>3. CASE r.kind # "binary"
      <4>1. map' = {}
        BY <1>1, <2>7 DEF TypeInv
      <4>2. PICK i \in 0 .. Len(r.lines) : i = 0
        BY ReplyFacts
      <4>3. 1 .. i = {} /\ LastOf(r.lines, i) = {} /\ 1 = 1 + 2 * i
        BY <4>2 DEF LastOf
      <4> QED BY <2>7, <3>1, <3>3, <4>1, <4>3 DEF Place
    <3> QED BY <3>2, <3>3
  <2>11. Whole(r)' /\ Latest' = r
    BY <1>1, <2>1, <2>2 DEF Whole, Latest
  <2>12. Reading'
    <3>1. p + d \in Nat
      OBVIOUS
    <3> QED BY <2>9, <2>10, <2>11, <3>1 DEF Reading
  <2>13. InStep' /\ Len(served') = Len(results') + 1 /\ pc' # "idle" /\ pc' # "ended"
    BY <1>1, <1>2, <1>4, <2>7 DEF InStep
  <2> QED BY <2>12, <2>13 DEF StepInv
<1> QED BY <1>3, <1>4

\* Where in an ascii reply the client is, its lines that are still to come are whole
\* and in their places.
LEMMA LineFacts ==
    ASSUME TypeInv, NEW r \in Replies, NEW p \in Nat, NEW m \in Nat, Carried(r, p, m),
           pc = "line", Place(r, p)
    PROVE  \E n \in Nat, i \in Nat, o \in Nat, e \in Nat :
              /\ r.kind # "binary" /\ n = Len(r.lines) /\ i <= n /\ o = off /\ e = Len(buf)
              /\ p = 1 + 2 * i /\ map = LastOf(r.lines, i)
              /\ \A k \in 1 .. i : r.lines[k] \notin Long
              /\ Len(Word(r)) = 2 + 2 * n /\ o <= 2 + 2 * n /\ e = o - p
              /\ \A j \in 1 .. e : buf[j] = Word(r)[p + j]
              /\ i = n /\ e >= 1 => buf[1] = Newline /\ o = 2 + 2 * n /\ e = 1
              /\ i < n /\ e >= 1 => buf[1] = r.lines[i + 1] /\ r.lines[i + 1] \in Lines
              /\ i < n /\ e >= 2 => buf[2] = Newline
<1>1. PICK n \in Nat : n = Len(r.lines)
  BY ReplyFacts
<1>2. PICK i \in 0 .. n : /\ p = 1 + 2 * i /\ map = LastOf(r.lines, i)
                          /\ \A k \in 1 .. i : r.lines[k] \notin Long
  BY <1>1 DEF Place
<1>3. r.kind # "binary"
  BY DEF Place
<1>4. PICK w : w = Word(r)
  OBVIOUS
<1>5. /\ Len(w) = 2 + 2 * n /\ w[2 + 2 * n] = Newline
      /\ \A k \in 1 .. n : w[2 * k] = r.lines[k] /\ w[1 + 2 * k] = Newline
  BY <1>1, <1>3, <1>4, AsciiWord
<1>6. PICK o \in Nat, e \in Nat : o = off /\ e = Len(buf)
  BY TypeFacts
<1>7. o <= 2 + 2 * n /\ e = o - p
  <2>1. PICK l \in Nat, b \in Nat :
           l = Len(Word(r)) /\ off <= b /\ b <= l /\ Len(buf) = off - p
    BY CarriedFacts
  <2> QED BY <1>4, <1>5, <1>6, <2>1
<1>8. \A j \in 1 .. e : buf[j] = w[p + j]
  BY <1>4, <1>6, <1>7 DEF Carried
<1>9. ASSUME i = n, e >= 1 PROVE buf[1] = Newline /\ o = 2 + 2 * n /\ e = 1
  <2>1. o = 2 + 2 * n /\ e = 1 /\ p + 1 = 2 + 2 * n
    BY <1>2, <1>7, <1>9
  <2>2. buf[1] = w[p + 1]
    BY <1>8, <2>1
  <2> QED BY <1>5, <2>1, <2>2
<1>10. ASSUME i < n, e >= 1 PROVE buf[1] = r.lines[i + 1] /\ r.lines[i + 1] \in Lines
  <2>1. p + 1 = 2 * (i + 1) /\ i + 1 \in 1 .. n /\ 1 \in 1 .. e
    BY <1>2, <1>10
  <2>2. buf[1] = w[p + 1]
    BY <1>8, <2>1
  <2>3. w[2 * (i + 1)] = r.lines[i + 1]
    BY <1>5, <2>1
  <2>4. r.lines[i + 1] \in Lines
    BY <1>1, <2>1, ReplyFacts
  <2> QED BY <2>1, <2>2, <2>3, <2>4
<1>11. ASSUME i < n, e >= 2 PROVE buf[2] = Newline
  <2>1. p + 2 = 1 + 2 * (i + 1) /\ i + 1 \in 1 .. n /\ 2 \in 1 .. e
    BY <1>2, <1>11
  <2>2. buf[2] = w[p + 2]
    BY <1>8, <2>1
  <2>3. w[1 + 2 * (i + 1)] = Newline
    BY <1>5, <2>1
  <2> QED BY <2>1, <2>2, <2>3
<1>12. i \in Nat /\ i <= n
  BY <1>2
<1> QED BY <1>1, <1>2, <1>3, <1>4, <1>5, <1>6, <1>7, <1>8, <1>9, <1>10, <1>11, <1>12

LEMMA ReadLineStep ==
    ASSUME TypeInv, StepInv, ReadLine
    PROVE  StepInv'
<1> SUFFICES ASSUME ~broken' PROVE StepInv'
  BY DEF StepInv
<1>1. pc = "line" /\ UNCHANGED <<requests, todo, served, wire, closed, off, broken>>
  BY DEF ReadLine, serverVars
<1>2. ~broken /\ InStep /\ Waiting = 1 /\ Reading /\ Len(served) = Len(results) + 1
  BY <1>1 DEF StepInv, Waiting
<1>3. PICK r \in Replies : r = Latest
  BY <1>2, ReadingFacts
<1>4. PICK p \in Nat, m \in Nat : Carried(r, p, m) /\ Place(r, p) /\ Whole(r)
  BY <1>2, <1>3 DEF Reading
<1>5. PICK n \in Nat, i \in Nat, o \in Nat, e \in Nat :
         /\ r.kind # "binary" /\ n = Len(r.lines) /\ i <= n /\ o = off /\ e = Len(buf)
         /\ p = 1 + 2 * i /\ map = LastOf(r.lines, i)
         /\ \A k \in 1 .. i : r.lines[k] \notin Long
         /\ Len(Word(r)) = 2 + 2 * n /\ o <= 2 + 2 * n /\ e = o - p
         /\ \A j \in 1 .. e : buf[j] = Word(r)[p + j]
         /\ i = n /\ e >= 1 => buf[1] = Newline /\ o = 2 + 2 * n /\ e = 1
         /\ i < n /\ e >= 1 => buf[1] = r.lines[i + 1] /\ r.lines[i + 1] \in Lines
         /\ i < n /\ e >= 2 => buf[2] = Newline
  BY <1>1, <1>4, LineFacts
<1>6. DOMAIN buf = 1 .. e /\ buf \in Seq(Stream)
  BY <1>5, TypeFacts, LenProperties
<1>7. \A l \in Lines : l # Newline
  BY LinesAssumption DEF Newline
<1>8. ~(NeedsMore /\ AtEnd)
  <2> SUFFICES ASSUME NeedsMore, AtEnd PROVE FALSE
    OBVIOUS
  <2>1. \A j \in 1 .. e : buf[j] # Newline
    BY <1>1, <1>6 DEF NeedsMore
  <2>2. e = (2 + 2 * n) - p
    BY <1>4, <1>5, AllArrived
  <2>3. e \in 1 .. e /\ p + e = 2 + 2 * n
    <3>1. i <= n /\ p = 1 + 2 * i
      BY <1>5
    <3> QED BY <2>2, <3>1
  <2>4. buf[e] = Word(r)[p + e]
    BY <1>5, <2>3
  <2>5. Word(r)[2 + 2 * n] = Newline
    BY <1>5, AsciiWord
  <2> QED BY <2>1, <2>3, <2>4, <2>5
<1>9. PICK k, line :
         /\ k \in 1 .. e /\ line = First(buf, k - 1)
         /\ buf[k] = Newline /\ \A j \in 1 .. k - 1 : buf[j] # Newline
         /\ \/ k = 1 /\ Return(Result("ascii", map, <<>>))
            \/ /\ k > 1 /\ \E j \in DOMAIN line : line[j] \in Lines \ Long
               /\ map' = insert(Entry(line))
               /\ buf' = Rest(buf, k)
               /\ UNCHANGED <<pc, size, results>>
            \/ /\ \E j \in DOMAIN line : line[j] \in Long
               /\ Return(Result("panic", {}, <<>>))
            \/ /\ k > 1 /\ \A j \in DOMAIN line : line[j] \notin Lines
               /\ Return(Result("malformed", {}, <<>>))
  BY <1>6, <1>8 DEF ReadLine
<1>10. e >= 1
  BY <1>9
<1>11. PICK g \in Nat : g = k - 1
  BY <1>9
<1>12. /\ line \in Seq(Stream) /\ Len(line) = g /\ DOMAIN line = 1 .. g
       /\ \A j \in 1 .. g : line[j] = buf[j]
  <2>1. Least(g, Len(buf)) = g
    BY <1>5, <1>9, <1>11 DEF Least
  <2>2. line = First(buf, g)
    BY <1>9, <1>11
  <2>3. /\ line \in Seq(Stream) /\ Len(line) = Least(g, Len(buf))
        /\ \A j \in 1 .. Least(g, Len(buf)) : line[j] = buf[j]
    BY <1>6, <2>2, FirstFacts
  <2> QED BY <2>1, <2>3, LenProperties
<1>13. CASE i = n
  <2>1. buf[1] = Newline /\ o = 2 + 2 * n /\ e = 1
    BY <1>5, <1>10, <1>13
  <2>2. k = 1 /\ g = 0
    BY <1>9, <1>11, <2>1
  <2>3. DOMAIN line = {}
    BY <1>12, <2>2
  <2>4. Return(Result("ascii", map, <<>>))
    BY <1>9, <2>2, <2>3
  <2>5. Result("ascii", map, <<>>) = AsRead(Latest)
    <3>1. \A j \in 1 .. n : r.lines[j] \notin Long
      BY <1>5, <1>13
    <3>2. map = LastOf(r.lines, n)
      BY <1>5, <1>13
    <3>3. AsRead(r) = Result("ascii", LastOf(r.lines, n), <<>>)
      BY <1>5, <3>1 DEF AsRead, LastOf
    <3> QED BY <1>3, <3>2, <3>3
  <2>6. wire = <<>> /\ \A q \in 1 .. Len(todo) : todo[q] = <<>>
    BY <1>4, <1>5, <2>1, NothingBehind
  <2> QED BY <1>1, <1>2, <2>4, <2>5, <2>6, ReturnStep DEF serverVars
<1>14. CASE i # n
  <2>0. i < n
    <3>1. i <= n
      BY <1>5
    <3> QED BY <1>14, <3>1
  <2>1. i < n /\ buf[1] = r.lines[i + 1] /\ r.lines[i + 1] \in Lines
    BY <1>5, <1>10, <2>0
  <2>2. k = 2 /\ g = 1
    <3>1. k # 1
      BY <1>7, <1>9, <2>1
    <3>2. ~(k > 2)
      <4> SUFFICES ASSUME k > 2 PROVE FALSE
        OBVIOUS
      <4>1. e >= 2 /\ 2 \in 1 .. k - 1
        BY <1>9
      <4> QED BY <1>5, <1>9, <2>1, <4>1
    <3> QED BY <1>9, <1>11, <3>1, <3>2
  <2>3. PICK x \in Lines : x = r.lines[i + 1]
    BY <2>1
  <2>4. Len(line) = 1 /\ DOMAIN line = {1} /\ line[1] = x
    BY <1>12, <2>1, <2>2, <2>3
  <2>5. CASE x \in Long
    <3>1. Return(Result("panic", {}, <<>>))
      BY <1>9, <2>2, <2>4, <2>5
    <3>2. Result("panic", {}, <<>>) = AsRead(Latest)
      <4>1. i + 1 \in 1 .. n
        BY <2>1
      <4> QED BY <1>3, <1>5, <2>3, <2>5, <4>1 DEF AsRead
    <3>3. Result("panic", {}, <<>>).kind = "panic"
      BY DEF Result
    <3> QED BY <1>1, <1>2, <3>1, <3>2, <3>3, ReturnStep DEF serverVars
  <2>6. CASE x \notin Long
    <3>1. map' = insert(Entry(line)) /\ buf' = Rest(buf, k) /\ UNCHANGED <<pc, size, results>>
      BY <1>9, <2>2, <2>4, <2>6
    <3>2. PICK d \in Nat : d = 2
      OBVIOUS
    <3>3. Carried(r, p + d, m)'
      <4>1. d <= Len(buf)
        BY <1>5, <1>9, <2>2, <3>2
      <4>2. /\ Len(buf') = Len(buf) - d
            /\ \A j \in 1 .. Len(buf) - d : buf'[j] = buf[d + j]
        BY <1>6, <2>2, <3>1, <3>2, <4>1, RestFacts
      <4> QED BY <1>1, <1>4, <4>1, <4>2, CarriedTake
    <3>4. map' = LastOf(r.lines, i + 1)
      <4>1. Entry(line) = r.lines[i + 1]
        BY <2>3, <2>4 DEF Entry
      <4> QED BY <1>5, <2>1, <3>1, <4>1, ReplyFacts, LastInsert
    <3>5. Place(r, p + d)'
      <4>1. PICK c \in 0 .. n : c = i + 1
        BY <1>5, <2>1
      <4>2. p + d = 1 + 2 * c
        BY <1>5, <3>2, <4>1
      <4>3. \A j \in 1 .. c : r.lines[j] \notin Long
        <5>1. \A j \in 1 .. c : j \in 1 .. i \/ j = i + 1
          BY <4>1
        <5> QED BY <1>5, <2>3, <2>6, <5>1
      <4> QED BY <1>1, <1>5, <3>1, <3>4, <4>1, <4>2, <4>3 DEF Place
    <3>6. Whole(r)' /\ Latest' = r
      BY <1>1, <1>3, <1>4 DEF Whole, Latest
    <3>7. Reading'
      <4>1. p + d \in Nat
        OBVIOUS
      <4> QED BY <3>3, <3>5, <3>6, <4>1 DEF Reading
    <3>8. InStep' /\ Len(served') = Len(results') + 1 /\ pc' = "line"
      BY <1>1, <1>2, <3>1 DEF InStep
    <3> QED BY <3>7, <3>8 DEF StepInv
  <2> QED BY <2>5, <2>6
<1> QED BY <1>13, <1>14

\* Where in a block the client is, and that its size and its data come whole.
LEMMA BlockFacts ==
    ASSUME TypeInv, NEW r \in Replies, NEW p \in Nat, NEW m \in Nat, Carried(r, p, m),
           r.kind = "binary", Whole(r), p \in {1, 3}
    PROVE  \E n \in 0 .. 8, o \in Nat, e \in Nat :
              /\ n = Len(r.data) /\ o = off /\ e = Len(buf) /\ e = o - p
              /\ o \in {1, 3, 3 + n}
              /\ Len(Word(r)) = 3 + n
              /\ \A j \in 1 .. e : buf[j] = Word(r)[p + j]
              /\ buf = <<>> => e = 0
              /\ buf = <<>> /\ AtEnd => 3 + n = p
<1>1. PICK n \in 0 .. 8 : n = Len(r.data)
  BY ReplyFacts
<1>2. PICK o \in Nat, e \in Nat : o = off /\ e = Len(buf)
  BY TypeFacts
<1>3. Len(Word(r)) = 3 + n
  <2>1. n \in Nat
    OBVIOUS
  <2> QED BY <1>1, <2>1, BinaryWord
<1>4. p <= o /\ e = o - p
  <2>1. p <= off /\ Len(buf) = off - p
    BY DEF Carried
  <2> QED BY <1>2, <2>1
<1>5. o \in {1, 3, 3 + n}
  <2>1. off \in {0, 1, 3, 3 + Len(r.data)}
    BY DEF Whole
  <2>2. o # 0
    BY <1>4
  <2> QED BY <1>1, <1>2, <2>1, <2>2
<1>6. \A j \in 1 .. e : buf[j] = Word(r)[p + j]
  BY <1>2, <1>4 DEF Carried
<1>7. buf = <<>> => e = 0
  BY <1>2
<1>8. ASSUME buf = <<>>, AtEnd PROVE 3 + n = p
  <2>1. Len(buf) = Len(Word(r)) - p
    BY <1>8, AllArrived
  <2>2. 0 = (3 + n) - p
    BY <1>2, <1>3, <1>7, <1>8, <2>1
  <2> QED BY <2>2
<1> QED BY <1>1, <1>2, <1>3, <1>4, <1>5, <1>6, <1>7, <1>8

LEMMA ReadSizeStep ==
    ASSUME TypeInv, StepInv, ReadSize
    PROVE  StepInv'
<1> SUFFICES ASSUME ~broken' PROVE StepInv'
  BY DEF StepInv
<1>1. /\ pc = "header" /\ (NeedsMore => AtEnd)
      /\ size' = SizeOf(ReadInto(2)) /\ buf' = Rest(buf, 2) /\ pc' = "data"
      /\ UNCHANGED <<requests, todo, served, wire, closed, map, results, off, broken>>
  BY DEF ReadSize, serverVars, HeaderSize
<1>2. ~broken /\ InStep /\ Waiting = 1 /\ Reading /\ Len(served) = Len(results) + 1
  BY <1>1 DEF StepInv, Waiting
<1>3. PICK r \in Replies : r = Latest
  BY <1>2, ReadingFacts
<1>4. PICK p \in Nat, m \in Nat : Carried(r, p, m) /\ Place(r, p) /\ Whole(r)
  BY <1>2, <1>3 DEF Reading
<1>5. r.kind = "binary" /\ p = 1
  BY <1>1, <1>4 DEF Place
<1>6. PICK n \in 0 .. 8, o \in Nat, e \in Nat :
         /\ n = Len(r.data) /\ o = off /\ e = Len(buf) /\ e = o - p
         /\ o \in {1, 3, 3 + n}
         /\ \A j \in 1 .. e : buf[j] = Word(r)[p + j]
         /\ buf = <<>> => e = 0
         /\ buf = <<>> /\ AtEnd => 3 + n = p
  BY <1>4, <1>5, BlockFacts
<1>7. e >= 2
  <2>1. buf # <<>>
    <3>1. 3 + n # p
      BY <1>5
    <3> QED BY <1>1, <1>6, <3>1 DEF NeedsMore
  <2>2. e # 0
    BY <1>6, <2>1, TypeFacts, EmptySeq
  <2>3. e = o - 1 /\ o \in {1, 3, 3 + n}
    BY <1>5, <1>6
  <2> QED BY <2>2, <2>3
<1>8. /\ Word(r)[2] = n \div Base /\ Word(r)[3] = n % Base
      /\ n \div Base \in 0 .. 2 /\ n % Base \in 0 .. 2
      /\ (n \div Base) * Base + (n % Base) = n
  BY <1>5, <1>6, BinaryWord
<1>9. PICK a \in 0 .. 2, b \in 0 .. 2 : a = n \div Base /\ b = n % Base /\ a * Base + b = n
  BY <1>8
<1>10. buf[1] = a /\ buf[2] = b
  <2>1. 1 \in 1 .. e /\ 2 \in 1 .. e /\ p + 1 = 2 /\ p + 2 = 3
    BY <1>5, <1>7
  <2>2. buf[1] = Word(r)[p + 1] /\ buf[2] = Word(r)[p + 2]
    BY <1>6, <2>1
  <2> QED BY <1>8, <1>9, <2>1, <2>2
<1>11. size' = n
  <2>1. PICK c, h : c \in Nat /\ c = 2 /\ h = ReadInto(c)
    OBVIOUS
  <2>2. \A j \in 1 .. c : h[j] = IF j <= Len(buf) THEN buf[j] ELSE Zero
    BY <2>1, ReadIntoFacts
  <2>3. h[1] = a /\ h[2] = b
    <3>1. 1 \in 1 .. c /\ 2 \in 1 .. c /\ 1 <= Len(buf) /\ 2 <= Len(buf)
      BY <1>6, <1>7, <2>1
    <3> QED BY <1>10, <2>2, <3>1
  <2>4. ByteOf(a) = a /\ ByteOf(b) = b
    <3>1. a \notin Lines /\ b \notin Lines
      BY LinesAssumption
    <3> QED BY <3>1 DEF ByteOf
  <2> QED BY <1>1, <1>9, <2>1, <2>3, <2>4 DEF SizeOf
<1>12. PICK d \in Nat : d = 2
  OBVIOUS
<1>13. Carried(r, p + d, m)'
  <2>1. d <= Len(buf)
    BY <1>6, <1>7, <1>12
  <2>2. Len(buf') = Len(buf) - d /\ \A j \in 1 .. Len(buf) - d : buf'[j] = buf[d + j]
    BY <1>1, <1>12, <2>1, TypeFacts, RestFacts
  <2> QED BY <1>1, <1>4, <2>1, <2>2, CarriedTake
<1>14. Place(r, p + d)'
  <2>1. p + d = 3
    BY <1>5, <1>12
  <2> QED BY <1>1, <1>5, <1>6, <1>11, <2>1 DEF Place
<1>15. Whole(r)' /\ Latest' = r
  BY <1>1, <1>3, <1>4 DEF Whole, Latest
<1>16. Reading'
  <2>1. p + d \in Nat
    OBVIOUS
  <2> QED BY <1>13, <1>14, <1>15, <2>1 DEF Reading
<1>17. InStep' /\ Len(served') = Len(results') + 1
  BY <1>1, <1>2 DEF InStep
<1> QED BY <1>1, <1>16, <1>17 DEF StepInv

LEMMA ReadDataStep ==
    ASSUME TypeInv, StepInv, ReadData
    PROVE  StepInv'
<1> SUFFICES ASSUME ~broken' PROVE StepInv'
  BY DEF StepInv
<1>1. /\ pc = "data" /\ (NeedsMore => AtEnd)
      /\ Return(Result("binary", {}, ReadInto(size)))
      /\ UNCHANGED <<serverVars, wire, closed, off, broken>>
  BY DEF ReadData
<1>2. ~broken /\ InStep /\ Waiting = 1 /\ Reading /\ Len(served) = Len(results) + 1
  BY <1>1 DEF StepInv, Waiting
<1>3. PICK r \in Replies : r = Latest
  BY <1>2, ReadingFacts
<1>4. PICK p \in Nat, m \in Nat : Carried(r, p, m) /\ Place(r, p) /\ Whole(r)
  BY <1>2, <1>3 DEF Reading
<1>5. r.kind = "binary" /\ p = 3 /\ size = Len(r.data)
  BY <1>1, <1>4 DEF Place
<1>6. PICK n \in 0 .. 8, o \in Nat, e \in Nat :
         /\ n = Len(r.data) /\ o = off /\ e = Len(buf) /\ e = o - p
         /\ o \in {1, 3, 3 + n}
         /\ Len(Word(r)) = 3 + n
         /\ \A j \in 1 .. e : buf[j] = Word(r)[p + j]
         /\ buf = <<>> => e = 0
         /\ buf = <<>> /\ AtEnd => 3 + n = p
  BY <1>4, <1>5, BlockFacts
<1>7. o = 3 + n /\ e = n
  <2>1. e = o - 3 /\ o \in {1, 3, 3 + n}
    BY <1>5, <1>6
  <2>2. n = 0 \/ e # 0
    <3>1. CASE buf = <<>>
      <4>1. n = 0 \/ AtEnd
        <5>1. size = n
          BY <1>5, <1>6
        <5>2. n > 0 \/ n = 0
          OBVIOUS
        <5> QED BY <1>1, <3>1, <5>1, <5>2 DEF NeedsMore
      <4>2. AtEnd => 3 + n = 3
        BY <1>5, <1>6, <3>1
      <4> QED BY <4>1, <4>2
    <3>2. CASE buf # <<>>
      BY <1>6, <3>2, TypeFacts, EmptySeq
    <3> QED BY <3>1, <3>2
  <2> QED BY <2>1, <2>2
<1>8. ReadInto(size) = r.data
  <2>1. PICK h : h = ReadInto(n)
    OBVIOUS
  <2>2. /\ h \in Seq(Stream) /\ Len(h) = n
        /\ \A j \in 1 .. n : h[j] = IF j <= Len(buf) THEN buf[j] ELSE Zero
    BY <2>1, ReadIntoFacts
  <2>3. ASSUME NEW j \in 1 .. n PROVE h[j] = r.data[j]
    <3>1. j \in 1 .. e /\ j <= Len(buf) /\ p + j = 3 + j
      BY <1>5, <1>6, <1>7
    <3>2. buf[j] = Word(r)[p + j]
      BY <1>6, <3>1
    <3>3. Word(r)[3 + j] = r.data[j]
      BY <1>5, <1>6, BinaryWord
    <3> QED BY <2>2, <3>1, <3>2, <3>3
  <2>4. r.data \in Seq(Stream)
    <3>1. r.data \in Seq(0 .. 2) /\ 0 .. 2 \subseteq Stream
      BY ReplyFacts DEF Stream, Bytes, Base
    <3> QED BY <3>1, SeqMonotonic
  <2>5. h = r.data
    <3>1. h \in Seq(Stream) /\ Len(h) = Len(r.data) /\ \A j \in 1 .. Len(h) : h[j] = r.data[j]
      BY <1>6, <2>2, <2>3
    <3> QED BY <2>4, <3>1, SeqEqual
  <2> QED BY <1>5, <1>6, <2>1, <2>5
<1>9. Result("binary", {}, ReadInto(size)) = AsRead(Latest)
  BY <1>3, <1>5, <1>8 DEF AsRead
<1>10. wire = <<>> /\ \A q \in 1 .. Len(todo) : todo[q] = <<>>
  BY <1>4, <1>6, <1>7, NothingBehind
<1> QED BY <1>1, <1>2, <1>9, <1>10, ReturnStep

\* However TCP cuts the stream, get_reply returns to each command what it makes of the
\* whole reply to it (for every set of replies, every capacity of the connection and
\* of its BufReader, and any number of commands).
THEOREM InStepHolds == Spec => []InStep
<1>1. ASSUME TypeInv, StepInv, [Next]_vars PROVE StepInv'
  <2>1. CASE execute_command
    BY <1>1, <2>1, AskStep
  <2>2. CASE Execute
    BY <1>1, <2>2, ExecuteStep
  <2>3. CASE Write
    BY <1>1, <2>3, WriteStep
  <2>4. CASE Close
    BY <1>1, <2>4, CloseStep
  <2>5. CASE Fill
    BY <1>1, <2>5, FillStep
  <2>6. CASE FirstByte
    BY <1>1, <2>6, FirstByteStep
  <2>7. CASE ReadLine
    BY <1>1, <2>7, ReadLineStep
  <2>8. CASE ReadSize
    BY <1>1, <2>8, ReadSizeStep
  <2>9. CASE ReadData
    BY <1>1, <2>9, ReadDataStep
  <2>10. CASE UNCHANGED vars
    <3>1. UNCHANGED <<requests, todo, served, wire, closed, pc, buf, map, size, results,
                      off, broken>>
      BY <2>10 DEF vars, serverVars, clientVars
    <3>2. /\ InStep' = InStep /\ Clean' = Clean /\ Waiting' = Waiting
          /\ Reading' = Reading
      BY <3>1 DEF InStep, Clean, Waiting, Reading, Carried, Place, Whole, Latest
    <3> QED BY <1>1, <3>1, <3>2 DEF StepInv
  <2> QED BY <1>1, <2>1, <2>2, <2>3, <2>4, <2>5, <2>6, <2>7, <2>8, <2>9, <2>10 DEF Next, Read
<1>2. StepInv => InStep
  <2>1. broken => InStep
    BY DEF InStep
  <2> QED BY <2>1 DEF StepInv
<1> QED BY TypeInvHolds, StepInit, <1>1, <1>2, PTL DEF Spec

\* A reply with no key twice and no line too long is taken for what it says.
LEMMA SimpleTaken ==
    ASSUME NEW r \in Replies, Simple(r)
    PROVE  AsRead(r) = Meaning(r)
<1>1. CASE r.kind = "binary"
  BY <1>1 DEF AsRead, Meaning
<1>2. CASE r.kind # "binary"
  <2> DEFINE n == Len(r.lines)
             last == {i \in 1 .. n : \A j \in i + 1 .. n : KeyOf[r.lines[j]] # KeyOf[r.lines[i]]}
  <2>1. DOMAIN r.lines = 1 .. n /\ n \in Nat
    <3>1. r.lines \in Seq(Lines)
      BY RepliesAssumption
    <3> QED BY <3>1
  <2>2. \A i \in 1 .. n : r.lines[i] \notin Long
    BY <2>1 DEF Simple
  <2>3. last = 1 .. n
    <3> SUFFICES ASSUME NEW i \in 1 .. n, NEW j \in i + 1 .. n
                 PROVE  KeyOf[r.lines[j]] # KeyOf[r.lines[i]]
      OBVIOUS
    <3>1. j \in 1 .. n /\ j # i
      BY <2>1
    <3> QED BY <2>1, <3>1 DEF Simple
  <2>4. AsRead(r) = Result("ascii", {r.lines[i] : i \in last}, <<>>)
    BY <1>2, <2>2 DEF AsRead
  <2>5. Meaning(r) = Result("ascii", {r.lines[i] : i \in 1 .. n}, <<>>)
    BY <1>2, <2>1 DEF Meaning
  <2> QED BY <2>3, <2>4, <2>5
<1> QED BY <1>1, <1>2

\* The caller of get_reply gets all that an ordinary reply says, and of the command it
\* sent, however the stream is cut.
THEOREM SimpleRepliesAsMeant == Spec => []SimpleAsMeant
<1>1. TypeInv /\ InStep => SimpleAsMeant
  <2> SUFFICES ASSUME TypeInv, InStep, ~broken,
                      NEW k \in DOMAIN results \cap DOMAIN served, Simple(served[k])
               PROVE  results[k] = Meaning(served[k])
    BY DEF SimpleAsMeant
  <2>1. served \in Seq(Replies)
    BY DEF TypeInv
  <2>2. k \in 1 .. Len(served) /\ served[k] \in Replies
    BY <2>1, ElementOfSeq
  <2>3. k <= Len(served)
    BY <2>2
  <2>4. results[k] = AsRead(served[k])
    BY <2>3 DEF InStep
  <2> QED BY <2>2, <2>4, SimpleTaken
<1> QED BY TypeInvHolds, InStepHolds, <1>1, PTL

=============================================================================
