------------------------- MODULE ClientPacingProofs -------------------------
(***************************************************************************)
(* A client that paces itself gets what NwaConnection promises: the        *)
(* session implements a connection, for every set of requests, every       *)
(* number of them and every way TCP cuts the stream.                       *)
(*                                                                         *)
(* The invariant says where in the requests the session is.  What is left  *)
(* of the stream is what is left of the requests not served yet (Laid),    *)
(* and the state of the slot tells how far into the first of them it is:   *)
(* before its line, behind its name, behind its line, in its header or in  *)
(* the data of its block.  It needs the pacing: CopySize takes as many     *)
(* bytes as the whole block has, so that data may be read past the end of  *)
(* a block unless nothing is sent behind it.                               *)
(***************************************************************************)
EXTENDS ClientSessionProofs

-----------------------------------------------------------------------------
(* How the requests lie in the stream                                      *)

\* s is what is left of the requests st from the c-th on when the first k symbols of
\* that one are gone; the q-th begins at pos[q].
Layout(pos, s, st, c, k) ==
    /\ pos \in [c .. Len(st) + 1 -> Int]
    /\ pos[c] = 1 - k
    /\ pos[Len(st) + 1] = Len(s) + 1
    /\ c <= Len(st) => 1 <= pos[c + 1]
    /\ \A p, q \in c .. Len(st) + 1 : p <= q => pos[p] <= pos[q]
    /\ \A q \in c .. Len(st) :
          /\ pos[q + 1] = pos[q] + Len(Bytes(st[q]))
          /\ \A j \in 1 .. Len(Bytes(st[q])) :
                pos[q] + j > 1 => s[pos[q] + j - 1] = Bytes(st[q])[j]

Laid(s, st, c, k) == \E pos : Layout(pos, s, st, c, k)

\* What is left of the c-th request is at the front, and it is all when no other follows.
LEMMA LaidCurrent ==
    ASSUME NEW s \in Seq(Symbols), NEW st \in Seq(Requests), NEW c \in 1 .. Len(st),
           NEW k \in Nat, NEW w, w = Bytes(st[c]), Laid(s, st, c, k)
    PROVE  /\ w \in Seq(Symbols) /\ Len(w) \in Nat /\ Len(s) \in Nat
           /\ k <= Len(w) /\ Len(w) - k <= Len(s)
           /\ \A j \in 1 .. Len(w) - k : s[j] = w[k + j]
           /\ c = Len(st) => Len(s) = Len(w) - k
<1>1. w \in Seq(Symbols) /\ Len(w) \in Nat /\ Len(s) \in Nat /\ Len(st) \in Nat
  BY BytesFacts
<1>2. PICK pos : Layout(pos, s, st, c, k)
  BY DEF Laid
<1>3. PICK n \in Nat, l \in Nat, m \in Nat : n = Len(st) /\ l = Len(s) /\ m = Len(w)
  BY <1>1
<1>4. /\ pos \in [c .. n + 1 -> Int] /\ pos[c] = 1 - k /\ pos[n + 1] = l + 1
      /\ 1 <= pos[c + 1] /\ pos[c + 1] = pos[c] + m /\ pos[c + 1] <= pos[n + 1]
      /\ \A j \in 1 .. m : pos[c] + j > 1 => s[pos[c] + j - 1] = w[j]
  <2>1. c \in c .. n /\ c + 1 \in c .. n + 1 /\ n + 1 \in c .. n + 1 /\ c <= n /\ c + 1 <= n + 1
    BY <1>3
  <2>2. /\ pos \in [c .. n + 1 -> Int] /\ pos[c] = 1 - k /\ pos[n + 1] = l + 1
        /\ c <= n => 1 <= pos[c + 1]
        /\ \A p, q \in c .. n + 1 : p <= q => pos[p] <= pos[q]
    BY <1>2, <1>3 DEF Layout
  <2>3. pos[c + 1] = pos[c] + Len(Bytes(st[c]))
        /\ \A j \in 1 .. Len(Bytes(st[c])) :
               pos[c] + j > 1 => s[pos[c] + j - 1] = Bytes(st[c])[j]
    BY <1>2, <1>3, <2>1 DEF Layout
  <2> QED BY <1>3, <2>1, <2>2, <2>3
<1>5. k <= m /\ m - k <= l
  BY <1>4
<1>6. ASSUME NEW j \in 1 .. m - k PROVE s[j] = w[k + j]
  <2>1. k + j \in 1 .. m /\ pos[c] + (k + j) > 1 /\ pos[c] + (k + j) - 1 = j
    BY <1>4
  <2> QED BY <1>4, <2>1
<1>7. c = n => l = m - k
  BY <1>4
<1> QED BY <1>1, <1>3, <1>5, <1>6, <1>7

\* Nothing is left when all of them are gone.
LEMMA LaidNone ==
    ASSUME NEW s \in Seq(Symbols), NEW st \in Seq(Requests), NEW k \in Nat,
           Laid(s, st, Len(st) + 1, k)
    PROVE  k = 0 /\ Len(s) = 0
<1>1. PICK l \in Nat : l = Len(s)
  OBVIOUS
<1>2. 1 - k = l + 1
  BY <1>1 DEF Laid, Layout
<1> QED BY <1>1, <1>2

\* The next request is the current one when the current one is gone.
LEMMA LaidNext ==
    ASSUME NEW s \in Seq(Symbols), NEW st \in Seq(Requests), NEW c \in 1 .. Len(st),
           NEW k \in Nat, Laid(s, st, c, k), k = Len(Bytes(st[c]))
    PROVE  Laid(s, st, c + 1, 0)
<1>1. PICK pos : Layout(pos, s, st, c, k)
  BY DEF Laid
<1>2. PICK n \in Nat, l \in Nat : n = Len(st) /\ l = Len(s)
  OBVIOUS
<1>3. /\ pos \in [c .. n + 1 -> Int] /\ pos[c] = 1 - k /\ pos[n + 1] = l + 1
      /\ pos[c + 1] = pos[c] + k
      /\ \A p, q \in c .. n + 1 : p <= q => pos[p] <= pos[q]
      /\ \A q \in c .. n :
          /\ pos[q + 1] = pos[q] + Len(Bytes(st[q]))
          /\ \A j \in 1 .. Len(Bytes(st[q])) :
                pos[q] + j > 1 => s[pos[q] + j - 1] = Bytes(st[q])[j]
  BY <1>1, <1>2 DEF Layout
<1>4. pos[c + 1] = 1
  BY <1>3
<1>5. PICK f : f = [q \in c + 1 .. n + 1 |-> pos[q]]
  OBVIOUS
<1>6. /\ f \in [c + 1 .. n + 1 -> Int]
      /\ \A q \in c + 1 .. n + 1 : f[q] = pos[q]
      /\ f[c + 1] = 1 /\ f[n + 1] = l + 1
  BY <1>2, <1>3, <1>4, <1>5
<1>7. \A p, q \in c + 1 .. n + 1 : p <= q => f[p] <= f[q]
  <2> SUFFICES ASSUME NEW p \in c + 1 .. n + 1, NEW q \in c + 1 .. n + 1, p <= q
               PROVE  f[p] <= f[q]
    OBVIOUS
  <2>1. p \in c .. n + 1 /\ q \in c .. n + 1
    BY <1>2
  <2> QED BY <1>3, <1>6, <2>1
<1>8. ASSUME NEW q \in c + 1 .. n
      PROVE  /\ f[q + 1] = f[q] + Len(Bytes(st[q]))
             /\ \A j \in 1 .. Len(Bytes(st[q])) :
                   f[q] + j > 1 => s[f[q] + j - 1] = Bytes(st[q])[j]
  <2>1. q \in c .. n /\ q \in c + 1 .. n + 1 /\ q + 1 \in c + 1 .. n + 1
    BY <1>2
  <2>2. f[q] = pos[q] /\ f[q + 1] = pos[q + 1]
    BY <1>6, <2>1
  <2> QED BY <1>3, <2>1, <2>2
<1>9. c + 1 <= n => 1 <= f[(c + 1) + 1]
  <2>1. c + 1 <= n => c + 1 \in c + 1 .. n + 1 /\ (c + 1) + 1 \in c + 1 .. n + 1 /\ c + 1 <= (c + 1) + 1
    BY <1>2
  <2> QED BY <1>6, <1>7, <2>1
<1>10. Layout(f, s, st, c + 1, 0)
  BY <1>2, <1>6, <1>7, <1>8, <1>9 DEF Layout
<1> QED BY <1>10 DEF Laid

\* Symbols of the current request are taken off.
LEMMA LaidTaken ==
    ASSUME NEW s \in Seq(Symbols), NEW st \in Seq(Requests), NEW c \in 1 .. Len(st),
           NEW k \in Nat, Laid(s, st, c, k),
           NEW t, NEW d \in Nat, k + d <= Len(Bytes(st[c])),
           Len(t) = Len(s) - d, \A j \in 1 .. Len(s) - d : t[j] = s[j + d]
    PROVE  Laid(t, st, c, k + d)
<1>1. PICK pos : Layout(pos, s, st, c, k)
  BY DEF Laid
<1>2. PICK n \in Nat, l \in Nat : n = Len(st) /\ l = Len(s)
  OBVIOUS
<1>3. PICK len : len = [q \in c .. n |-> Len(Bytes(st[q]))]
  OBVIOUS
<1>4. \A q \in c .. n : len[q] \in Nat /\ len[q] = Len(Bytes(st[q]))
  <2> SUFFICES ASSUME NEW q \in c .. n PROVE len[q] \in Nat /\ len[q] = Len(Bytes(st[q]))
    OBVIOUS
  <2>1. q \in 1 .. Len(st)
    BY <1>2
  <2>2. st[q] \in Requests
    BY <2>1
  <2> QED BY <1>3, <2>2, BytesFacts, SMTT(30)
<1>5. /\ pos \in [c .. n + 1 -> Int] /\ pos[c] = 1 - k /\ pos[n + 1] = l + 1
      /\ \A p, q \in c .. n + 1 : p <= q => pos[p] <= pos[q]
      /\ \A q \in c .. n :
          /\ pos[q + 1] = pos[q] + len[q]
          /\ \A j \in 1 .. len[q] : pos[q] + j > 1 => s[pos[q] + j - 1] = Bytes(st[q])[j]
  BY <1>1, <1>2, <1>4 DEF Layout
<1>6. PICK f : f = [q \in c .. n + 1 |-> pos[q] - d]
  OBVIOUS
<1>7. /\ f \in [c .. n + 1 -> Int]
      /\ \A q \in c .. n + 1 : f[q] = pos[q] - d
      /\ f[c] = 1 - (k + d) /\ f[n + 1] = (l - d) + 1
  BY <1>2, <1>5, <1>6
<1>8. \A p, q \in c .. n + 1 : p <= q => f[p] <= f[q]
  <2> SUFFICES ASSUME NEW p \in c .. n + 1, NEW q \in c .. n + 1, p <= q
               PROVE  f[p] <= f[q]
    OBVIOUS
  <2>1. pos[p] <= pos[q] /\ pos[p] \in Int /\ pos[q] \in Int /\ f[p] = pos[p] - d /\ f[q] = pos[q] - d
    BY <1>5, <1>7
  <2>2. PICK a \in Int, b \in Int : a = pos[p] /\ b = pos[q]
    BY <2>1
  <2>3. a - d <= b - d
    BY <2>1, <2>2, SMTT(30)
  <2> QED BY <2>1, <2>2, <2>3
<1>9. 1 <= f[c + 1]
  <2>1. c \in c .. n /\ c + 1 \in c .. n + 1
    BY <1>2
  <2>2. k + d <= len[c] /\ len[c] \in Nat /\ pos[c + 1] = pos[c] + len[c]
    BY <1>4, <1>5, <2>1
  <2>3. f[c + 1] = pos[c + 1] - d
    BY <1>7, <2>1
  <2> QED BY <1>5, <2>2, <2>3, SMTT(30)
<1>10. ASSUME NEW q \in c .. n
       PROVE  /\ f[q + 1] = f[q] + len[q]
              /\ \A j \in 1 .. len[q] : f[q] + j > 1 => t[f[q] + j - 1] = Bytes(st[q])[j]
  <2>1. q \in c .. n + 1 /\ q + 1 \in c .. n + 1 /\ n + 1 \in c .. n + 1 /\ q + 1 <= n + 1
    BY <1>2
  <2>2. PICK a \in Int, b \in Nat : a = pos[q] /\ b = len[q]
    BY <1>4, <1>5, <2>1
  <2>3. f[q] = a - d /\ f[q + 1] = a + b - d /\ a + b <= l + 1
    <3>1. pos[q + 1] = a + b /\ pos[q + 1] <= pos[n + 1] /\ pos[n + 1] = l + 1
      BY <1>5, <2>1, <2>2
    <3>2. f[q] = pos[q] - d /\ f[q + 1] = pos[q + 1] - d
      BY <1>7, <2>1
    <3> QED BY <2>2, <3>1, <3>2, SMTT(30)
  <2>4. ASSUME NEW j \in 1 .. b, (a - d) + j > 1
        PROVE  t[(a - d) + j - 1] = Bytes(st[q])[j]
    <3>1. PICK i : i = (a - d) + j - 1
      OBVIOUS
    <3>2. i \in 1 .. l - d /\ i + d = a + j - 1 /\ a + j > 1
      BY <1>2, <2>3, <2>4, <3>1
    <3>3. t[i] = s[i + d]
      BY <1>2, <3>2
    <3>4. s[a + j - 1] = Bytes(st[q])[j]
      BY <1>5, <2>2, <2>4, <3>2
    <3> QED BY <3>1, <3>2, <3>3, <3>4
  <2>5. f[q + 1] = f[q] + len[q]
    <3>1. a + b - d = (a - d) + b
      BY <2>2
    <3> QED BY <2>2, <2>3, <3>1
  <2>6. \A j \in 1 .. len[q] : f[q] + j > 1 => t[f[q] + j - 1] = Bytes(st[q])[j]
    BY <2>2, <2>3, <2>4, ZenonT(30)
  <2> QED BY <2>5, <2>6
<1>11. Len(t) = l - d
  BY <1>2
<1>12. Layout(f, t, st, c, k + d)
  BY <1>2, <1>4, <1>7, <1>8, <1>9, <1>10, <1>11 DEF Layout
<1> QED BY <1>12 DEF Laid

\* A request is sent.
LEMMA LaidSent ==
    ASSUME NEW s \in Seq(Symbols), NEW st \in Seq(Requests), NEW c \in 1 .. Len(st) + 1,
           NEW k \in Nat, Laid(s, st, c, k), NEW r \in Requests
    PROVE  Laid(s \o Bytes(r), Append(st, r), c, k)
<1>1. PICK pos : Layout(pos, s, st, c, k)
  BY DEF Laid
<1>2. PICK n \in Nat, l \in Nat, m \in Nat : n = Len(st) /\ l = Len(s) /\ m = Len(Bytes(r))
  BY BytesFacts
<1>3. PICK u, v : u = s \o Bytes(r) /\ v = Append(st, r)
  OBVIOUS
<1>4. /\ Len(u) = l + m
      /\ \A j \in 1 .. l : u[j] = s[j]
      /\ \A j \in 1 .. m : u[l + j] = Bytes(r)[j]
  <2>1. \A j \in 1 .. Len(s) + Len(Bytes(r)) :
           u[j] = IF j <= Len(s) THEN s[j] ELSE Bytes(r)[j - Len(s)]
    BY <1>3, BytesFacts, ConcatProperties
  <2>2. \A j \in 1 .. l + m : u[j] = IF j <= l THEN s[j] ELSE Bytes(r)[j - l]
    BY <1>2, <2>1
  <2>3. Len(u) = l + m
    BY <1>2, <1>3, BytesFacts, ConcatProperties
  <2>4. ASSUME NEW j \in 1 .. m PROVE u[l + j] = Bytes(r)[j]
    <3>1. l + j \in 1 .. l + m /\ ~(l + j <= l) /\ (l + j) - l = j
      BY <1>2
    <3> QED BY <2>2, <3>1
  <2> QED BY <1>2, <2>2, <2>3, <2>4
<1>5. /\ Len(v) = n + 1 /\ v[n + 1] = r
      /\ \A q \in 1 .. n : v[q] = st[q]
  BY <1>2, <1>3
<1>6. PICK len : len = [q \in c .. n |-> Len(Bytes(st[q]))]
  OBVIOUS
<1>7. \A q \in c .. n : len[q] \in Nat /\ len[q] = Len(Bytes(st[q]))
  <2> SUFFICES ASSUME NEW q \in c .. n PROVE len[q] \in Nat /\ len[q] = Len(Bytes(st[q]))
    OBVIOUS
  <2>1. q \in 1 .. Len(st)
    BY <1>2
  <2>2. st[q] \in Requests
    BY <2>1
  <2> QED BY <1>6, <2>2, BytesFacts
<1>8. /\ pos \in [c .. n + 1 -> Int] /\ pos[c] = 1 - k /\ pos[n + 1] = l + 1
      /\ c <= n => 1 <= pos[c + 1]
      /\ \A p, q \in c .. n + 1 : p <= q => pos[p] <= pos[q]
      /\ \A q \in c .. n :
          /\ pos[q + 1] = pos[q] + len[q]
          /\ \A j \in 1 .. len[q] : pos[q] + j > 1 => s[pos[q] + j - 1] = Bytes(st[q])[j]
  BY <1>1, <1>2, <1>7 DEF Layout
<1>9. PICK f : f = [q \in c .. (n + 1) + 1 |-> IF q <= n + 1 THEN pos[q] ELSE l + 1 + m]
  OBVIOUS
<1>10. /\ f \in [c .. (n + 1) + 1 -> Int]
       /\ \A q \in c .. n + 1 : f[q] = pos[q]
       /\ f[(n + 1) + 1] = l + 1 + m
  BY <1>2, <1>8, <1>9
<1>11. f[c] = 1 - k /\ 1 <= f[c + 1]
  <2>1. CASE c <= n
    <3>1. c \in c .. n + 1 /\ c + 1 \in c .. n + 1
      BY <1>2, <2>1
    <3> QED BY <1>8, <1>10, <2>1, <3>1
  <2>2. CASE c = n + 1
    BY <1>2, <1>8, <1>10, <2>2
  <2> QED BY <1>2, <2>1, <2>2
<1>12. \A p, q \in c .. (n + 1) + 1 : p <= q => f[p] <= f[q]
  <2> SUFFICES ASSUME NEW p \in c .. (n + 1) + 1, NEW q \in c .. (n + 1) + 1, p <= q
               PROVE  f[p] <= f[q]
    OBVIOUS
  <2>1. CASE q <= n + 1
    <3>1. p \in c .. n + 1 /\ q \in c .. n + 1
      BY <1>2, <2>1
    <3> QED BY <1>8, <1>10, <3>1
  <2>2. CASE q = (n + 1) + 1 /\ p <= n + 1
    <3>1. p \in c .. n + 1 /\ n + 1 \in c .. n + 1
      BY <1>2, <2>2
    <3>2. pos[p] <= pos[n + 1] /\ pos[p] \in Int
      BY <1>8, <3>1, <2>2
    <3> QED BY <1>8, <1>10, <2>2, <3>1, <3>2
  <2>3. CASE q = (n + 1) + 1 /\ p = (n + 1) + 1
    BY <1>2, <1>10, <2>3
  <2> QED BY <1>2, <2>1, <2>2, <2>3
<1>13. ASSUME NEW q \in c .. n + 1
       PROVE  /\ f[q + 1] = f[q] + Len(Bytes(v[q]))
              /\ \A j \in 1 .. Len(Bytes(v[q])) :
                    f[q] + j > 1 => u[f[q] + j - 1] = Bytes(v[q])[j]
  <2>1. CASE q <= n
    <3>1. q \in c .. n /\ q \in c .. n + 1 /\ q + 1 \in c .. n + 1 /\ n + 1 \in c .. n + 1
          /\ q + 1 <= n + 1 /\ q \in 1 .. n
      BY <1>2, <2>1
    <3>2. PICK a \in Int, b \in Nat : a = pos[q] /\ b = len[q]
      BY <1>7, <1>8, <3>1
    <3>3. f[q] = a /\ f[q + 1] = a + b /\ a + b <= l + 1
      BY <1>8, <1>10, <3>1, <3>2
    <3>4. v[q] = st[q] /\ b = Len(Bytes(v[q]))
      BY <1>5, <1>7, <3>1, <3>2
    <3>5. ASSUME NEW j \in 1 .. b, a + j > 1 PROVE u[a + j - 1] = Bytes(st[q])[j]
      <4>1. a + j - 1 \in 1 .. l
        BY <3>3, <3>5
      <4>2. s[a + j - 1] = Bytes(st[q])[j]
        BY <1>8, <3>1, <3>2, <3>5
      <4> QED BY <1>4, <4>1, <4>2
    <3> QED BY <3>3, <3>4, <3>5
  <2>2. CASE q = n + 1
    <3>1. v[q] = r /\ m = Len(Bytes(v[q]))
      BY <1>2, <1>5, <2>2
    <3>2. f[q] = l + 1 /\ f[q + 1] = (l + 1) + m
      BY <1>2, <1>8, <1>10, <2>2
    <3>3. ASSUME NEW j \in 1 .. m PROVE u[(l + 1) + j - 1] = Bytes(r)[j]
      <4>1. (l + 1) + j - 1 = l + j
        OBVIOUS
      <4> QED BY <1>4, <4>1
    <3> QED BY <3>1, <3>2, <3>3
  <2> QED BY <1>2, <2>1, <2>2
<1>14. f[(n + 1) + 1] = Len(u) + 1
  BY <1>4, <1>10
<1>15. Layout(f, u, v, c, k)
  BY <1>5, <1>10, <1>11, <1>12, <1>13, <1>14 DEF Layout
<1> QED BY <1>3, <1>15 DEF Laid

\* Nothing is sent, nothing is left.
LEMMA LaidEmpty == Laid(<<>>, <<>>, 1, 0)
<1>1. PICK f : f = [q \in 1 .. 1 |-> 1]
  OBVIOUS
<1>2. Len(<<>>) = 0
  BY EmptySeq
<1>3. f \in [1 .. 0 + 1 -> Int] /\ f[1] = 1 /\ \A p, q \in 1 .. 0 + 1 : f[p] = 1 /\ f[q] = 1
  BY <1>1
<1>4. ~(1 <= 0) /\ 1 .. 0 = {} /\ 0 + 1 = 1 /\ 1 - 0 = 1
  OBVIOUS
<1>5. Layout(f, <<>>, <<>>, 1, 0)
  BY <1>2, <1>3, <1>4 DEF Layout
<1> QED BY <1>5 DEF Laid

-----------------------------------------------------------------------------
(* What the requests of a client that paces itself lead to                 *)

\* Paceable spelt out.
LEMMA RegularFacts ==
    ASSUME NEW r \in Regular
    PROVE  /\ r \in Requests
           /\ r.class \in {"handled", "nohandler", "custom", "unknown", "none"}
           /\ r.b \in BOOLEAN /\ r.ret \in Int /\ NoBlock = -1
           /\ r.class = "none" => ~r.b
           /\ r.block = NoBlock <=> ~r.b /\ r.class # "none"
           /\ r.block # NoBlock => r.block \in Nat
           /\ r.b => /\ r.class \in {"handled", "nohandler", "custom"}
                     /\ r.class = "nohandler" => r.block = 1
                     /\ Refused(r) \/ Mismatch(r) \/ r.cmd = "bCORE_WRITE"
<1>1. r \in Requests /\ Paceable(r)
  BY RegularAssumption
<1> QED BY <1>1, RequestsAssumption DEF Paceable, Classes, NoBlock

\* Disposition case by case.
LEMMA DispositionIs ==
    ASSUME NEW r \in Regular
    PROVE  /\ r.class = "none" => Disposition(r) = Outcome("protocol_error", <<>>)
           /\ ~r.b /\ r.class # "none" =>
                 Disposition(r) = Outcome(IF r.class \in {"unknown", "nohandler"}
                                          THEN "invalid_command" ELSE "executed", <<>>)
           /\ r.b /\ Mismatch(r) => Disposition(r) = Outcome("protocol_error", <<>>)
           /\ r.b /\ ~Mismatch(r) /\ Refused(r) => Disposition(r) = Outcome("swallowed", <<>>)
           /\ r.b /\ ~Mismatch(r) /\ ~Refused(r) =>
                 Disposition(r) = Outcome("written", PayloadOf(r))
<1>1. (r.class = "none" => ~r.b) /\ r.b \in BOOLEAN
  BY RegularFacts
<1>2. r.class = "none" => Disposition(r) = Outcome("protocol_error", <<>>)
  BY <1>1, Zenon DEF Disposition
<1>3. ~r.b /\ r.class # "none" =>
         Disposition(r) = Outcome(IF r.class \in {"unknown", "nohandler"}
                                  THEN "invalid_command" ELSE "executed", <<>>)
  BY Zenon DEF Disposition
<1>4. r.b /\ Mismatch(r) => Disposition(r) = Outcome("protocol_error", <<>>)
  BY <1>1, Zenon DEF Disposition
<1>5. r.b /\ ~Mismatch(r) /\ Refused(r) => Disposition(r) = Outcome("swallowed", <<>>)
  BY <1>1, Zenon DEF Disposition
<1>6. r.b /\ ~Mismatch(r) /\ ~Refused(r) => Disposition(r) = Outcome("written", PayloadOf(r))
  BY <1>1, Zenon DEF Disposition
<1> QED BY <1>2, <1>3, <1>4, <1>5, <1>6

\* What the server goes by when the block of r comes: what execute_command returned.
Announced(r) == IF Returned(r) < 0 THEN -Returned(r) ELSE Returned(r)

\* ... tells the server the same as Refused and Mismatch tell of r.
LEMMA ReturnedTells ==
    ASSUME NEW r \in Regular, r.b
    PROVE  /\ Returned(r) < 0 <=> Refused(r)
           /\ Announced(r) = 0 \/ r.block = Announced(r) <=> ~Mismatch(r)
           /\ ~Mismatch(r) /\ ~Refused(r) => r.cmd = "bCORE_WRITE"
<1>1. /\ r.class \in {"handled", "nohandler", "custom"} /\ r.ret \in Int /\ r.block \in Nat
      /\ r.class = "nohandler" => r.block = 1
      /\ Refused(r) \/ Mismatch(r) \/ r.cmd = "bCORE_WRITE"
  BY RegularFacts
<1>2. r \in Requests
  BY RegularFacts
<1>3. CASE r.class = "nohandler"
  <2>1. Returned(r) = -1 /\ r.block = 1
    BY <1>1, <1>2, <1>3, ReturnedFacts
  <2>2. Refused(r) /\ ~Mismatch(r)
    BY <1>3 DEF Refused, Mismatch
  <2>3. Announced(r) = 1
    <3>1. PICK n \in Int : n = Returned(r)
      BY <1>2, ReturnedFacts
    <3>2. n + 1 = 0 /\ n < 0
      BY <2>1, <3>1
    <3>3. -n = 1
      BY <3>2
    <3> QED BY <3>1, <3>2, <3>3 DEF Announced
  <2> QED BY <1>1, <2>1, <2>2, <2>3
<1>4. CASE r.class \in {"handled", "custom"}
  <2>1. Returned(r) = r.ret
    BY <1>2, <1>4, ReturnedFacts
  <2>2. Refused(r) <=> r.ret < 0
    BY <1>4 DEF Refused
  <2>3. Mismatch(r) <=> r.ret # 0 /\ r.block # Announced(r)
    BY <1>4, <2>1 DEF Mismatch, ExpectedSize, Announced
  <2>4. r.ret = 0 <=> Announced(r) = 0
    BY <1>1, <2>1 DEF Announced
  <2> QED BY <1>1, <2>1, <2>2, <2>3, <2>4
<1> QED BY <1>1, <1>3, <1>4

-----------------------------------------------------------------------------
(* Where the session is in the requests it has been sent                   *)

Current == sent[Len(served) + 1]
Behind  == Len(served) < Len(sent)
At(k)   == Laid(Stream, sent, Len(served) + 1, k)

AtRest == state = "WAITING_FOR_COMMAND" /\ At(0)

InLine ==
    /\ state = "GETTING_COMMAND"
    /\ Behind /\ Current.class # "none"
    /\ \/ command_data = <<>> /\ At(0)
       \/ command_data = <<Sym("name", Current, 0)>> /\ At(1)

\* The command line of the current request is executed, its block is not complete.
Owed ==
    /\ Behind /\ Current.b
    /\ current_command = Current.cmd
    /\ shallow_binary_block <=> Returned(Current) < 0
    /\ expected_block_size = Announced(Current)

BeforeBlock == state = "EXPECTING_BINARY_DATA" /\ Owed /\ At(2)

InHeader ==
    /\ state = "GETTING_BINARY_DATA"
    /\ Owed
    /\ \E h \in {0, 1} : Len(binary_header) = h /\ At(2 + h)

InBlock ==
    /\ state = "GETTING_BINARY_DATA"
    /\ Owed /\ ~Mismatch(Current)
    /\ Len(binary_header) = 2
    /\ binary_block_defined_size = Current.block
    /\ \E m \in 0 .. Current.block :
          /\ Len(binary_block) = m
          /\ \A j \in 1 .. m : binary_block[j] = Sym("data", Current, j)
          /\ At(4 + m)
          /\ m = Current.block => m = 0

\* Only the last request may have data behind it that nobody has answered yet.
Pacing ==
    /\ Len(served) <= Len(sent)
    /\ \A j \in 1 .. Len(sent) : sent[j] \in Regular
    /\ \A j \in Len(served) + 1 .. Len(sent) - 1 : sent[j].block <= 0

PacingInv ==
    connected /\ paced =>
      Pacing /\ (AtRest \/ InLine \/ BeforeBlock \/ InHeader \/ InBlock)

-----------------------------------------------------------------------------
(* Moving through the requests                                             *)

\* The words of the current request: its line, then its block.
LEMMA Words ==
    ASSUME NEW r \in Regular
    PROVE  /\ Bytes(r) \in Seq(Symbols) /\ Len(Bytes(r)) \in Nat /\ Len(Bytes(r)) > 0
           /\ r.class = "none" => Bytes(r)[1].kind = "zero"
           /\ r.class # "none" => /\ Bytes(r)[1] = Sym("name", r, 0)
                                  /\ Bytes(r)[2] = Sym("newline", r, 0)
                                  /\ Len(Bytes(r)) >= 2
           /\ r.class # "none" /\ ~r.b => Len(Bytes(r)) = 2
           /\ r.b => /\ Len(Bytes(r)) = 4 + r.block
                     /\ Bytes(r)[3] = Sym("zero", r, 0)
                     /\ Bytes(r)[4] = Sym("size", r, r.block)
                     /\ \A j \in 1 .. r.block : Bytes(r)[4 + j] = Sym("data", r, j)
<1>1. /\ r \in Requests /\ r.b \in BOOLEAN
      /\ r.class = "none" => ~r.b
      /\ r.block = NoBlock <=> ~r.b /\ r.class # "none"
      /\ r.block # NoBlock => r.block \in Nat
  BY RegularFacts
<1>2. /\ Bytes(r) \in Seq(Symbols)
      /\ Len(Bytes(r)) = TextLen(r) + BlockLen(r)
      /\ r.class # "none" => /\ Bytes(r)[1] = Sym("name", r, 0)
                             /\ Bytes(r)[2] = Sym("newline", r, 0)
      /\ r.block # NoBlock => /\ Bytes(r)[TextLen(r) + 1] = Sym("zero", r, 0)
                              /\ Bytes(r)[TextLen(r) + 2] = Sym("size", r, r.block)
                              /\ \A j \in 1 .. r.block :
                                    Bytes(r)[TextLen(r) + 2 + j] = Sym("data", r, j)
  BY <1>1, BytesFacts
<1>3. CASE r.class = "none"
  <2>1. TextLen(r) = 0 /\ r.block # NoBlock /\ r.block \in Nat /\ BlockLen(r) = 2 + r.block
    BY <1>1, <1>3 DEF TextLen, BlockLen, HeaderLen
  <2>2. Len(Bytes(r)) = 2 + r.block /\ Bytes(r)[1] = Sym("zero", r, 0)
    BY <1>2, <2>1
  <2>3. Bytes(r)[1].kind = "zero"
    BY <2>2 DEF Sym
  <2> QED BY <1>1, <1>2, <1>3, <2>1, <2>2, <2>3
<1>4. CASE r.class # "none" /\ ~r.b
  <2>1. TextLen(r) = 2 /\ BlockLen(r) = 0
    BY <1>1, <1>4 DEF TextLen, BlockLen
  <2> QED BY <1>2, <1>4, <2>1
<1>5. CASE r.class # "none" /\ r.b
  <2>1. TextLen(r) = 2 /\ r.block # NoBlock /\ r.block \in Nat /\ BlockLen(r) = 2 + r.block
    BY <1>1, <1>5 DEF TextLen, BlockLen, HeaderLen
  <2>2. /\ Len(Bytes(r)) = 4 + r.block
        /\ Bytes(r)[3] = Sym("zero", r, 0) /\ Bytes(r)[4] = Sym("size", r, r.block)
    BY <1>2, <2>1
  <2>3. ASSUME NEW j \in 1 .. r.block PROVE Bytes(r)[4 + j] = Sym("data", r, j)
    <3>1. 2 + 2 + j = 4 + j
      BY <2>1
    <3> QED BY <1>2, <2>1, <3>1
  <2> QED BY <1>2, <1>5, <2>1, <2>2, <2>3
<1> QED BY <1>1, <1>3, <1>4, <1>5

\* What is in the chunk belongs to the current request.
LEMMA Front ==
    ASSUME SlotInv, Pacing, NEW k \in Nat, At(k), chunk # <<>>
    PROVE  /\ Behind /\ Current \in Regular
           /\ Len(served) \in Nat /\ Len(sent) \in Nat
           /\ Len(chunk) \in Nat /\ Len(chunk) > 0 /\ Head(chunk) = chunk[1]
           /\ k <= Len(Bytes(Current))
           /\ \A j \in 1 .. Len(chunk) :
                 j <= Len(Bytes(Current)) - k => chunk[j] = Bytes(Current)[k + j]
           /\ Len(served) + 1 = Len(sent) => Len(chunk) <= Len(Bytes(Current)) - k
           /\ k < Len(Bytes(Current)) => chunk[1] = Bytes(Current)[k + 1]
<1>1. /\ StreamType /\ sent \in Seq(Requests) /\ Len(served) \in Nat /\ Len(sent) \in Nat
      /\ Len(served) <= Len(sent)
  BY DEF SlotInv, ConnType, Pacing
<1>2. PICK a \in Nat, b \in Nat, s \in Seq(Symbols) :
         a = Len(chunk) /\ b = Len(wire) /\ s = Stream
  BY <1>1, StreamFacts
<1>3. a > 0 /\ Head(chunk) = chunk[1] /\ Len(s) = a + b /\ \A j \in 1 .. a : s[j] = chunk[j]
  BY <1>1, <1>2, StreamFacts
<1>4. PICK c : c = Len(served) + 1
  OBVIOUS
<1>5. Laid(s, sent, c, k)
  BY <1>2, <1>4 DEF At
<1>6. c <= Len(sent)
  <2>1. CASE c = Len(sent) + 1
    BY <1>1, <1>2, <1>3, <1>5, <2>1, LaidNone
  <2> QED BY <1>1, <1>4, <2>1
<1>7. c \in 1 .. Len(sent) /\ Behind
  BY <1>1, <1>4, <1>6 DEF Behind
<1>8. PICK w : w = Bytes(sent[c])
  OBVIOUS
<1>9. /\ Len(w) \in Nat /\ k <= Len(w) /\ Len(w) - k <= a + b
      /\ \A j \in 1 .. Len(w) - k : s[j] = w[k + j]
      /\ c = Len(sent) => a + b = Len(w) - k
  BY <1>1, <1>2, <1>3, <1>5, <1>7, <1>8, LaidCurrent
<1>10. Current = sent[c] /\ Current \in Regular
  BY <1>4, <1>7 DEF Current, Pacing
<1>11. \A j \in 1 .. a : j <= Len(w) - k => chunk[j] = w[k + j]
  BY <1>3, <1>9
<1>12. c = Len(sent) => a <= Len(w) - k
  BY <1>9
<1>13. k < Len(w) => chunk[1] = w[k + 1]
  BY <1>3, <1>9, <1>11
<1> QED BY <1>1, <1>2, <1>3, <1>4, <1>7, <1>8, <1>9, <1>10, <1>11, <1>12, <1>13

\* Symbols of the current request are consumed.
LEMMA Took ==
    ASSUME SlotInv, Behind, NEW k \in Nat, At(k),
           NEW d \in 0 .. Len(chunk), Consume(d), k + d <= Len(Bytes(Current)),
           UNCHANGED hist
    PROVE  At(k + d)' /\ Current' = Current /\ Behind'
<1>1. /\ StreamType /\ sent \in Seq(Requests) /\ Len(served) \in Nat /\ Len(sent) \in Nat
      /\ sent' = sent /\ served' = served /\ d \in Nat
  BY StreamFacts DEF SlotInv, ConnType, hist
<1>2. PICK s, t, c, n : s = Stream /\ t = Stream' /\ c = Len(served) + 1 /\ n = Len(Stream)
  OBVIOUS
<1>3. s \in Seq(Symbols) /\ n = Len(s) /\ c \in 1 .. Len(sent)
  BY <1>1, <1>2, StreamFacts DEF Behind
<1>4. Len(t) = n - d /\ \A j \in 1 .. n - d : t[j] = s[j + d]
  BY <1>1, <1>2, ConsumeStream
<1>5. Laid(s, sent, c, k) /\ k + d <= Len(Bytes(sent[c]))
  BY <1>2 DEF At, Current
<1>6. Laid(t, sent, c, k + d)
  BY <1>1, <1>3, <1>4, <1>5, LaidTaken
<1>7. At(k + d)'
  BY <1>1, <1>2, <1>6 DEF At
<1> QED BY <1>1, <1>7 DEF Current, Behind

\* ... the last of them, and the request is served.
LEMMA Finished ==
    ASSUME SlotInv, Behind, NEW k \in Nat, At(k),
           NEW d \in 0 .. Len(chunk), Consume(d), k + d = Len(Bytes(Current)),
           NEW o, Serves(o)
    PROVE  At(0)'
<1>1. /\ StreamType /\ sent \in Seq(Requests) /\ Len(served) \in Nat /\ Len(sent) \in Nat
      /\ sent' = sent /\ Len(served') = Len(served) + 1 /\ d \in Nat
  BY StreamFacts DEF SlotInv, ConnType, Serves
<1>2. PICK s, t, c, n : s = Stream /\ t = Stream' /\ c = Len(served) + 1 /\ n = Len(Stream)
  OBVIOUS
<1>3. s \in Seq(Symbols) /\ n = Len(s) /\ c \in 1 .. Len(sent)
  BY <1>1, <1>2, StreamFacts DEF Behind
<1>4. Len(t) = n - d /\ \A j \in 1 .. n - d : t[j] = s[j + d]
  BY <1>1, <1>2, ConsumeStream
<1>5. /\ Laid(s, sent, c, k) /\ k + d = Len(Bytes(sent[c])) /\ k + d \in Nat
      /\ k + d <= Len(Bytes(sent[c]))
  <2>1. Laid(s, sent, c, k) /\ k + d = Len(Bytes(sent[c])) /\ k + d \in Nat
    BY <1>1, <1>2 DEF At, Current
  <2> QED BY <2>1
<1>6. Laid(t, sent, c, k + d)
  BY <1>1, <1>3, <1>4, <1>5, LaidTaken
<1>7. t \in Seq(Symbols)
  <2>1. StreamType'
    BY <1>1, ConsumeStream
  <2> QED BY <1>2, <2>1, ConcatProperties DEF StreamType, Stream
<1>8. Laid(t, sent, c + 1, 0)
  BY <1>1, <1>3, <1>5, <1>6, <1>7, LaidNext
<1> QED BY <1>1, <1>2, <1>8 DEF At

\* Serving a request leaves fewer that wait.
LEMMA PacingServed ==
    ASSUME SlotInv, Pacing, Behind, NEW o, Serves(o)
    PROVE  Pacing'
<1>1. /\ Len(served) \in Nat /\ Len(sent) \in Nat
      /\ sent' = sent /\ Len(served') = Len(served) + 1
  BY DEF SlotInv, ConnType, Serves
<1> QED BY <1>1 DEF Pacing, Behind

-----------------------------------------------------------------------------
(* The branches of preprocess_data                                         *)

\* A step that serves the next request as it deserves.
ServesNext == Behind /\ Serves(Disposition(Current))

\* What a branch of preprocess_data does for a client that paces itself: it leaves the
\* histories alone, or serves the next request and, if that breaks the protocol, drops
\* the client.
Proceeds ==
    /\ UNCHANGED paced
    /\ \/ UNCHANGED <<connected, hist>>
       \/ ServesNext /\ connected' = (Disposition(Current).what # "protocol_error")

\* A protocol error serves the request that broke the protocol and drops the client.
LEMMA Refuses ==
    ASSUME ProtocolError, Behind, Disposition(Current) = Outcome("protocol_error", <<>>)
    PROVE  PacingInv' /\ Proceeds
<1>1. connected' = FALSE /\ paced' = paced
  BY DEF ProtocolError, remove_client
<1>2. Disposition(Current).what = "protocol_error"
  BY DEF Outcome
<1>3. ServesNext
  BY DEF ProtocolError, ServesNext
<1> QED BY <1>1, <1>2, <1>3 DEF PacingInv, Proceeds

\* Before a line: it starts, or the stray block breaks the protocol.
LEMMA AtRestSteps ==
    ASSUME SlotInv, PacingInv, connected, paced, StartCommand \/ NotACommand
    PROVE  PacingInv' /\ Proceeds
<1>1. state = "WAITING_FOR_COMMAND" /\ chunk # <<>>
  BY DEF StartCommand, NotACommand, In
<1>2. Pacing /\ AtRest /\ At(0) /\ command_data = <<>>
  BY <1>1 DEF PacingInv, AtRest, InLine, BeforeBlock, InHeader, InBlock, SlotInv, LineBegun
<1>3. PICK r \in Regular : r = Current
  BY <1>1, <1>2, Front
<1>4. Behind /\ Head(chunk) = chunk[1] /\ chunk[1] = Bytes(r)[1]
  <2>1. Len(Bytes(r)) > 0 /\ 0 + 1 = 1
    BY Words
  <2> QED BY <1>1, <1>2, <1>3, <2>1, Front
<1>5. r.class = "none" <=> Head(chunk).kind # "name"
  <2>1. Sym("name", r, 0).kind = "name"
    BY DEF Sym
  <2> QED BY <1>4, <2>1, Words
<1>6. CASE StartCommand
  <2>1. /\ state' = "GETTING_COMMAND" /\ r.class # "none"
        /\ UNCHANGED <<command_data, connected, paced, wire, chunk, sent, served>>
    BY <1>5, <1>6 DEF StartCommand, lineVars, connVars, hist
  <2>2. At(0)' /\ Pacing' /\ Behind' /\ Current' = Current
    BY <1>2, <1>4, <2>1 DEF At, Stream, Pacing, Behind, Current
  <2>3. InLine'
    BY <1>2, <1>3, <2>1, <2>2 DEF InLine
  <2> QED BY <2>1, <2>2, <2>3 DEF PacingInv, Proceeds, hist
<1>7. CASE NotACommand
  <2>1. r.class = "none" /\ ProtocolError
    BY <1>5, <1>7 DEF NotACommand
  <2>2. Disposition(r) = Outcome("protocol_error", <<>>)
    BY <2>1, DispositionIs
  <2> QED BY <1>3, <1>4, <2>1, <2>2, Refuses
<1> QED BY <1>6, <1>7

\* A line that is executed is the one of the current request.
LEMMA CommandFacts ==
    ASSUME SlotInv, PacingInv, connected, paced, NEW q \in Requests, Command(q)
    PROVE  /\ Pacing /\ Behind /\ Current \in Regular
           /\ q = Current /\ q.class # "none"
           /\ \E k \in Nat, d \in 0 .. Len(chunk) : At(k) /\ Consume(d) /\ k + d = 2
<1>1. /\ state = "GETTING_COMMAND" /\ chunk # <<>> /\ Newlines # {}
      /\ q = Head(command_data \o LineRead).of /\ Consume(Len(LineRead))
  BY DEF Command, In
<1>2. Pacing /\ InLine /\ Behind /\ Current.class # "none"
  BY <1>1 DEF PacingInv, AtRest, InLine, BeforeBlock, InHeader, InBlock
<1>3. \E k \in {0, 1} : At(k)
  BY <1>2 DEF InLine
<1>4. PICK r \in Regular : r = Current
  BY <1>1, <1>2, <1>3, Front
<1>5. PICK n \in 1 .. Len(chunk) :
         /\ LineRead \in Seq(Symbols) /\ Len(LineRead) = n
         /\ \A j \in 1 .. n : LineRead[j] = chunk[j]
         /\ \A j \in 1 .. n - 1 : chunk[j].kind # "newline"
         /\ chunk[n].kind = "newline"
  BY <1>1, LineFacts DEF SlotInv
<1>6. PICK u : u = LineRead
  OBVIOUS
<1>7. /\ Len(chunk) \in Nat /\ n \in Nat /\ n >= 1 /\ n \in 0 .. Len(chunk)
      /\ u \in Seq(Symbols) /\ Len(u) = n /\ u[1] = chunk[1]
      /\ u # <<>>
  <2>1. Len(chunk) \in Nat
    BY StreamFacts DEF SlotInv
  <2>2. n \in Nat /\ n >= 1 /\ n \in 0 .. Len(chunk) /\ 1 \in 1 .. n
    BY <1>5, <2>1
  <2>3. u \in Seq(Symbols) /\ Len(u) = n /\ u[1] = chunk[1]
    BY <1>5, <1>6, <2>2
  <2>4. u # <<>>
    BY <2>2, <2>3, EmptySeq
  <2> QED BY <2>1, <2>2, <2>3, <2>4
<1>8. /\ Bytes(r)[1] = Sym("name", r, 0) /\ Bytes(r)[2] = Sym("newline", r, 0)
      /\ Len(Bytes(r)) \in Nat /\ Len(Bytes(r)) >= 2
  BY <1>2, <1>4, Words
<1>9. /\ Sym("name", r, 0).kind = "name" /\ Sym("newline", r, 0).kind = "newline"
      /\ Sym("name", r, 0).of = r
  BY DEF Sym
<1>10. CASE command_data = <<>> /\ At(0)
  <2>1. \A j \in 1 .. Len(chunk) : j <= 2 => chunk[j] = Bytes(r)[j]
    <3>1. \A j \in 1 .. Len(chunk) : j <= Len(Bytes(r)) - 0 => chunk[j] = Bytes(r)[0 + j]
      BY <1>1, <1>2, <1>4, <1>10, Front
    <3>2. \A j \in 1 .. Len(chunk) : j <= 2 => j <= Len(Bytes(r)) - 0 /\ 0 + j = j
      BY <1>8
    <3> QED BY <3>1, <3>2
  <2>2. chunk[1] = Bytes(r)[1]
    BY <1>7, <2>1
  <2>3. n # 1
    BY <1>5, <1>8, <1>9, <2>2
  <2>4. ~(2 \in 1 .. n - 1)
    <3>1. 2 \in 1 .. n - 1 => 2 \in 1 .. Len(chunk)
      BY <1>7
    <3> QED BY <1>5, <1>8, <1>9, <2>1, <3>1
  <2>5. n = 2
    BY <1>7, <2>3, <2>4
  <2>6. command_data \o LineRead = u
    BY <1>6, <1>7, <1>10, ConcatEmptySeq
  <2>7. Head(u) = u[1]
    BY <1>7
  <2>8. q = r
    BY <1>1, <1>7, <1>8, <1>9, <2>2, <2>6, <2>7
  <2>9. At(0) /\ Consume(n) /\ 0 + n = 2
    BY <1>1, <1>5, <1>10, <2>5
  <2> QED BY <1>2, <1>4, <1>7, <2>8, <2>9
<1>11. CASE command_data = <<Sym("name", r, 0)>> /\ At(1)
  <2>1. chunk[1] = Bytes(r)[2]
    <3>1. 1 < Len(Bytes(r)) => chunk[1] = Bytes(r)[1 + 1]
      BY <1>1, <1>2, <1>4, <1>11, Front
    <3> QED BY <1>8, <3>1
  <2>2. ~(1 \in 1 .. n - 1)
    BY <1>5, <1>8, <1>9, <2>1
  <2>3. n = 1
    BY <1>7, <2>2
  <2>4. Head(command_data \o LineRead) = Sym("name", r, 0)
    <3>1. PICK v : v = <<Sym("name", r, 0)>>
      OBVIOUS
    <3>2. Sym("name", r, 0) \in Symbols
      BY <1>4, RegularFacts DEF Sym, Symbols
    <3>3. v \in Seq(Symbols) /\ Len(v) = 1 /\ v[1] = Sym("name", r, 0)
      BY <3>1, <3>2
    <3>4. PICK w : w = v \o u
      OBVIOUS
    <3>5. /\ w \in Seq(Symbols) /\ Len(w) = Len(v) + Len(u)
          /\ \A j \in 1 .. Len(v) + Len(u) :
                 w[j] = IF j <= Len(v) THEN v[j] ELSE u[j - Len(v)]
      BY <1>7, <3>3, <3>4, ConcatProperties
    <3>6. Len(w) = 2 /\ w[1] = v[1]
      BY <1>7, <2>3, <3>3, <3>5
    <3>7. w # <<>>
      BY <3>5, <3>6, EmptySeq
    <3>8. Head(w) = w[1]
      BY <3>5, <3>7
    <3> QED BY <1>6, <1>11, <3>1, <3>3, <3>4, <3>6, <3>8
  <2>5. q = r
    BY <1>1, <1>9, <2>4
  <2>6. At(1) /\ Consume(n) /\ 1 + n = 2
    BY <1>1, <1>5, <1>11, <2>3
  <2> QED BY <1>2, <1>4, <1>7, <2>5, <2>6
<1> QED BY <1>2, <1>4, <1>10, <1>11 DEF InLine

\* In a line: its name alone is kept, or the whole of it is executed.
LEMMA InLineSteps ==
    ASSUME SlotInv, PacingInv, connected, paced, CommandPart \/ PlainCommand \/ BlockCommand
    PROVE  PacingInv' /\ Proceeds
<1>1. CASE CommandPart
  <2>1. /\ command_data = <<>> /\ Len(chunk) = 1 /\ command_data' = <<chunk[1]>>
        /\ Consume(1) /\ 1 \in 0 .. Len(chunk) /\ chunk # <<>>
    <3>1. /\ command_data = <<>> /\ Len(chunk) = 1 /\ command_data' = <<chunk[1]>>
          /\ Consume(1)
      BY <1>1, CommandPartFacts
    <3>2. chunk # <<>>
      BY <1>1 DEF CommandPart, In
    <3> QED BY <3>1, <3>2
  <2>2. /\ state = "GETTING_COMMAND" /\ state' = state
        /\ UNCHANGED <<connected, paced, hist>>
    BY <1>1 DEF CommandPart, In, Consume, connVars
  <2>3. Pacing /\ InLine /\ Current.class # "none"
    BY <2>2 DEF PacingInv, AtRest, InLine, BeforeBlock, InHeader, InBlock
  <2>4. At(0)
    <3>1. \A x : <<x>> # <<>>
      OBVIOUS
    <3> QED BY <2>1, <2>3, <3>1 DEF InLine
  <2>5. PICK r \in Regular : r = Current
    BY <2>1, <2>3, <2>4, Front
  <2>6. Bytes(r)[1] = Sym("name", r, 0) /\ Len(Bytes(r)) >= 2 /\ Len(Bytes(r)) \in Nat
    BY <2>3, <2>5, Words
  <2>7. Behind /\ chunk[1] = Bytes(r)[1]
    <3>1. 0 < Len(Bytes(r)) /\ 0 + 1 = 1
      BY <2>6
    <3> QED BY <2>1, <2>3, <2>4, <2>5, <3>1, Front
  <2>8. At(1)' /\ Current' = Current /\ Behind'
    <3>1. 0 + 1 = 1 /\ 1 <= Len(Bytes(r))
      BY <2>6
    <3> QED BY <2>1, <2>2, <2>4, <2>5, <2>7, <3>1, Took
  <2>9. Pacing'
    BY <2>2, <2>3 DEF Pacing, hist
  <2>10. command_data' = <<Sym("name", Current', 0)>>
    BY <2>1, <2>5, <2>6, <2>7, <2>8
  <2>11. InLine'
    BY <2>2, <2>3, <2>8, <2>10 DEF InLine
  <2> QED BY <2>2, <2>9, <2>11 DEF PacingInv, Proceeds
<1>2. CASE PlainCommand
  <2>1. PICK r \in Requests :
           /\ Command(r) /\ ~r.b
           /\ Serves(Outcome(IF r.class \in {"unknown", "nohandler"} THEN "invalid_command"
                                                                      ELSE "executed", <<>>))
    BY <1>2 DEF PlainCommand
  <2>2. /\ Pacing /\ Behind /\ r \in Regular /\ r = Current /\ r.class # "none"
    BY <2>1, CommandFacts
  <2>3. PICK k \in Nat, d \in 0 .. Len(chunk) : At(k) /\ Consume(d) /\ k + d = 2
    BY <2>1, CommandFacts
  <2>4. Len(Bytes(r)) = 2
    BY <2>1, <2>2, Words
  <2>5. At(0)'
    BY <2>1, <2>2, <2>3, <2>4, Finished
  <2>6. Disposition(r) = Outcome(IF r.class \in {"unknown", "nohandler"} THEN "invalid_command"
                                                                         ELSE "executed", <<>>)
    BY <2>1, <2>2, DispositionIs
  <2>7. Disposition(r).what # "protocol_error"
    BY <2>6 DEF Outcome
  <2>8. ServesNext /\ Pacing'
    BY <2>1, <2>2, <2>6, PacingServed DEF ServesNext
  <2>9. state' = "WAITING_FOR_COMMAND" /\ UNCHANGED <<connected, paced>>
    BY <1>2, <2>1 DEF PlainCommand, Command, Consume, connVars
  <2>10. AtRest'
    BY <2>5, <2>9 DEF AtRest
  <2> QED BY <2>2, <2>7, <2>8, <2>9, <2>10 DEF PacingInv, Proceeds
<1>3. CASE BlockCommand
  <2>1. PICK r \in Requests :
           /\ Command(r) /\ r.b
           /\ shallow_binary_block' = (shallow_binary_block \/ Returned(r) < 0)
           /\ expected_block_size' = Announced(r)
    BY <1>3 DEF BlockCommand, Announced
  <2>2. /\ Pacing /\ Behind /\ r \in Regular /\ r = Current /\ r.class # "none"
    BY <2>1, CommandFacts
  <2>3. PICK k \in Nat, d \in 0 .. Len(chunk) : At(k) /\ Consume(d) /\ k + d = 2
    BY <2>1, CommandFacts
  <2>4. /\ state = "GETTING_COMMAND" /\ state' = "EXPECTING_BINARY_DATA"
        /\ UNCHANGED <<connected, paced, hist>>
        /\ current_command' = r.cmd
    <3>1. r.class # "unknown"
      BY <2>1, <2>2, RegularFacts
    <3> QED BY <1>3, <2>1, <3>1 DEF BlockCommand, Command, execute_command, Consume, connVars, In
  <2>5. shallow_binary_block' <=> Returned(r) < 0
    BY <2>1, <2>4 DEF SlotInv, ShallowOnlyForRejected
  <2>6. At(2)' /\ Current' = Current /\ Behind'
    <3>1. 2 <= Len(Bytes(r))
      BY <2>2, Words
    <3> QED BY <2>2, <2>3, <2>4, <3>1, Took
  <2>7. Owed'
    BY <2>1, <2>2, <2>4, <2>5, <2>6 DEF Owed
  <2>8. Pacing'
    BY <2>2, <2>4 DEF Pacing, hist
  <2>9. BeforeBlock'
    BY <2>4, <2>6, <2>7 DEF BeforeBlock
  <2> QED BY <2>4, <2>8, <2>9 DEF PacingInv, Proceeds
<1> QED BY <1>1, <1>2, <1>3

\* Behind the line of a command with a block: the block is there.
LEMMA BeforeBlockSteps ==
    ASSUME SlotInv, PacingInv, connected, paced, ExpectBlock \/ NoBlockFollows
    PROVE  PacingInv' /\ Proceeds
<1>1. state = "EXPECTING_BINARY_DATA" /\ chunk # <<>>
  BY DEF ExpectBlock, NoBlockFollows, In
<1>2. Pacing /\ Owed /\ At(2)
  BY <1>1 DEF PacingInv, AtRest, InLine, BeforeBlock, InHeader, InBlock
<1>3. PICK r \in Regular : r = Current
  BY <1>1, <1>2, Front
<1>4. Head(chunk).kind = "zero"
  <2>1. /\ Bytes(r)[3] = Sym("zero", r, 0) /\ Len(Bytes(r)) = 4 + r.block
        /\ r.block \in Nat
    BY <1>2, <1>3, Words, RegularFacts DEF Owed
  <2>2. 2 < Len(Bytes(r)) /\ 2 + 1 = 3
    BY <2>1
  <2>3. Head(chunk) = Sym("zero", r, 0)
    BY <1>1, <1>2, <1>3, <2>1, <2>2, Front
  <2> QED BY <2>3 DEF Sym
<1>5. ExpectBlock
  BY <1>4 DEF NoBlockFollows
<1>6. /\ state' = "GETTING_BINARY_DATA" /\ Len(binary_header') = 0
      /\ UNCHANGED <<connected, paced, sent, served, wire, chunk, current_command,
                     shallow_binary_block, expected_block_size>>
  BY <1>5, EmptySeq DEF ExpectBlock, lineVars, connVars, hist
<1>7. At(2 + 0)' /\ Owed' /\ Pacing'
  <2>1. 2 + 0 = 2
    OBVIOUS
  <2> QED BY <1>2, <1>6, <2>1 DEF At, Stream, Owed, Behind, Current, Pacing
<1>8. InHeader'
  BY <1>6, <1>7 DEF InHeader
<1> QED BY <1>6, <1>7, <1>8 DEF PacingInv, Proceeds, hist

\* The header that is complete is the one of the current request.
LEMMA HeaderOfCurrent ==
    ASSUME SlotInv, PacingInv, connected, paced, HeaderGuard
    PROVE  /\ Pacing /\ Owed /\ Current \in Regular /\ Current.block \in Nat
           /\ Len(Bytes(Current)) = 4 + Current.block
           /\ \E h \in {0, 1}, d \in 1 .. Len(chunk) :
                 /\ Len(HeaderRead) = d /\ Len(HeaderSoFar) = h + d
                 /\ At(2 + h) /\ h + d <= 2
                 /\ h + d = 2 => HeaderSoFar[2].n = Current.block
<1>1. state = "GETTING_BINARY_DATA" /\ chunk # <<>> /\ Len(binary_header) < 2
  BY DEF HeaderGuard, In, HeaderLen
<1>2. Pacing /\ InHeader /\ Owed
  <2>1. ~InBlock
    BY <1>1, SMTT(30) DEF InBlock
  <2> QED BY <1>1, <2>1 DEF PacingInv, AtRest, InLine, BeforeBlock, InHeader
<1>3. PICK h \in {0, 1} : Len(binary_header) = h /\ At(2 + h)
  BY <1>2 DEF InHeader
<1>4. 2 + h \in Nat
  OBVIOUS
<1>5. PICK r \in Regular : r = Current
  BY <1>1, <1>2, <1>3, <1>4, Front
<1>6. /\ r.b /\ r.block \in Nat /\ Len(Bytes(r)) = 4 + r.block
      /\ Bytes(r)[4] = Sym("size", r, r.block)
  BY <1>2, <1>5, RegularFacts, Words DEF Owed
<1>7. PICK d \in 1 .. Len(chunk) :
         /\ Len(HeaderRead) = d /\ Len(HeaderSoFar) = h + d
         /\ h + d <= 2
         /\ \A j \in 1 .. d : HeaderSoFar[h + j] = chunk[j]
  <2>1. PICK d \in 1 .. Len(chunk) :
           /\ Len(HeaderRead) = d /\ Len(HeaderSoFar) = Len(binary_header) + d
           /\ Len(HeaderSoFar) \in 1 .. HeaderLen
           /\ \A j \in 1 .. d : HeaderSoFar[Len(binary_header) + j] = chunk[j]
    BY HeaderFacts DEF SlotInv
  <2>2. Len(HeaderSoFar) = h + d /\ \A j \in 1 .. d : HeaderSoFar[h + j] = chunk[j]
    BY <1>3, <2>1
  <2>3. h + d <= 2
    BY <2>1, <2>2 DEF HeaderLen
  <2> QED BY <2>1, <2>2, <2>3
<1>8. ASSUME h + d = 2 PROVE HeaderSoFar[2].n = r.block
  <2>1. /\ d \in 1 .. d /\ d \in 1 .. Len(chunk) /\ d <= Len(Bytes(r)) - (2 + h)
        /\ (2 + h) + d = 4
    BY <1>6, <1>8
  <2>2. chunk[d] = Bytes(r)[(2 + h) + d]
    BY <1>1, <1>2, <1>3, <1>4, <1>5, <2>1, Front
  <2>3. HeaderSoFar[2] = Sym("size", r, r.block)
    BY <1>6, <1>7, <1>8, <2>1, <2>2
  <2> QED BY <2>3 DEF Sym
<1> QED BY <1>2, <1>3, <1>5, <1>6, <1>7, <1>8

\* In the header of a block: it is kept, accepted or refused.
LEMMA InHeaderSteps ==
    ASSUME SlotInv, PacingInv, connected, paced, HeaderPart \/ HeaderDone \/ HeaderRefused
    PROVE  PacingInv' /\ Proceeds
<1>1. HeaderGuard /\ chunk # <<>> /\ state = "GETTING_BINARY_DATA"
  BY DEF HeaderPart, HeaderDone, HeaderRefused, HeaderComplete, HeaderGuard, In
<1>2. PICK r \in Regular : r = Current
  BY <1>1, HeaderOfCurrent
<1>3. /\ Pacing /\ Owed /\ Behind /\ r.b
      /\ r.block \in Nat /\ Len(Bytes(r)) = 4 + r.block
      /\ expected_block_size = Announced(r)
  BY <1>1, <1>2, HeaderOfCurrent DEF Owed
<1>4. PICK h \in {0, 1}, d \in 1 .. Len(chunk) :
         /\ Len(HeaderRead) = d /\ Len(HeaderSoFar) = h + d
         /\ At(2 + h) /\ h + d <= 2
         /\ h + d = 2 => HeaderSoFar[2].n = r.block
  BY <1>1, <1>2, HeaderOfCurrent
<1>5. d \in 0 .. Len(chunk) /\ 2 + h \in Nat /\ (2 + h) + d <= Len(Bytes(r))
  <2>1. Len(chunk) \in Nat
    BY StreamFacts DEF SlotInv
  <2> QED BY <1>3, <1>4, <2>1
<1>6. ASSUME Consume(d), UNCHANGED <<hist, current_command, shallow_binary_block,
                                     expected_block_size>>
      PROVE  At((2 + h) + d)' /\ Current' = Current /\ Pacing' /\ Owed'
  <2>1. At((2 + h) + d)' /\ Current' = Current /\ Behind'
    BY <1>2, <1>3, <1>4, <1>5, <1>6, Took
  <2> QED BY <1>3, <1>6, <2>1 DEF Owed, Pacing, hist
<1>7. CASE HeaderPart
  <2>1. /\ state' = "GETTING_BINARY_DATA" /\ Consume(d) /\ binary_header' = HeaderSoFar
        /\ Len(HeaderSoFar) < 2
        /\ UNCHANGED <<hist, current_command, shallow_binary_block, expected_block_size,
                       connected, paced>>
    BY <1>1, <1>4, <1>7 DEF HeaderPart, HeaderLen, Consume, connVars, lineVars
  <2>2. At((2 + h) + d)' /\ Pacing' /\ Owed'
    BY <1>6, <2>1
  <2>3. h + d = 1 /\ (2 + h) + d = 2 + 1
    BY <1>4, <2>1
  <2>4. InHeader'
    BY <1>4, <2>1, <2>2, <2>3 DEF InHeader
  <2> QED BY <2>1, <2>2, <2>4 DEF PacingInv, Proceeds
<1>8. ASSUME HeaderComplete
      PROVE  /\ h + d = 2 /\ Len(binary_header') = 2
             /\ binary_block_defined_size' = r.block
             /\ UNCHANGED <<state, current_command, expected_block_size, shallow_binary_block>>
             /\ SizeAccepted(HeaderSoFar[HeaderLen].n) <=> ~Mismatch(r)
  <2>1. h + d = 2 /\ Len(binary_header') = 2
    BY <1>4, <1>8 DEF HeaderComplete, HeaderLen
  <2>2. HeaderSoFar[HeaderLen].n = r.block
    BY <1>4, <2>1 DEF HeaderLen
  <2>3. Announced(r) = 0 \/ r.block = Announced(r) <=> ~Mismatch(r)
    BY <1>3, ReturnedTells
  <2> QED BY <1>3, <1>8, <2>1, <2>2, <2>3 DEF HeaderComplete, SizeAccepted, lineVars
<1>9. CASE HeaderDone
  <2>1. /\ HeaderComplete /\ SizeAccepted(HeaderSoFar[HeaderLen].n)
        /\ Consume(d) /\ binary_block' = <<>>
        /\ UNCHANGED <<hist, connected, paced>>
    BY <1>4, <1>9 DEF HeaderDone, Consume, connVars
  <2>2. At((2 + h) + d)' /\ Current' = Current /\ Pacing' /\ Owed'
    BY <1>6, <1>8, <2>1
  <2>3. (2 + h) + d = 4 + 0
    BY <1>8, <2>1
  <2>4. 0 \in 0 .. r.block /\ 1 .. 0 = {} /\ Len(binary_block') = 0
    BY <1>3, <2>1, EmptySeq
  <2>5. InBlock'
    BY <1>1, <1>2, <1>8, <2>1, <2>2, <2>3, <2>4 DEF InBlock
  <2> QED BY <2>1, <2>2, <2>5 DEF PacingInv, Proceeds
<1>10. CASE HeaderRefused
  <2>1. HeaderComplete /\ ~SizeAccepted(HeaderSoFar[HeaderLen].n) /\ ProtocolError
    BY <1>10 DEF HeaderRefused
  <2>2. Mismatch(r)
    BY <1>8, <2>1
  <2>3. Disposition(r) = Outcome("protocol_error", <<>>)
    BY <1>3, <2>2, DispositionIs
  <2> QED BY <1>2, <1>3, <2>1, <2>3, Refuses
<1> QED BY <1>7, <1>9, <1>10

\* What is in the buffer after a copy is the beginning of the block.
LEMMA BlockOfCurrent ==
    ASSUME SlotInv, PacingInv, connected, paced, DataGuard
    PROVE  /\ Pacing /\ Owed /\ ~Mismatch(Current) /\ Current \in Regular
           /\ Current.block \in Nat /\ binary_block_defined_size = Current.block
           /\ Len(binary_header) = 2
           /\ Len(Bytes(Current)) = 4 + Current.block
           /\ \E m \in Nat, d \in 0 .. Len(chunk) :
                 /\ CopySize = d /\ At(4 + m) /\ m + d <= Current.block
                 /\ Filled \in Seq(Symbols) /\ Len(Filled) = m + d
                 /\ \A j \in 1 .. m + d : Filled[j] = Sym("data", Current, j)
<1>1. state = "GETTING_BINARY_DATA" /\ chunk # <<>> /\ Len(binary_header) = 2
  BY DEF DataGuard, In, HeaderLen
<1>2. Pacing /\ InBlock /\ Owed
  <2>1. ~InHeader
    BY <1>1 DEF InHeader
  <2> QED BY <1>1, <2>1 DEF PacingInv, AtRest, InLine, BeforeBlock, InBlock
<1>3. PICK m \in 0 .. Current.block :
         /\ Len(binary_block) = m
         /\ \A j \in 1 .. m : binary_block[j] = Sym("data", Current, j)
         /\ At(4 + m)
         /\ m = Current.block => m = 0
  BY <1>2 DEF InBlock
<1>4. m \in Nat /\ 4 + m \in Nat
  OBVIOUS
<1>5. PICK r \in Regular : r = Current
  BY <1>1, <1>2, <1>3, <1>4, Front
<1>6. /\ r.b /\ r.block \in Nat /\ Len(Bytes(r)) = 4 + r.block
      /\ \A j \in 1 .. r.block : Bytes(r)[4 + j] = Sym("data", r, j)
  BY <1>2, <1>5, RegularFacts, Words DEF Owed
<1>7. /\ Len(chunk) \in Nat /\ Len(served) \in Nat /\ Len(sent) \in Nat
      /\ \A j \in 1 .. Len(chunk) : j <= Len(Bytes(r)) - (4 + m) => chunk[j] = Bytes(r)[(4 + m) + j]
      /\ Len(served) + 1 = Len(sent) => Len(chunk) <= Len(Bytes(r)) - (4 + m)
      /\ Behind
  BY <1>1, <1>2, <1>3, <1>4, <1>5, Front
<1>8. PICK d \in 0 .. Len(chunk) :
         /\ d = CopySize
         /\ d = IF Len(chunk) <= binary_block_defined_size THEN Len(chunk)
                                                          ELSE binary_block_defined_size
         /\ Filled \in Seq(Symbols) /\ Len(Filled) = Len(binary_block) + d
         /\ \A j \in 1 .. Len(binary_block) : Filled[j] = binary_block[j]
         /\ \A j \in 1 .. d : Filled[Len(binary_block) + j] = chunk[j]
  BY <1>1, CopyFacts DEF SlotInv
<1>9. binary_block_defined_size = r.block
  BY <1>2, <1>5 DEF InBlock
<1>10. m + d <= r.block
  <2>1. CASE r.block = 0
    BY <1>3, <1>5, <1>7, <1>8, <1>9, <2>1
  <2>2. CASE r.block > 0
    <3>1. Len(served) + 1 = Len(sent)
      <4>1. Current = sent[Len(served) + 1] /\ ~(r.block <= 0)
        BY <1>6, <2>2 DEF Current
      <4>2. ~(Len(served) + 1 \in Len(served) + 1 .. Len(sent) - 1)
        BY <1>2, <1>5, <4>1 DEF Pacing
      <4> QED BY <1>7, <4>2 DEF Behind
    <3>2. Len(chunk) <= r.block - m
      BY <1>6, <1>7, <3>1
    <3> QED BY <1>6, <1>7, <3>2
  <2> QED BY <1>6, <2>1, <2>2
<1>11. ASSUME NEW j \in 1 .. m + d PROVE Filled[j] = Sym("data", r, j)
  <2>1. CASE j <= m
    <3>1. j \in 1 .. m
      BY <2>1
    <3> QED BY <1>3, <1>5, <1>8, <3>1
  <2>2. CASE ~(j <= m)
    <3>1. PICK i \in 1 .. d : m + i = j
      <4>1. j - m \in 1 .. d /\ m + (j - m) = j
        BY <1>7, <2>2
      <4> QED BY <4>1
    <3>2. /\ i \in 1 .. Len(chunk) /\ i <= Len(Bytes(r)) - (4 + m)
          /\ (4 + m) + i = 4 + j /\ j \in 1 .. r.block
      <4>1. PICK n \in Nat, b \in Nat : n = Len(chunk) /\ b = r.block
        BY <1>6, <1>7
      <4>2. d \in 0 .. n /\ m + d <= b /\ Len(Bytes(r)) = 4 + b /\ j \in 1 .. m + d
        BY <1>6, <1>10, <4>1
      <4>3. /\ i \in 1 .. n /\ i <= (4 + b) - (4 + m)
            /\ (4 + m) + i = 4 + j /\ j \in 1 .. b
        BY <3>1, <4>2
      <4> QED BY <4>1, <4>2, <4>3
    <3>3. Filled[j] = chunk[i]
      BY <1>3, <1>8, <3>1
    <3>4. chunk[i] = Bytes(r)[4 + j]
      BY <1>7, <3>2
    <3> QED BY <1>6, <3>2, <3>3, <3>4
  <2> QED BY <2>1, <2>2
<1>12. Len(Filled) = m + d
  BY <1>3, <1>8
<1>13. /\ CopySize = d /\ At(4 + m) /\ m + d <= Current.block
       /\ Filled \in Seq(Symbols) /\ Len(Filled) = m + d
       /\ \A j \in 1 .. m + d : Filled[j] = Sym("data", Current, j)
  BY <1>3, <1>5, <1>8, <1>10, <1>11, <1>12
<1>14. /\ Pacing /\ Owed /\ ~Mismatch(Current) /\ Current \in Regular
       /\ Current.block \in Nat /\ binary_block_defined_size = Current.block
       /\ Len(binary_header) = 2
       /\ Len(Bytes(Current)) = 4 + Current.block
  BY <1>1, <1>2, <1>5, <1>6, <1>9 DEF InBlock
<1> QED BY <1>4, <1>13, <1>14

\* In the data of a block: they are kept, written or swallowed.
LEMMA InBlockSteps ==
    ASSUME SlotInv, PacingInv, connected, paced, BlockPart \/ BlockDone \/ BlockSwallowed
    PROVE  PacingInv' /\ Proceeds
<1>1. DataGuard /\ state = "GETTING_BINARY_DATA"
  BY DEF BlockPart, BlockDone, BlockSwallowed, DataGuard, In
<1>2. PICK r \in Regular : r = Current
  BY <1>1, BlockOfCurrent
<1>3. /\ Pacing /\ Owed /\ Behind /\ r.b /\ ~Mismatch(r)
      /\ r.block \in Nat /\ binary_block_defined_size = r.block
      /\ Len(binary_header) = 2
      /\ Len(Bytes(r)) = 4 + r.block
      /\ shallow_binary_block <=> Returned(r) < 0
      /\ current_command = r.cmd
  BY <1>1, <1>2, BlockOfCurrent DEF Owed
<1>4. PICK m \in Nat, d \in 0 .. Len(chunk) :
         /\ CopySize = d /\ At(4 + m) /\ m + d <= r.block
         /\ Filled \in Seq(Symbols) /\ Len(Filled) = m + d
         /\ \A j \in 1 .. m + d : Filled[j] = Sym("data", r, j)
  BY <1>1, <1>2, BlockOfCurrent
<1>5. 4 + m \in Nat /\ d \in Nat /\ (4 + m) + d = 4 + (m + d) /\ (4 + m) + d <= Len(Bytes(r))
  <2>1. Len(chunk) \in Nat
    BY StreamFacts DEF SlotInv
  <2> QED BY <1>3, <1>4, <2>1
<1>6. Returned(r) < 0 <=> Refused(r)
  BY <1>3, ReturnedTells
<1>7. CASE BlockPart
  <2>1. /\ state' = "GETTING_BINARY_DATA" /\ Consume(d) /\ binary_block' = Filled
        /\ m + d # r.block
        /\ UNCHANGED <<hist, current_command, shallow_binary_block, expected_block_size,
                       connected, paced, binary_header, binary_block_defined_size>>
    BY <1>1, <1>3, <1>4, <1>7 DEF BlockPart, Consume, connVars, lineVars, headerVars
  <2>2. At((4 + m) + d)' /\ Current' = Current /\ Behind'
    BY <1>2, <1>3, <1>4, <1>5, <2>1, Took
  <2>3. At(4 + (m + d))' /\ m + d \in 0 .. r.block
    BY <1>3, <1>4, <1>5, <2>2
  <2>4. Owed' /\ Pacing'
    BY <1>2, <1>3, <2>1, <2>2 DEF Owed, Pacing, hist
  <2>5. InBlock'
    BY <1>2, <1>3, <1>4, <2>1, <2>2, <2>3, <2>4 DEF InBlock
  <2> QED BY <2>1, <2>4, <2>5 DEF PacingInv, Proceeds
<1>8. ASSUME m + d = r.block, Consume(d), UNCHANGED <<connected, paced>>,
             state' = "WAITING_FOR_COMMAND",
             Serves(Disposition(r)), Disposition(r).what # "protocol_error"
      PROVE  PacingInv' /\ Proceeds
  <2>1. (4 + m) + d = Len(Bytes(r))
    BY <1>3, <1>5, <1>8
  <2>2. At(0)'
    BY <1>2, <1>3, <1>4, <1>5, <1>8, <2>1, Finished
  <2>3. Pacing' /\ ServesNext
    BY <1>2, <1>3, <1>8, PacingServed DEF ServesNext
  <2> QED BY <1>2, <1>8, <2>2, <2>3 DEF PacingInv, AtRest, Proceeds
<1>9. CASE BlockDone
  <2>1. /\ m + d = r.block /\ ~Refused(r) /\ Consume(d) /\ process_binary_block
        /\ UNCHANGED <<connected, paced>>
    BY <1>3, <1>4, <1>6, <1>9 DEF BlockDone, Consume, connVars
  <2>2. current_command = "bCORE_WRITE"
    BY <1>3, <2>1, ReturnedTells
  <2>3. PICK u : u = Filled
    OBVIOUS
  <2>4. Serves(Outcome("written", [j \in DOMAIN u |-> <<u[j].kind, u[j].n>>]))
        /\ state' = "WAITING_FOR_COMMAND"
    BY <2>1, <2>2, <2>3 DEF process_binary_block
  <2>5. [j \in DOMAIN u |-> <<u[j].kind, u[j].n>>] = PayloadOf(r)
    <3>1. DOMAIN u = 1 .. r.block
      BY <1>4, <2>1, <2>3
    <3>2. ASSUME NEW j \in 1 .. r.block PROVE <<u[j].kind, u[j].n>> = <<"data", j>>
      <4>1. u[j] = Sym("data", r, j)
        BY <1>4, <2>1, <2>3
      <4> QED BY <4>1 DEF Sym
    <3> QED BY <3>1, <3>2 DEF PayloadOf
  <2>6. Disposition(r) = Outcome("written", PayloadOf(r))
    BY <1>3, <2>1, DispositionIs
  <2>7. Disposition(r).what # "protocol_error"
    BY <2>6 DEF Outcome
  <2>8. Serves(Disposition(r))
    BY <2>4, <2>5, <2>6
  <2> QED BY <1>8, <2>1, <2>4, <2>7, <2>8
<1>10. CASE BlockSwallowed
  <2>1. /\ m + d = r.block /\ Refused(r) /\ Consume(d) /\ Serves(Outcome("swallowed", <<>>))
        /\ UNCHANGED <<connected, paced>> /\ state' = "WAITING_FOR_COMMAND"
    BY <1>3, <1>4, <1>6, <1>10 DEF BlockSwallowed, Swallowed, Consume, connVars
  <2>2. Disposition(r) = Outcome("swallowed", <<>>)
    BY <1>3, <2>1, DispositionIs
  <2>3. Disposition(r).what # "protocol_error"
    BY <2>2 DEF Outcome
  <2> QED BY <1>8, <2>1, <2>2, <2>3
<1> QED BY <1>7, <1>9, <1>10

-----------------------------------------------------------------------------
(* The invariant                                                           *)

\* Steps that leave the fields and the stream alone.
LEMMA Quiet ==
    ASSUME PacingInv, UNCHANGED <<fields, connected, paced, hist>>, Stream' = Stream
    PROVE  PacingInv'
<1>1. /\ \A k \in Nat : At(k)' <=> At(k)
      /\ Current' = Current /\ (Behind' <=> Behind) /\ (Pacing' <=> Pacing)
  BY DEF At, Current, Behind, Pacing, hist
<1>2. Owed' <=> Owed
  BY <1>1 DEF Owed, fields, lineVars, headerVars
<1>3. (AtRest' <=> AtRest) /\ (InLine' <=> InLine) /\ (BeforeBlock' <=> BeforeBlock)
  BY <1>1, <1>2 DEF AtRest, InLine, BeforeBlock, fields, lineVars
<1>4. InHeader => InHeader'
  BY <1>1, <1>2 DEF InHeader, fields, headerVars
<1>5. InBlock => InBlock'
  <2> SUFFICES ASSUME InBlock PROVE InBlock'
    OBVIOUS
  <2>1. PICK m \in 0 .. Current.block :
           /\ Len(binary_block) = m
           /\ \A j \in 1 .. m : binary_block[j] = Sym("data", Current, j)
           /\ At(4 + m)
           /\ m = Current.block => m = 0
    BY DEF InBlock
  <2>2. 4 + m \in Nat
    OBVIOUS
  <2>3. At(4 + m)'
    BY <1>1, <2>1, <2>2
  <2> QED BY <1>1, <1>2, <2>1, <2>3 DEF InBlock, fields, blockVars, headerVars
<1> QED BY <1>1, <1>3, <1>4, <1>5 DEF PacingInv

\* A request is sent behind those that are there.
LEMMA SendKeepsPacing ==
    ASSUME SlotInv, PacingInv, connected, paced, NEW r \in Requests, Send(r)
    PROVE  PacingInv'
<1>1. /\ StreamType /\ sent \in Seq(Requests) /\ Len(served) \in Nat /\ Len(sent) \in Nat
      /\ Pacing
  BY DEF SlotInv, ConnType, PacingInv
<1>2. /\ sent' = Append(sent, r) /\ served' = served
      /\ wire' = wire \o Bytes(r) /\ chunk' = chunk
      /\ UNCHANGED <<fields, connected, paced>>
      /\ r \in Regular
      /\ \A j \in Len(served) + 1 .. Len(sent) : sent[j].block <= 0
  BY DEF Send, MaySend, InPace
<1>3. /\ Len(sent') = Len(sent) + 1
      /\ sent'[Len(sent) + 1] = r
      /\ \A j \in 1 .. Len(sent) : sent'[j] = sent[j]
  BY <1>1, <1>2
<1>4. Len(served) <= Len(sent)
  BY <1>1 DEF Pacing
<1>5. Pacing'
  <2>1. Len(served') <= Len(sent')
    BY <1>1, <1>2, <1>3, <1>4
  <2>2. ASSUME NEW j \in 1 .. Len(sent') PROVE sent'[j] \in Regular
    <3>1. j \in 1 .. Len(sent) \/ j = Len(sent) + 1
      BY <1>1, <1>3
    <3> QED BY <1>1, <1>2, <1>3, <3>1 DEF Pacing
  <2>3. ASSUME NEW j \in Len(served') + 1 .. Len(sent') - 1 PROVE sent'[j].block <= 0
    <3>1. j \in Len(served) + 1 .. Len(sent) /\ j \in 1 .. Len(sent)
      BY <1>1, <1>2, <1>3
    <3> QED BY <1>2, <1>3, <3>1
  <2> QED BY <2>1, <2>2, <2>3 DEF Pacing
<1>6. ASSUME NEW k \in Nat, At(k) PROVE At(k)'
  <2>1. PICK s, c : s \in Seq(Symbols) /\ s = Stream /\ c = Len(served) + 1
    BY <1>1, StreamFacts
  <2>2. c \in 1 .. Len(sent) + 1 /\ Laid(s, sent, c, k)
    BY <1>1, <1>4, <1>6, <2>1 DEF At
  <2>3. Laid(s \o Bytes(r), Append(sent, r), c, k)
    BY <1>1, <2>1, <2>2, LaidSent
  <2>4. Stream' = s \o Bytes(r)
    BY <1>1, <1>2, <2>1, SendStream
  <2> QED BY <1>2, <2>1, <2>3, <2>4 DEF At
<1>7. ASSUME Behind PROVE Behind' /\ Current' = Current
  <2>1. Len(served) + 1 \in 1 .. Len(sent) /\ Len(served) < Len(sent) + 1
    BY <1>1, <1>7 DEF Behind
  <2> QED BY <1>2, <1>3, <2>1 DEF Behind, Current
<1>8. Owed => Owed'
  BY <1>2, <1>7 DEF Owed, fields, lineVars, headerVars
<1>9. AtRest => AtRest'
  BY <1>2, <1>6 DEF AtRest, fields
<1>10. InLine => InLine'
  BY <1>2, <1>6, <1>7 DEF InLine, fields, lineVars
<1>11. BeforeBlock => BeforeBlock'
  BY <1>2, <1>6, <1>8 DEF BeforeBlock, fields
<1>12. InHeader => InHeader'
  <2>1. \A h \in {0, 1} : 2 + h \in Nat
    OBVIOUS
  <2> QED BY <1>2, <1>6, <1>8, <2>1 DEF InHeader, fields, headerVars
<1>13. InBlock => InBlock'
  <2> SUFFICES ASSUME InBlock PROVE InBlock'
    OBVIOUS
  <2>1. PICK m \in 0 .. Current.block :
           /\ Len(binary_block) = m
           /\ \A j \in 1 .. m : binary_block[j] = Sym("data", Current, j)
           /\ At(4 + m)
           /\ m = Current.block => m = 0
    BY DEF InBlock
  <2>2. 4 + m \in Nat /\ Behind
    BY DEF InBlock, Owed
  <2>3. At(4 + m)' /\ Current' = Current
    BY <1>6, <1>7, <2>1, <2>2
  <2> QED BY <1>2, <1>8, <2>1, <2>3 DEF InBlock, fields, blockVars, headerVars
<1> QED BY <1>1, <1>5, <1>9, <1>10, <1>11, <1>12, <1>13 DEF PacingInv

\* A new client starts at rest, whatever the last one left in the slot.
LEMMA OpenStartsPacing ==
    ASSUME SlotInv, add_to_clients
    PROVE  PacingInv'
<1>1. /\ chunk' = <<>> /\ wire' = <<>> /\ sent' = <<>> /\ served' = <<>>
      /\ state' = "WAITING_FOR_COMMAND"
  BY DEF add_to_clients, SlotInv, ConnType
<1>2. Len(<<>>) = 0 /\ <<>> \in Seq(Symbols)
  BY EmptySeq
<1>3. Stream' = <<>>
  BY <1>1, <1>2, ConcatEmptySeq DEF Stream
<1>4. 0 + 1 = 1
  OBVIOUS
<1>5. At(0)'
  BY <1>1, <1>2, <1>3, <1>4, LaidEmpty DEF At
<1>6. Pacing'
  BY <1>1, <1>2 DEF Pacing
<1> QED BY <1>1, <1>5, <1>6 DEF PacingInv, AtRest

\* Every branch keeps the place and serves no request but the next.
LEMMA BranchProceeds ==
    ASSUME SlotInv, PacingInv, connected, paced, preprocess_data
    PROVE  PacingInv' /\ Proceeds
BY AtRestSteps, InLineSteps, BeforeBlockSteps, InHeaderSteps, InBlockSteps DEF preprocess_data

\* Steps for a client that does not pace itself, or for nobody, make none that does.
LEMMA OthersStay ==
    ASSUME SlotInv, preprocess_data
    PROVE  paced' = paced /\ connected
<1>1. connected
  BY DEF preprocess_data, ExpectBlock, NoBlockFollows, HeaderPart, HeaderDone,
         HeaderRefused, HeaderComplete, HeaderGuard, BlockPart, BlockDone,
         BlockSwallowed, DataGuard, StartCommand, NotACommand, CommandPart,
         PlainCommand, BlockCommand, Command, In, SlotInv, ConnType
<1>2. CASE ExpectBlock \/ StartCommand
  BY <1>1, <1>2 DEF ExpectBlock, StartCommand, connVars
<1>3. CASE NoBlockFollows \/ HeaderRefused \/ NotACommand
  BY <1>1, <1>3 DEF NoBlockFollows, HeaderRefused, NotACommand, ProtocolError, remove_client
<1>4. CASE Taking
  BY <1>1, <1>4 DEF Taking, Consume, connVars
<1> QED BY <1>1, <1>2, <1>3, <1>4, TakingSteps DEF preprocess_data

\* Every step keeps the place.
LEMMA PacingStep ==
    ASSUME SlotInv, PacingInv, [Next]_vars
    PROVE  PacingInv'
<1>1. CASE add_to_clients
  BY <1>1, OpenStartsPacing
<1>2. ASSUME NEW r \in Requests, Send(r) PROVE PacingInv'
  <2>1. CASE paced
    BY <1>2, <2>1, SendKeepsPacing DEF Send
  <2>2. CASE ~paced
    BY <1>2, <2>2 DEF Send, PacingInv
  <2> QED BY <2>1, <2>2
<1>3. CASE Hangup
  BY <1>3 DEF Hangup, remove_client, PacingInv
<1>4. CASE read_client_data
  <2>1. Stream' = Stream
    BY <1>4, ReadStream DEF SlotInv
  <2> QED BY <1>4, <2>1, Quiet DEF read_client_data
<1>5. CASE preprocess_data
  <2>1. CASE paced
    BY <1>5, <2>1, OthersStay, BranchProceeds
  <2>2. CASE ~paced
    BY <1>5, <2>2, OthersStay DEF PacingInv
  <2> QED BY <2>1, <2>2
<1>6. CASE UNCHANGED vars
  <2>1. Stream' = Stream
    BY <1>6 DEF vars, connVars, Stream
  <2> QED BY <1>6, <2>1, Quiet DEF vars, connVars
<1> QED BY <1>1, <1>2, <1>3, <1>4, <1>5, <1>6 DEF Next

\* Through every branch of preprocess_data, and every change of client, the session of
\* a client that paces itself knows where it is in the requests.
THEOREM PacingInvHolds == Spec => [](SlotInv /\ PacingInv)
<1>1. Init => SlotInv /\ PacingInv
  BY SlotInit DEF Init, PacingInv
<1>2. SlotInv /\ PacingInv /\ [Next]_vars => (SlotInv /\ PacingInv)'
  BY StreamStep, FieldsStep, ConnStep, LineStep, ShallowStep, PacingStep DEF SlotInv
<1> QED BY <1>1, <1>2, PTL DEF Spec

-----------------------------------------------------------------------------
(* What it is for                                                          *)

\* Where the session is when nothing is left to read.
LEMMA NothingWaits ==
    ASSUME SlotInv, PacingInv
    PROVE  NoRequestLeftBehind
<1> SUFFICES ASSUME connected, paced, wire = <<>>, chunk = <<>>, Len(served) # Len(sent)
             PROVE  Len(served) = Len(sent) - 1 /\ sent[Len(sent)].block = 0
  BY DEF NoRequestLeftBehind
<1>1. /\ sent \in Seq(Requests) /\ Len(served) \in Nat /\ Len(sent) \in Nat /\ Pacing
      /\ AtRest \/ InLine \/ BeforeBlock \/ InHeader \/ InBlock
  BY DEF SlotInv, ConnType, PacingInv
<1>2. PICK c : c = Len(served) + 1
  OBVIOUS
<1>3. c \in 1 .. Len(sent) /\ Current = sent[c]
  BY <1>1, <1>2 DEF Pacing, Current
<1>4. PICK r \in Regular : r = sent[c]
  BY <1>1, <1>3 DEF Pacing
<1>5. PICK s : s = Stream
  OBVIOUS
<1>6. s = <<>> /\ s \in Seq(Symbols) /\ Len(s) = 0
  <2>1. <<>> \in Seq(Symbols) /\ Len(<<>>) = 0
    BY EmptySeq
  <2> QED BY <1>5, <2>1, ConcatEmptySeq DEF Stream
<1>7. ASSUME NEW k \in Nat, At(k) PROVE k = Len(Bytes(r))
  <2>1. Laid(s, sent, c, k)
    BY <1>2, <1>5, <1>7 DEF At
  <2>2. PICK w : w = Bytes(sent[c])
    OBVIOUS
  <2>3. Len(w) \in Nat /\ k <= Len(w) /\ Len(w) - k <= Len(s)
    BY <1>1, <1>3, <1>6, <2>1, <2>2, LaidCurrent
  <2>4. k = Len(w)
    BY <1>6, <2>3
  <2> QED BY <1>4, <2>2, <2>4
<1>8. /\ Len(Bytes(r)) \in Nat /\ Len(Bytes(r)) > 0
      /\ r.class # "none" => Len(Bytes(r)) >= 2
      /\ r.b => Len(Bytes(r)) = 4 + r.block /\ r.block \in Nat
  BY Words, RegularFacts
<1>9. ~AtRest
  BY <1>7, <1>8 DEF AtRest
<1>10. ~InLine
  <2>1. InLine => (At(0) \/ At(1)) /\ r.class # "none"
    BY <1>3, <1>4 DEF InLine
  <2> QED BY <1>7, <1>8, <2>1
<1>11. ~BeforeBlock
  <2>1. BeforeBlock => At(2) /\ r.b
    BY <1>3, <1>4 DEF BeforeBlock, Owed
  <2> QED BY <1>7, <1>8, <2>1
<1>12. ~InHeader
  <2> SUFFICES ASSUME InHeader PROVE FALSE
    OBVIOUS
  <2>1. PICK h \in {0, 1} : At(2 + h)
    BY DEF InHeader
  <2>2. 2 + h \in Nat /\ r.b
    BY <1>3, <1>4 DEF InHeader, Owed
  <2>3. 2 + h = Len(Bytes(r))
    BY <1>7, <2>1, <2>2
  <2> QED BY <1>8, <2>2, <2>3
<1>13. InBlock /\ r.b /\ r.block = 0 /\ 4 = Len(Bytes(r)) /\ At(4)
  <2>1. InBlock
    BY <1>1, <1>9, <1>10, <1>11, <1>12
  <2>2. PICK m \in 0 .. r.block : At(4 + m) /\ (m = r.block => m = 0)
    BY <1>3, <1>4, <2>1 DEF InBlock
  <2>3. r.b /\ 4 + m \in Nat
    BY <1>3, <1>4, <2>1 DEF InBlock, Owed
  <2>4. 4 + m = Len(Bytes(r))
    BY <1>7, <2>2, <2>3
  <2>5. m = r.block /\ m = 0
    BY <1>8, <2>2, <2>3, <2>4
  <2>6. 4 + m = 4
    BY <2>5
  <2> QED BY <2>1, <2>2, <2>3, <2>4, <2>5, <2>6
<1>14. c = Len(sent)
  <2> SUFFICES ASSUME c # Len(sent) PROVE FALSE
    OBVIOUS
  <2>1. PICK e \in 1 .. Len(sent) : e = c + 1
    BY <1>1, <1>3
  <2>2. Laid(s, sent, c, 4)
    BY <1>2, <1>5, <1>13 DEF At
  <2>3. Laid(s, sent, e, 0)
    <3>1. 4 \in Nat
      OBVIOUS
    <3> QED BY <1>1, <1>3, <1>4, <1>6, <1>13, <2>1, <2>2, <3>1, LaidNext
  <2>4. PICK w : w = Bytes(sent[e])
    OBVIOUS
  <2>5. Len(w) - 0 <= Len(s)
    <3>1. PICK z \in Nat : z = 0
      OBVIOUS
    <3>2. Laid(s, sent, e, z)
      BY <2>3, <3>1
    <3>3. Len(w) - z <= Len(s)
      BY <1>1, <1>6, <2>1, <2>4, <3>2, LaidCurrent
    <3> QED BY <3>1, <3>3
  <2>6. sent[e] \in Regular
    BY <1>1, <2>1 DEF Pacing
  <2>7. Len(w) \in Nat /\ Len(w) > 0
    BY <2>4, <2>6, Words
  <2> QED BY <1>6, <2>5, <2>7
<1> QED BY <1>1, <1>2, <1>4, <1>13, <1>14

\* When the server has read and processed all that such a client sent, it has served
\* all of it, but for an empty block at the end: no byte is dropped or left over.
THEOREM NothingHalfDone == Spec => []NoRequestLeftBehind
BY NothingWaits, PacingInvHolds, PTL

\* The steps of the session are steps of the connection.
LEMMA StartOrderly == Init => Conn!Init
BY DEF Init, Conn!Init

\* The instance reads the same outcome off a request.
LEMMA SameDisposition == ASSUME NEW r PROVE Conn!Disposition(r) = Disposition(r)
BY DEF Conn!Disposition, Disposition, Conn!Outcome, Outcome, Conn!Mismatch, Mismatch,
       Conn!ExpectedSize, ExpectedSize, Conn!Refused, Refused, Conn!PayloadOf, PayloadOf

\* The connection moves on: nothing happens that the client sees, or its next request
\* is served.
LEMMA ProceedsOrderly ==
    ASSUME Proceeds, connected, paced
    PROVE  Conn!Next \/ UNCHANGED Conn!vars
<1>1. CASE UNCHANGED <<connected, hist>>
  BY <1>1 DEF Proceeds, hist, Conn!vars
<1>2. CASE ServesNext /\ connected' = (Disposition(Current).what # "protocol_error")
  <2>1. PICK o : o = Disposition(Current)
    OBVIOUS
  <2>2. /\ Len(served) < Len(sent) /\ served' = Append(served, o) /\ sent' = sent
        /\ connected' = (o.what # "protocol_error") /\ paced'
    BY <1>2, <2>1 DEF ServesNext, Behind, Serves, Proceeds
  <2>3. o = Conn!Disposition(sent[Len(served) + 1])
    BY <2>1, SameDisposition DEF Current
  <2>4. Conn!Serve
    BY <2>2, <2>3 DEF Conn!Serve
  <2> QED BY <2>4 DEF Conn!Next
<1> QED BY <1>1, <1>2 DEF Proceeds

\* ... and so does every other step.
LEMMA StepOrderly ==
    ASSUME SlotInv, PacingInv, [Next]_vars
    PROVE  Conn!Next \/ UNCHANGED Conn!vars
<1>1. CASE UNCHANGED <<connected, paced, hist>>
  BY <1>1 DEF hist, Conn!vars
<1>2. CASE ~paced /\ paced' = paced
  BY <1>2 DEF Conn!vars
<1>3. CASE add_to_clients
  <2>1. ~connected /\ connected' /\ paced' \in BOOLEAN /\ sent' = <<>> /\ served' = <<>>
    BY <1>3 DEF add_to_clients
  <2>2. CASE paced' = TRUE
    BY <2>1, <2>2 DEF Conn!Next, Conn!Open
  <2>3. CASE paced' = FALSE
    BY <2>1, <2>3 DEF Conn!Next, Conn!Forget
  <2> QED BY <2>1, <2>2, <2>3
<1>4. ASSUME NEW r \in Requests, Send(r) PROVE Conn!Next \/ UNCHANGED Conn!vars
  <2>1. /\ connected /\ connected' = connected /\ paced' = paced
        /\ Len(sent) < MaxRequests /\ sent' = Append(sent, r) /\ served' = served
    BY <1>4 DEF Send
  <2>2. CASE paced
    <3>1. Conn!Send(r)
      BY <2>1, <2>2 DEF Conn!Send
    <3> QED BY <3>1 DEF Conn!Next
  <2> QED BY <1>2, <2>1, <2>2
<1>5. CASE Hangup
  <2>1. connected /\ connected' = FALSE /\ paced' = paced /\ sent' = <<>> /\ served' = <<>>
    BY <1>5 DEF Hangup, remove_client
  <2>2. CASE paced
    BY <2>1, <2>2 DEF Conn!Next, Conn!Hangup
  <2> QED BY <1>2, <2>1, <2>2
<1>6. CASE read_client_data
  BY <1>1, <1>6 DEF read_client_data
<1>7. CASE preprocess_data
  <2>1. CASE paced
    BY <1>7, <2>1, OthersStay, BranchProceeds, ProceedsOrderly
  <2> QED BY <1>2, <1>7, <2>1, OthersStay
<1>8. CASE UNCHANGED vars
  BY <1>1, <1>8 DEF vars, connVars
<1> QED BY <1>3, <1>4, <1>5, <1>6, <1>7, <1>8 DEF Next

\* preprocess_data, fed with any cut of the stream and with whatever earlier clients
\* left in the slot, serves the requests of such a client one by one, in order, each
\* with the outcome NwaRequests reads off the request alone.
THEOREM SessionImplementsConnection == Spec => ImplementsConnection
<1>1. SlotInv /\ PacingInv /\ [Next]_vars => [Conn!Next]_(Conn!vars)
  BY StepOrderly
<1> QED BY StartOrderly, <1>1, PacingInvHolds, PTL DEF Spec, ImplementsConnection, Conn!Spec

=============================================================================
