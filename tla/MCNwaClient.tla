----------------------------- MODULE MCNwaClient -----------------------------
(* Lines a1 and a2 have the same key, the third another; data with every   *)
(* byte in it that may be taken for the start of a reply.                  *)
EXTENDS NwaClient

CONSTANTS a1, a2, b, long, junk

SomeLines == {a1, a2, b, long}

Keys == [l \in SomeLines \cup {junk} |-> IF l \in {a1, a2} THEN a1 ELSE l]

Ascii(k, s) == [kind |-> k, lines |-> s, data |-> <<>>]
Binary(s)   == [kind |-> "binary", lines |-> <<>>, data |-> s]

SomeReplies ==
    {Ascii("hash", <<>>), Ascii("hash", <<a1, b, a2>>), Ascii("hash", <<b, long>>),
     Ascii("error", <<a1, b>>), Binary(<<>>), Binary(<<2>>), Binary(<<0, 1, 2, 1>>)}

Blocks == {Binary(<<1, 2, 1>>)}

=============================================================================
