---------------------------- MODULE MCNwaServer ----------------------------
(* NwaServer for TLC: a request that is executed, and one with a block     *)
(* that breaks the protocol by its size.                                   *)
EXTENDS NwaServer

Status     == [cmd |-> "EMULATION_STATUS", class |-> "handled", b |-> FALSE, ret |-> 0, block |-> -1]
ShortWrite == [cmd |-> "bCORE_WRITE", class |-> "handled", b |-> TRUE, ret |-> 2, block |-> 1]

Both == {Status, ShortWrite}

=============================================================================
