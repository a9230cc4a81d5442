--------------------------- MODULE MCClientSession ---------------------------
(* Sets of requests for the runs of ClientSession.                         *)
EXTENDS ClientSession

Request(cmd, class, b, ret, block) ==
    [cmd |-> cmd, class |-> class, b |-> b, ret |-> ret, block |-> block]

Status      == Request("EMULATION_STATUS", "handled", FALSE, 0, -1)
Unhandled   == Request("MY_NAME_IS", "nohandler", FALSE, 0, -1)
SizedWrite  == Request("bCORE_WRITE", "handled", TRUE, 2, 2)
FreeWrite   == Request("bCORE_WRITE", "handled", TRUE, 0, 2)
ShortBlock  == Request("bCORE_WRITE", "handled", TRUE, 2, 1)
BadWrite    == Request("bCORE_WRITE", "handled", TRUE, -2, 2)
StrayBlock  == Request("", "none", FALSE, 0, 1)
UnknownB    == Request("", "unknown", TRUE, 0, 2)
CustomB     == Request("bCUSTOM", "custom", TRUE, 2, 2)
EmptyWrite  == Request("bCORE_WRITE", "handled", TRUE, 0, 0)
NoBlockSent == Request("bCORE_WRITE", "handled", TRUE, 0, -1)

\* What the protocol asks the server to handle, its own errors included.
Good    == {Status, Unhandled, SizedWrite, EmptyWrite, ShortBlock, BadWrite, StrayBlock}
\* ... and commands with a block that are no bCORE_WRITE, or without a block
\* after all.
Any     == Good \cup {UnknownB, CustomB, NoBlockSent}
Writes  == {Status, FreeWrite}
Stale   == {SizedWrite, UnknownB}

=============================================================================
