---------------------------- MODULE NwaRequests ----------------------------
(***************************************************************************)
(* The requests a client of the server can send, and the outcome each of   *)
(* them deserves.                                                          *)
(*                                                                         *)
(* A request is a record                                                   *)
(*   class  "handled"    a command with a handler in generic_emu_mwa_map   *)
(*          "nohandler"  a known command without a handler                 *)
(*          "custom"     a command of custom_emu_nwa_map                   *)
(*          "unknown"    any other command                                 *)
(*          "none"       no command line at all, a stray binary block      *)
(*   cmd    the value execute_command stores in current_command            *)
(*   b      whether the name starts with 'b', so that a block follows      *)
(*   ret    what the handler returns: 0, the expected size of the block,   *)
(*          or minus that size when the handler refused the command        *)
(*   block  the size of the block the client sends, NoBlock for none       *)
(***************************************************************************)
EXTENDS Integers, Sequences

CONSTANTS Requests,     \* the requests clients may send
          MaxRequests   \* bound: requests sent over one connection

NoBlock == -1
Classes == {"handled", "nohandler", "custom", "unknown", "none"}

ASSUME RequestsAssumption ==
    \A r \in Requests : /\ r.class \in Classes /\ r.b \in BOOLEAN
                        /\ r.ret \in Int /\ r.block \in Nat \cup {NoBlock}
ASSUME MaxRequestsAssumption == MaxRequests \in Nat

Outcome(what, data) == [what |-> what, data |-> data]
PayloadOf(r) == [j \in 1 .. r.block |-> <<"data", j>>]

\* No such command, no handler for it, or a handler that said no.
Refused(r) == r.class \in {"unknown", "nohandler"} \/ r.ret < 0

\* The handler asked for a block of another size; it names none with 0.
ExpectedSize(r) == IF r.ret < 0 THEN -r.ret ELSE r.ret
Mismatch(r) == r.class \in {"handled", "custom"} /\ r.ret # 0 /\ r.block # ExpectedSize(r)

\* The outcome of a request, read off the request alone: a block that is out of
\* place or of the wrong size breaks the protocol, the block of a refused command
\* is swallowed, any other block is written.
Disposition(r) ==
    Outcome(CASE r.class = "none" \/ (r.b /\ Mismatch(r)) -> "protocol_error"
              [] r.b /\ ~Mismatch(r) /\ Refused(r)        -> "swallowed"
              [] r.b /\ ~Mismatch(r) /\ ~Refused(r)       -> "written"
              [] ~r.b /\ r.class # "none"                 ->
                    IF r.class \in {"unknown", "nohandler"} THEN "invalid_command" ELSE "executed",
            IF r.b /\ ~Mismatch(r) /\ ~Refused(r) THEN PayloadOf(r) ELSE <<>>)

\* What a client that paces itself may send: a block after a command whose name
\* starts with 'b', and only there or on its own; among those commands only the ones
\* execute_command knows, with one byte for one without a handler, and for one that
\* is not refused a block the server takes for bCORE_WRITE or rejects.
Paceable(r) ==
    /\ r.class = "none" => ~r.b
    /\ r.block = NoBlock <=> ~r.b /\ r.class # "none"
    /\ r.b => /\ r.class # "unknown"
              /\ r.class = "nohandler" => r.block = 1
              /\ Refused(r) \/ Mismatch(r) \/ r.cmd = "bCORE_WRITE"

\* ... and when: nothing behind the data of a block that the server has not answered,
\* as the validator does.
InPace(asked, answered) == \A j \in Len(answered) + 1 .. Len(asked) : asked[j].block <= 0

=============================================================================
