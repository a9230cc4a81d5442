---------------------------- MODULE NwaConnection ----------------------------
(***************************************************************************)
(* What one connection of the server promises its client, without bytes:   *)
(* requests are served one at a time, in the order they were sent, each    *)
(* with the outcome it deserves, however TCP cuts the stream.              *)
(***************************************************************************)
EXTENDS NwaRequests

VARIABLES up,      \* the connection exists
          sent,    \* requests sent over it so far
          served   \* outcomes of the first of them

vars == <<up, sent, served>>

Init == up = FALSE /\ sent = <<>> /\ served = <<>>

Open ==
    /\ ~up
    /\ up' = TRUE /\ sent' = <<>> /\ served' = <<>>

Send(r) ==
    /\ up
    /\ Len(sent) < MaxRequests
    /\ sent' = Append(sent, r)
    /\ UNCHANGED <<up, served>>

\* The next request is served; a protocol error also ends the connection.
Serve ==
    /\ up
    /\ Len(served) < Len(sent)
    /\ LET o == Disposition(sent[Len(served) + 1])
       IN  /\ served' = Append(served, o)
           /\ up' = (o.what # "protocol_error")
    /\ UNCHANGED sent

\* Either side ends the connection; what went over one that has ended is forgotten.
Hangup == up /\ up' = FALSE /\ sent' = <<>> /\ served' = <<>>
Forget == ~up /\ up' = FALSE /\ sent' = <<>> /\ served' = <<>>

Next == Open \/ (\E r \in Requests : Send(r)) \/ Serve \/ Hangup \/ Forget

\* An empty block is only served once something follows it.
Due == LET n == Len(served) + 1
       IN  sent[n].block = 0 => Len(sent) > n

Spec     == Init /\ [][Next]_vars
FairSpec == Spec /\ WF_vars(Serve /\ Due)

=============================================================================
