----------------------------- MODULE ServerStart -----------------------------
(***************************************************************************)
(* How generic_poll_server_start comes by its port, and what its ways of   *)
(* ending leave of it, for several emulators on one machine: each makes    *)
(* its own bind() calls between those of the others.                       *)
(*                                                                         *)
(* Abstraction: a server that is up does nothing but end (PollServer has   *)
(* its loop).  The address family, the options of the socket and the       *)
(* formatting of the port are left out; a port number keeps its width.     *)
(***************************************************************************)
EXTENDS Integers, FiniteSets

CONSTANTS
    Emulators,
    Width,      \* port numbers are taken modulo it; 2^16 in the code
    Default,    \* EMULATOR_NETWORK_ACCESS_STARTING_PORT
    Tries,      \* bind() calls of a start; 5 in the code
    Settings,   \* what atoi makes of NWA_PORT_RANGE, or Unset
    Unset,
    Ephemeral,  \* the ports the system hands out when asked for port 0
    Reserved,   \* the ports an emulator may not bind
    MaxStuck    \* bound: ports no server has that are not free either

Ports == 1 .. Width - 1

ASSUME EmulatorsAssumption == IsFiniteSet(Emulators)
ASSUME WidthAssumption == Width \in Nat /\ Default \in Ports
ASSUME TriesAssumption == Tries \in Nat \ {0} /\ Tries < Width
ASSUME SettingsAssumption == Settings \subseteq Int \cup {Unset}
ASSUME SystemAssumption == Ephemeral \subseteq Ports /\ Reserved \subseteq Ports
ASSUME StuckAssumption == MaxStuck \in Nat

VARIABLES
    setting,     \* NWA_PORT_RANGE in the environment of each emulator
    pc,          \* where it is in generic_poll_server_start
    cpt,
    bound,       \* the port of its server_socket; 0 when it has none
    reported,    \* what server_started said; 0 when no server is up
    abandoned,   \* ports of server sockets nobody closed
    lingering,   \* ports with connections in TIME_WAIT
    stayedFree,  \* history: ports it may try, not taken since its start began
    orderly      \* history: all servers ended by the stop flag, without clients

vars == <<setting, pc, cpt, bound, reported, abandoned, lingering, stayedFree, orderly>>

TypeOK ==
    /\ setting \in [Emulators -> Settings]
    /\ pc \in [Emulators -> {"out", "search", "bound", "up", "refused"}]
    /\ cpt \in [Emulators -> 0 .. Tries - 1]
    /\ bound \in [Emulators -> Ports \cup {0}]
    /\ reported \in [Emulators -> 0 .. Width + Tries]
    /\ abandoned \in [Emulators -> SUBSET Ports]
    /\ lingering \subseteq Ports
    /\ stayedFree \in [Emulators -> SUBSET Ports]
    /\ orderly \in BOOLEAN

Init ==
    /\ setting \in [Emulators -> Settings]
    /\ pc = [e \in Emulators |-> "out"]
    /\ cpt = [e \in Emulators |-> 0]
    /\ bound = [e \in Emulators |-> 0]
    /\ reported = [e \in Emulators |-> 0]
    /\ abandoned = [e \in Emulators |-> {}]
    /\ lingering = {}
    /\ stayedFree = [e \in Emulators |-> {}]
    /\ orderly = TRUE

\* unsigned short env_port: what is a multiple of the width counts as no port.
Mut_env_port(e) == IF setting[e] = Unset THEN 0 ELSE setting[e]    \* mutant: not cut
env_port(e) == IF setting[e] = Unset THEN 0 ELSE setting[e] % Width

port_range_start(e) == IF env_port(e) = 0 THEN Default ELSE env_port(e)

Taken == lingering \cup Reserved \cup UNION {abandoned[e] \cup {bound[e]} : e \in Emulators}
Free  == Ports \ Taken

\* The ports that bind() may give for htons(port_range_start + i).
Asked(e, i) ==
    LET p == (port_range_start(e) + i) % Width
    IN  IF p = 0 THEN Ephemeral ELSE {p}

PortRange(e) == UNION {Asked(e, i) : i \in 0 .. Tries - 1}

-----------------------------------------------------------------------------
(* The start                                                               *)

\* socket() and setsockopt() succeed; else start returns before any port matters.
Start(e) ==
    /\ pc[e] \in {"out", "refused"}
    /\ pc' = [pc EXCEPT ![e] = "search"]
    /\ cpt' = [cpt EXCEPT ![e] = 0]
    /\ stayedFree' = [stayedFree EXCEPT ![e] = Free \cap PortRange(e)]
    /\ UNCHANGED <<setting, bound, reported, abandoned, lingering, orderly>>

Bind(e) ==
    /\ pc[e] = "search"
    /\ \E p \in Asked(e, cpt[e]) \cap Free :
         /\ bound' = [bound EXCEPT ![e] = p]
         /\ stayedFree' = [d \in Emulators |-> stayedFree[d] \ {p}]
    /\ pc' = [pc EXCEPT ![e] = "bound"]
    /\ UNCHANGED <<setting, cpt, reported, abandoned, lingering, orderly>>

BindFails(e) == pc[e] = "search" /\ Asked(e, cpt[e]) \cap Free = {}

Mut_LastTry == Tries - 2                                  \* mutant: one port too few
LastTry == Tries - 1

TryNext(e) ==
    /\ BindFails(e)
    /\ cpt[e] # LastTry
    /\ cpt' = [cpt EXCEPT ![e] = @ + 1]
    /\ UNCHANGED <<setting, pc, bound, reported, abandoned, lingering, stayedFree, orderly>>

\* "Can't bind socket": the socket stays open, without a port.
Refused(e) ==
    /\ BindFails(e)
    /\ cpt[e] = LastTry
    /\ pc' = [pc EXCEPT ![e] = "refused"]
    /\ UNCHANGED <<setting, cpt, bound, reported, abandoned, lingering, stayedFree, orderly>>

Mut_Reported(e) == port_range_start(e)                    \* mutant: where it started
Reported(e) == port_range_start(e) + cpt[e]

Listen(e) ==
    /\ pc[e] = "bound"
    /\ pc' = [pc EXCEPT ![e] = "up"]
    /\ reported' = [reported EXCEPT ![e] = Reported(e)]
    /\ UNCHANGED <<setting, cpt, bound, abandoned, lingering, stayedFree, orderly>>

-----------------------------------------------------------------------------
(* The end                                                                 *)

Stuck == lingering \cup UNION {abandoned[e] : e \in Emulators}

\* generic_poll_server_start returns, or its process ends; its variables are gone.
Return(e) ==
    /\ pc' = [pc EXCEPT ![e] = "out"]
    /\ cpt' = [cpt EXCEPT ![e] = 0]
    /\ bound' = [bound EXCEPT ![e] = 0]
    /\ reported' = [reported EXCEPT ![e] = 0]
    /\ stayedFree' = [stayedFree EXCEPT ![e] = {}]
    /\ UNCHANGED setting

\* Its own side closes first: a connection of a server that is up may keep the port
\* for a while, and the socket has no SO_REUSEADDR.
Linger(e) ==
    \/ UNCHANGED <<lingering, orderly>>
    \/ /\ pc[e] = "up" /\ Cardinality(Stuck) < MaxStuck
       /\ lingering' = lingering \cup {bound[e]}
       /\ orderly' = FALSE

Mut_Kept(e) == abandoned[e] \cup {bound[e]}      \* mutant: server_socket is not closed
Kept(e) == abandoned[e]

\* The stop branch closes the clients and server_socket.
Stop(e) ==
    /\ pc[e] = "up"
    /\ Return(e)
    /\ abandoned' = [abandoned EXCEPT ![e] = Kept(e)]
    /\ Linger(e)

LingerOver(p) ==
    /\ p \in lingering
    /\ lingering' = lingering \ {p}
    /\ UNCHANGED <<setting, pc, cpt, bound, reported, abandoned, stayedFree, orderly>>

\* A failing listen(), poll() or accept(), or a signal during poll(): the function
\* returns and nobody has its socket any more, but it is still open and bound.
Abandon(e) ==
    /\ pc[e] \in {"bound", "up"}
    /\ Cardinality(Stuck) < MaxStuck
    /\ Return(e)
    /\ abandoned' = [abandoned EXCEPT ![e] = @ \cup {bound[e]}]
    /\ orderly' = FALSE
    /\ UNCHANGED lingering

\* The process ends, whatever it was doing, and the system closes its sockets.
Exit(e) ==
    /\ pc[e] # "out" \/ abandoned[e] # {}
    /\ Return(e)
    /\ abandoned' = [abandoned EXCEPT ![e] = {}]
    /\ Linger(e)

Next ==
    \/ \E e \in Emulators :
          \/ Start(e) \/ Bind(e) \/ TryNext(e) \/ Refused(e) \/ Listen(e)
          \/ Stop(e) \/ Abandon(e) \/ Exit(e)
    \/ \E p \in Ports : LingerOver(p)

Spec == Init /\ [][Next]_vars

-----------------------------------------------------------------------------
(* Properties                                                              *)

\* The host is told the port its server has, whatever NWA_PORT_RANGE says, unless
\* the search ran over the last port: it then has some port, and the host is told
\* one that does not exist.
ReportedIsBound ==
    \A e \in Emulators : pc[e] = "up" /\ reported[e] < Width => bound[e] = reported[e]

\* The search passes over no port that was free all the time, neither one before
\* the port it ends with nor, when it gives up, any of those it may try.
FirstFreePort ==
    \A e \in Emulators :
       LET passed == IF pc[e] = "refused" THEN 0 .. Tries - 1 ELSE 0 .. cpt[e] - 1
       IN  pc[e] # "out" => \A i \in passed : stayedFree[e] \cap Asked(e, i) = {}

SamePorts ==
    /\ Cardinality(Emulators) <= Tries
    /\ \A d, e \in Emulators : port_range_start(d) = port_range_start(e)
    /\ \A e \in Emulators :
          port_range_start(e) .. port_range_start(e) + Tries - 1 \subseteq Ports \ Reserved

\* Emulators that search the same ports, and are no more than these, all get one
\* as long as everyone ends with the stop flag: however the bind() calls and the
\* stops of the others fall, nobody is chased through all the ports.
EveryoneFits ==
    orderly /\ SamePorts => \A e \in Emulators : pc[e] # "refused"

=============================================================================
