---------------------------- MODULE CommandLine ----------------------------
(***************************************************************************)
(* From the arguments a client has in hand to those its handler gets: the  *)
(* program joins them (src/proto-validator/src/main.rs), its client puts   *)
(* the name in front (execute_command of nwa.rs there), the server         *)
(* collects the line in command_data and splits it again (process_command  *)
(* of src/generic poll server/generic_poll_server.c).  None of the buffers *)
(* on the way is measured by the code.  A text is a sequence of            *)
(* characters.                                                             *)
(***************************************************************************)
EXTENDS Integers, SequencesExt

CONSTANTS
    Name,         \* the name of a command
    Texts,        \* the texts an argument may have
    MaxArgs,      \* bound: arguments of a command
    CommandMax,   \* bytes of command_data; 2048 in the code
    ArgsMax,      \* entries of args; 20 in the code
    ArgMax        \* bytes of an argument; 2056 in the code

Space     == " "    \* ends the name
Semicolon == ";"    \* stands between two arguments
Newline   == "\n"   \* ends the line

Separators == {Space, Semicolon, Newline}

ASSUME NameAssumption ==
    Name \in Seq(STRING) /\ Name # <<>> /\ Separators \cap ToSet(Name) = {}
ASSUME TextsAssumption ==
    \A t \in Texts : t \in Seq(STRING) /\ {Semicolon, Newline} \cap ToSet(t) = {}
ASSUME SizesAssumption ==
    /\ {MaxArgs, CommandMax, ArgsMax, ArgMax} \subseteq Nat
    /\ CommandMax < ArgMax

VARIABLES
    pc,             \* where the request is
    asked,          \* what the client wants: its arguments
    command_data,   \* the line
    cmd, args,      \* what the handler gets
    overrun         \* history: buffers written past their end

lineVars == <<asked, command_data, cmd, args, overrun>>

InitLine ==
    /\ asked = <<>> /\ command_data = <<>>
    /\ cmd = <<>> /\ args = <<>>
    /\ overrun = {}

\* The argument string as the checks of the validator write it: a semicolon between
\* any two arguments.
Join(as) ==
    LET line[k \in 1 .. Len(as)] ==
          IF k = 1 THEN as[1] ELSE line[k - 1] \o <<Semicolon>> \o as[k]
    IN  line[Len(as)]

\* The client gets that string whole; without arguments there is no space either.
Line(as) == Name \o (IF as = <<>> THEN <<>> ELSE <<Space>> \o Join(as)) \o <<Newline>>

execute_command(as) ==
    /\ pc = "idle"
    /\ asked' = as
    /\ command_data' = Line(as)
    /\ overrun' = IF Len(Line(as)) > CommandMax THEN {"command_data"} ELSE {}
    /\ pc' = "line"
    /\ UNCHANGED <<cmd, args>>

\* The name ends at the first space or at the newline.
NameEnd == SelectInSeq(command_data, LAMBDA c : c \in {Space, Newline})

\* What stands between the spaces behind the name and the newline.
Rest ==
    LET from == SelectInSubSeq(command_data, NameEnd, Len(command_data), LAMBDA c : c # Space)
    IN  SubSeq(command_data, from, Len(command_data) - 1)

Mut_Collect(as, c) ==         \* mutant: an empty argument is left out
    IF c = Semicolon /\ Last(as) = <<>> THEN as
    ELSE IF c = Semicolon THEN Append(as, <<>>)
    ELSE [as EXCEPT ![Len(as)] = Append(@, c)]

\* A semicolon opens the next argument, anything else belongs to the last one.
Collect(as, c) ==
    IF c = Semicolon THEN Append(as, <<>>) ELSE [as EXCEPT ![Len(as)] = Append(@, c)]

Split(text) ==
    LET upTo[n \in 0 .. Len(text)] ==
          IF n = 0 THEN <<<<>>>> ELSE Collect(upTo[n - 1], text[n])
    IN  upTo[Len(text)]

Mut_CmdSize == NameEnd - 1    \* mutant: no room for the zero byte

\* The buffer of the name has the size of the whole line.
CmdSize == Len(command_data)

\* The texts are zero-terminated.  The first argument exists whenever there is a
\* space, if only as an empty text.
process_command ==
    /\ pc = "line"
    /\ cmd' = SubSeq(command_data, 1, NameEnd - 1)
    /\ args' = IF command_data[NameEnd] = Newline THEN <<>> ELSE Split(Rest)
    /\ overrun' = overrun
         \cup (IF Len(cmd') + 1 > CmdSize THEN {"cmd"} ELSE {})
         \cup (IF Len(args') > ArgsMax THEN {"args"} ELSE {})
         \cup (IF \E k \in DOMAIN args' : Len(args'[k]) + 1 > ArgMax THEN {"argument"} ELSE {})
    /\ pc' = IF overrun' = {} THEN "execute" ELSE "undefined"
    /\ UNCHANGED <<asked, command_data>>

Requested == UNION {[1 .. n -> Texts] : n \in 0 .. MaxArgs}

NextLine == process_command \/ \E as \in Requested : execute_command(as)

-----------------------------------------------------------------------------
(* Properties                                                              *)

\* The handler gets what the client asked, argument by argument, empty ones
\* included; only spaces in front of the first one are lost.
HandlerGetsAsked ==
    pc = "execute" =>
      /\ cmd = Name
      /\ Len(args) = Len(asked)
      /\ \A k \in DOMAIN args :
            IF k > 1 THEN args[k] = asked[k]
            ELSE \E n \in 0 .. Len(asked[1]) : /\ asked[1] = [j \in 1 .. n |-> Space] \o args[1]
                                               /\ args[1] # <<>> => Head(args[1]) # Space

\* A line that fits command_data also fits the buffers made from it, but for the
\* number of its arguments; with few enough of them nothing is written past
\* its end.
FittingLineIsSafe ==
    /\ Len(command_data) <= CommandMax => overrun \subseteq {"args"}
    /\ Len(command_data) <= CommandMax /\ Len(asked) <= ArgsMax => overrun = {}

=============================================================================
