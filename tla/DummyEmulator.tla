---------------------------- MODULE DummyEmulator ----------------------------
(***************************************************************************)
(* The command handlers of src/dummy/Dummy Emulator/dummy.c, called one    *)
(* at a time by the event loop for whichever client has a request.  A      *)
(* write takes two calls, dummy_core_memory_write for the command and      *)
(* write_to_memory for its block, and what passes from one to the other is *)
(* in globals that all clients share; another client's calls can come in   *)
(* between.                                                                *)
(*                                                                         *)
(* Data abstraction: the contents of the memories are left out, a memcpy   *)
(* is the set of addresses it covers.                                      *)
(***************************************************************************)
EXTENDS Naturals, FiniteSets

CONSTANTS
    Clients,
    Mems,      \* WRAM, SRAM, CARTROM
    CARTROM,
    MemSize,   \* of each of them
    NULL,
    Reads,     \* CORE_READ requests: [mem, offset, size, told, args]
    Writes,    \* bCORE_WRITE requests, likewise; size is that of the block
    Prefix,    \* bytes taken for a size header; 4 in the code
    Spelled,   \* bound: the numbers the first bytes of a block may spell
    MaxSize    \* no block or spelled number is larger

\* `args` is how many arguments the line has: memory, offset, size, and further
\* offsets and sizes; `size` is that of all ranges.  `told` is what atoi makes of the
\* third argument: a size in decimal digits, 0 for one in hexadecimal, which starts
\* with a $.
ASSUME RequestsAssumption ==
    \A r \in Reads \cup Writes :
       /\ r.offset \in Nat /\ r.size \in Nat /\ r.told \in 0 .. r.size /\ r.args \in Nat
       /\ r.args = 3 => r.told \in {0, r.size}
ASSUME NullAssumption == CARTROM \in Mems /\ NULL \notin Mems \cup Writes
ASSUME PrefixAssumption == Prefix \in Nat \ {0}
ASSUME MaxSizeAssumption ==
    /\ MaxSize \in Nat /\ MemSize \in Nat
    /\ Spelled \subseteq 0 .. MaxSize /\ \A r \in Writes : r.size <= MaxSize
ASSUME ClientsAssumption == IsFiniteSet(Clients)

VARIABLES
    loaded,            \* the memories main has filled; the others are NULL
    dummy_state, memory_to_write, offset_to_write, size_to_write, size_written,
    size_header_get,   \* static in write_to_memory
    pending,           \* the write each client has asked for, its block to come
    disturbed,         \* history: another client's write came in between
    wrote,             \* history: addresses of the last memcpy
    asked,             \* history: whose block it was, and of which request
    last,              \* history: what became of the last request of a client
    crashed,           \* the process died
    blame              \* history: of which request, and whether it was interfered with

target  == <<memory_to_write, offset_to_write, size_to_write, size_written>>
globals == <<loaded, target, size_header_get>>
copied  == <<wrote, asked>>
fate    == <<crashed, blame>>
vars    == <<globals, dummy_state, pending, disturbed, copied, last, fate>>

Offsets == {0} \cup {r.offset : r \in Writes}

TypeOK ==
    /\ loaded \subseteq Mems
    /\ dummy_state \in {"RUNNING", "PAUSED", "STOPPED"}
    /\ memory_to_write \in loaded \cup {NULL}
    /\ offset_to_write \in Offsets
    /\ size_to_write \in 0 .. MaxSize
    /\ size_written \in 0 .. Cardinality(Clients) * MaxSize    \* a block of each
    /\ size_header_get \in BOOLEAN
    /\ pending \in [Clients -> Writes \cup {NULL}]
    /\ disturbed \in [Clients -> BOOLEAN]
    /\ last \in [Clients -> {"none", "answered", "silent", "silent_write"}]
    /\ crashed \in BOOLEAN

\* The sections a savestate may have: any but the program itself, for which main
\* exits when it cannot read it.
snes9x_152_savestate_get_ram_wram == SUBSET (Mems \ {CARTROM})

prep_memory == {S \cup {CARTROM} : S \in snes9x_152_savestate_get_ram_wram}

\* main: the memories are there before the server starts.
Init ==
    /\ loaded \in prep_memory
    /\ dummy_state = "RUNNING"
    /\ memory_to_write = NULL
    /\ offset_to_write = 0
    /\ size_to_write = 0
    /\ size_written = 0
    /\ size_header_get = FALSE
    /\ pending = [c \in Clients |-> NULL]
    /\ disturbed = [c \in Clients |-> FALSE]
    /\ wrote = {}
    /\ asked = NULL
    /\ last = [c \in Clients |-> "none"]
    /\ crashed = FALSE
    /\ blame = NULL

\* A client is between two requests; its next command may come.
Idle(c) == ~crashed /\ pending[c] = NULL

-----------------------------------------------------------------------------
(* Commands without a block.  Those that answer do so at once; the control *)
(* commands reply nothing at all.                                          *)

Done(c, how) ==
    /\ Idle(c)
    /\ last' = [last EXCEPT ![c] = how]
    /\ UNCHANGED <<globals, pending, disturbed, copied, fate>>

Silent(c) == Done(c, "silent") /\ UNCHANGED dummy_state
Answer(c) == Done(c, "answered") /\ UNCHANGED dummy_state
SetState(c, s) == Done(c, "silent") /\ dummy_state' = s

dummy_emu_info(c)   == Answer(c)
dummy_emu_status(c) == Answer(c)
dummy_emu_pause(c)  == SetState(c, "PAUSED")
dummy_emu_stop(c)   == SetState(c, "STOPPED")
dummy_emu_reset(c)  == Silent(c)
dummy_emu_resume(c) == SetState(c, "RUNNING")

\* dummy_emu_reload and dummy_load_game
dummy_emu_reload(c) == Silent(c)

\* dummy_game_info, dummy_cores_list, dummy_core_info and dummy_core_current_info
dummy_game_info(c) == Answer(c)

dummy_core_load(c) == Silent(c)

\* Names all three memories, loaded or not.
dummy_core_memories(c) == Answer(c)

\* dummy_np, dummy_load_state and dummy_save_state
dummy_np(c) == Silent(c)

Mut_Pointer(m) == IF m \in loaded /\ m = CARTROM THEN m ELSE NULL  \* mutant: a name not compared
Pointer(m) == IF m \in loaded THEN m ELSE NULL

\* The process dies of request r.
Die(c, r) ==
    /\ crashed' = TRUE
    /\ blame' = [request |-> r, apart |-> ~disturbed[c]]
    /\ UNCHANGED <<globals, dummy_state, pending, disturbed, copied, last>>

\* Whatever lies behind a memory may be reached, or not.
Overruns(o, n) == o + n > MemSize

\* The arguments behind the last one are uninitialized: they may be read as any
\* text.  The first is NULL when there is none, and compared all the same.
dummy_core_memory_read(c, r) ==
    /\ Idle(c)
    /\ \/ /\ r.args > 0
          /\ Pointer(r.mem) # NULL \/ r.args < 3
          /\ Answer(c)
       \/ /\ r.args < 3 \/ Pointer(r.mem) = NULL \/ Overruns(r.offset, r.told)
          /\ Die(c, r)

-----------------------------------------------------------------------------
(* bCORE_WRITE                                                             *)

\* The other clients whose write is under way get their globals changed.
Disturb(c) ==
    disturbed' = [d \in Clients |-> IF d = c THEN FALSE ELSE disturbed[d] \/ pending[d] # NULL]

\* A memory the emulator does not have leaves the target of an earlier write.
Mut_Target(r) == IF memory_to_write = NULL THEN Pointer(r.mem) ELSE memory_to_write  \* mutant: stays
Target(r) == IF r.mem \in Mems THEN Pointer(r.mem) ELSE memory_to_write

Mut_NoneWritten == size_written                \* mutant: keeps its value
NoneWritten == 0

\* Only the first range counts, and its size when it is the last argument and in
\* decimal; without one, a block of any size may follow.
dummy_core_memory_write(c, r) ==
    /\ Idle(c)
    /\ r.args > 0
    /\ memory_to_write' = Target(r)
    /\ offset_to_write' \in IF r.args = 1 THEN Offsets ELSE {r.offset}
    /\ size_to_write' = IF r.args = 3 THEN r.told ELSE 0
    /\ size_written' = NoneWritten
    /\ pending' = [pending EXCEPT ![c] = r]
    /\ Disturb(c)
    /\ UNCHANGED <<loaded, dummy_state, size_header_get, copied, last, fate>>

\* Without a memory, or with an offset read from anywhere.
CommandCrash(c, r) == Idle(c) /\ r.args < 2 /\ Die(c, r)

-----------------------------------------------------------------------------
(* write_to_memory: the block of client c has arrived whole.  Although the *)
(* event loop has taken the header off, the function takes the first bytes *)
(* of the data for a size unless an unfinished write got one before.       *)

Skipped   == IF size_header_get THEN 0 ELSE Prefix
Copied(c) == pending[c].size - Skipped

Mut_Addresses(c) ==          \* mutant: the size before the header was taken off
    {memory_to_write} \X (offset_to_write + Skipped .. offset_to_write + pending[c].size)

Addresses(c) == {memory_to_write} \X (offset_to_write .. offset_to_write + Copied(c) - 1)

\* A block shorter than the supposed header makes the unsigned size wrap around
\* to almost 2^32; a null target is copied to.  Both end the process.
Faults(c) ==
    \/ pending[c].size < Skipped
    \/ pending[c].size > Skipped /\ memory_to_write = NULL

Block(c) ==
    /\ ~crashed
    /\ pending[c] # NULL
    /\ pending' = [pending EXCEPT ![c] = NULL]
    /\ Disturb(c)
    /\ UNCHANGED <<loaded, dummy_state>>

Crash(c) ==
    /\ ~crashed /\ pending[c] # NULL
    /\ Faults(c) \/ Overruns(offset_to_write, Copied(c))
    /\ Die(c, pending[c])

\* The size a block is measured against, where its first bytes spell h.
Goal(h) == IF size_header_get THEN size_to_write ELSE h

Copy(c) ==
    /\ Block(c)
    /\ ~Faults(c)
    /\ wrote' = IF Copied(c) = 0 THEN {} ELSE Addresses(c)
    /\ asked' = [by |-> c, write |-> pending[c], apart |-> ~disturbed[c]]
    /\ UNCHANGED fate

\* Something is missing from what the supposed header announced: no reply.
BlockUnfinished(c) ==
    /\ Copy(c)
    /\ \E h \in Spelled :
         /\ Copied(c) = 0 \/ size_written + Copied(c) # Goal(h)
         /\ size_to_write' = Goal(h)
    /\ size_written' = size_written + Copied(c)
    /\ size_header_get' = TRUE
    /\ last' = [last EXCEPT ![c] = "silent_write"]
    /\ UNCHANGED <<memory_to_write, offset_to_write>>

\* All of it has been copied: the globals are reset and the client gets its reply.
BlockFinished(c) ==
    /\ Copy(c)
    /\ Copied(c) > 0
    /\ \E h \in Spelled : size_written + Copied(c) = Goal(h)
    /\ memory_to_write' = NULL
    /\ offset_to_write' = 0
    /\ size_to_write' = 0
    /\ size_written' = 0
    /\ size_header_get' = FALSE
    /\ last' = [last EXCEPT ![c] = "answered"]

\* The client of a pending write goes away before its block: the globals stay.
Leave(c) ==
    /\ ~crashed
    /\ pending[c] # NULL
    /\ pending' = [pending EXCEPT ![c] = NULL]
    /\ disturbed' = [disturbed EXCEPT ![c] = FALSE]
    /\ UNCHANGED <<globals, dummy_state, copied, last, fate>>

Next ==
    \E c \in Clients :
       \/ dummy_emu_info(c) \/ dummy_emu_status(c)
       \/ dummy_emu_pause(c) \/ dummy_emu_stop(c) \/ dummy_emu_resume(c)
       \/ dummy_emu_reset(c) \/ dummy_emu_reload(c) \/ dummy_game_info(c)
       \/ dummy_core_load(c) \/ dummy_core_memories(c) \/ dummy_np(c)
       \/ \E r \in Reads : dummy_core_memory_read(c, r)
       \/ \E r \in Writes : dummy_core_memory_write(c, r) \/ CommandCrash(c, r)
       \/ Crash(c) \/ BlockUnfinished(c) \/ BlockFinished(c)
       \/ Leave(c)

Spec == Init /\ [][Next]_vars

-----------------------------------------------------------------------------
(* Properties                                                              *)

NamesOneRange(r) == r.mem \in Mems /\ r.args \in 2 .. 3

\* A write of one range no other client's write interfered with copies inside that
\* range, however earlier writes were left: the globals it uses are its own.
WriteStaysInRequest ==
    asked # NULL /\ asked.apart /\ NamesOneRange(asked.write) =>
      wrote \subseteq {asked.write.mem}
                        \X (asked.write.offset .. asked.write.offset + asked.write.size - 1)

\* Nor does such a write find its target gone, which only the end of another
\* client's write takes away.
ApartHasTarget ==
    \A c \in Clients :
       pending[c] # NULL /\ pending[c].mem \in loaded /\ ~disturbed[c]
         => memory_to_write = pending[c].mem

\* No request kills the emulator that is complete, names a memory the savestate
\* brought, stays inside it and has no other client's write in its middle, unless it
\* is a write shorter than the supposed header.
CrashForCause ==
    crashed => LET r == blame.request IN
       \/ r.args < 3 \/ r.mem \notin loaded \/ Overruns(r.offset, r.size)
       \/ ~blame.apart
       \/ r \in Writes /\ r.size < Prefix

\* The write after an unfinished one, if it gives its size in decimal, is finished,
\* whoever left the first behind: its size is measured anew, and its first bytes are
\* not taken for a header.
SecondWriteAnswered ==
    [][\A c \in Clients :
          /\ pending[c] # NULL /\ pending[c].args = 3 /\ pending[c].told # 0
          /\ ~disturbed[c] /\ size_header_get
          => ~BlockUnfinished(c)]_vars

\* What the validator expects of a bCORE_WRITE: its block, once processed, is
\* answered.
WritesAnswered == \A c \in Clients : last[c] # "silent_write"

=============================================================================
