------------------------- MODULE DummyEmulatorProofs -------------------------
(***************************************************************************)
(* The handlers of the dummy emulator for every number of clients, every   *)
(* set of memories and requests and every length of the supposed header.   *)
(* One idea carries all of it: of the writes that wait for their block, at *)
(* most one has had nobody in between, and the globals are that one's.     *)
(***************************************************************************)
EXTENDS DummyEmulator, FiniteSetTheorems, TLAPS

Waiting == {c \in Clients : pending[c] # NULL}

\* The globals are those of write r, as its command has left them.
IsSet(r) ==
    /\ r.mem \in Mems => memory_to_write = Pointer(r.mem)
    /\ r.args > 1 => offset_to_write = r.offset
    /\ r.args = 3 => size_to_write = r.told
    /\ size_written = 0

ApartIsSet == \A c \in Waiting : ~disturbed[c] => IsSet(pending[c])

\* Every client waiting for its block may still add one to what is written.
RoomForBlocks == size_written <= (Cardinality(Clients) - Cardinality(Waiting)) * MaxSize

AskedType == asked # NULL => asked.write \in Writes

IInv ==
    /\ TypeOK
    /\ RoomForBlocks
    /\ ApartIsSet
    /\ AskedType
    /\ WriteStaysInRequest
    /\ CrashForCause

-----------------------------------------------------------------------------
(* Who waits for a block                                                   *)

LEMMA WaitingFits ==
    /\ IsFiniteSet(Waiting) /\ Cardinality(Waiting) \in 0 .. Cardinality(Clients)
    /\ Cardinality(Clients) \in Nat
<1>1. Waiting \subseteq Clients
  BY DEF Waiting
<1> QED BY <1>1, ClientsAssumption, FS_Subset, FS_CardinalityType

\* A command makes one more client wait, a block and a leave one less.
LEMMA WaitingGrows ==
    ASSUME TypeOK, NEW c \in Clients, NEW r \in Writes, pending[c] = NULL,
           pending' = [pending EXCEPT ![c] = r]
    PROVE  Waiting' = Waiting \cup {c}
BY NullAssumption DEF Waiting, TypeOK

LEMMA WaitingShrinks ==
    ASSUME TypeOK, NEW c \in Waiting, pending' = [pending EXCEPT ![c] = NULL]
    PROVE  /\ Waiting' = Waiting \ {c}
           /\ Cardinality(Waiting') = Cardinality(Waiting) - 1
           /\ Cardinality(Waiting') \in Nat
<1>1. Waiting' = Waiting \ {c}
  BY DEF Waiting, TypeOK
<1>2. IsFiniteSet(Waiting) /\ IsFiniteSet(Waiting \ {c})
  BY WaitingFits, FS_RemoveElement
<1> QED BY <1>1, <1>2, FS_RemoveElement, FS_CardinalityType

-----------------------------------------------------------------------------
(* The block of a write that nobody interfered with                        *)

\* The process dies of a request with a fault, or one somebody interfered with.
LEMMA DieForCause ==
    ASSUME NEW c, NEW r, Die(c, r),
           \/ r.args < 3 \/ r.mem \notin loaded \/ Overruns(r.offset, r.size)
           \/ disturbed[c]
           \/ r \in Writes /\ r.size < Prefix
    PROVE  CrashForCause'
<1>1. blame'.request = r /\ (blame'.apart <=> ~disturbed[c]) /\ loaded' = loaded
  BY DEF Die, globals
<1> QED BY <1>1 DEF CrashForCause, Overruns

LEMMA RequestFields ==
    ASSUME NEW r \in Writes
    PROVE  /\ r.offset \in Nat /\ r.size \in Nat /\ r.args \in Nat
           /\ r.told \in 0 .. r.size
           /\ r.args = 3 => r.told \in {0, r.size}
           /\ r.size <= MaxSize /\ r # NULL
BY RequestsAssumption, MaxSizeAssumption, NullAssumption

\* What is copied of a block is part of it.
LEMMA CopiedFits ==
    ASSUME TypeOK, NEW c \in Waiting, ~Faults(c)
    PROVE  /\ Copied(c) \in 0 .. pending[c].size
           /\ pending[c] \in Writes
           /\ Copied(c) > 0 => memory_to_write # NULL
<1>1. pending[c] \in Writes
  BY DEF Waiting, TypeOK
<1>2. pending[c].size \in Nat /\ Skipped \in Nat
  BY <1>1, RequestFields, PrefixAssumption DEF Skipped
<1> QED BY <1>1, <1>2 DEF Copied, Faults

LEMMA CopyStaysInRequest ==
    ASSUME IInv, NEW c \in Clients, Copy(c)
    PROVE  WriteStaysInRequest' /\ AskedType'
<1>1. c \in Waiting /\ pending[c] \in Writes /\ ~Faults(c)
  BY DEF Copy, Block, Waiting, IInv, TypeOK
<1>2. /\ asked' = [by |-> c, write |-> pending[c], apart |-> ~disturbed[c]]
      /\ wrote' = IF Copied(c) = 0 THEN {} ELSE Addresses(c)
  BY DEF Copy
<1> DEFINE r == pending[c]
<1>3. r.offset \in Nat /\ r.size \in Nat /\ Copied(c) \in 0 .. r.size
  BY <1>1, CopiedFits, RequestFields DEF IInv
<1>4. AskedType'
  BY <1>1, <1>2 DEF AskedType
<1>5. ASSUME ~disturbed[c], NamesOneRange(r)
      PROVE  wrote' \subseteq {r.mem} \X (r.offset .. r.offset + r.size - 1)
  <2>1. IsSet(r) /\ r.mem \in Mems /\ r.args > 1
    BY <1>1, <1>5 DEF IInv, ApartIsSet, NamesOneRange
  <2>2. CASE Copied(c) = 0
    BY <1>2, <2>2
  <2>3. CASE Copied(c) > 0
    <3>1. memory_to_write = r.mem /\ offset_to_write = r.offset
      BY <1>1, <2>1, <2>3, CopiedFits DEF IsSet, Pointer, IInv
    <3>2. wrote' = {r.mem} \X (r.offset .. r.offset + Copied(c) - 1)
      BY <1>2, <2>3, <3>1 DEF Addresses
    <3>3. r.offset .. r.offset + Copied(c) - 1 \subseteq r.offset .. r.offset + r.size - 1
      BY <1>3
    <3> QED BY <3>2, <3>3
  <2> QED BY <1>3, <2>2, <2>3
<1>6. WriteStaysInRequest'
  BY <1>2, <1>5 DEF WriteStaysInRequest
<1> QED BY <1>4, <1>6

\* A write with all its arguments, to a memory that is there and inside it, dies
\* of its block only when that is shorter than the supposed header.
LEMMA CrashHasCause ==
    ASSUME IInv, NEW c \in Clients, Crash(c)
    PROVE  CrashForCause'
<1>1. c \in Waiting /\ pending[c] \in Writes
  BY DEF Crash, Waiting, IInv, TypeOK
<1> DEFINE r == pending[c]
<1>2. Die(c, r)
  BY DEF Crash
<1>3. r.offset \in Nat /\ r.size \in Nat /\ r.args \in Nat
  BY <1>1, RequestFields
<1> SUFFICES ASSUME r.args >= 3, r.mem \in loaded, ~Overruns(r.offset, r.size),
                    ~disturbed[c], r.size >= Prefix
             PROVE  FALSE
  BY <1>1, <1>2, <1>3, PrefixAssumption, DieForCause
<1>4. IsSet(r) /\ r.mem \in Mems /\ r.mem # NULL
  BY <1>1, NullAssumption DEF IInv, ApartIsSet, TypeOK
<1>5. memory_to_write = r.mem /\ offset_to_write = r.offset
  BY <1>3, <1>4 DEF IsSet, Pointer
<1>6. ~Faults(c)
  BY <1>3, <1>4, <1>5, PrefixAssumption DEF Faults, Skipped
<1>7. Copied(c) <= r.size /\ Copied(c) \in Int
  BY <1>1, <1>3, <1>6, CopiedFits DEF IInv
<1>8. ~Overruns(offset_to_write, Copied(c))
  BY <1>3, <1>5, <1>7, MaxSizeAssumption DEF Overruns
<1> QED BY <1>6, <1>8 DEF Crash

-----------------------------------------------------------------------------
(* The inductive step                                                      *)

LEMMA InitIInv == Init => IInv
<1> SUFFICES ASSUME Init PROVE IInv
  OBVIOUS
<1>0. 0 \in 0 .. Cardinality(Clients) * MaxSize
  BY WaitingFits, MaxSizeAssumption
<1>1. TypeOK
  <2>1. loaded \subseteq Mems
    BY NullAssumption DEF Init, prep_memory, snes9x_152_savestate_get_ram_wram
  <2>2. 0 \in Offsets /\ 0 \in 0 .. MaxSize
    BY MaxSizeAssumption DEF Offsets
  <2> QED BY <1>0, <2>1, <2>2 DEF Init, TypeOK
<1>2. Waiting = {}
  BY DEF Init, Waiting
<1>3. RoomForBlocks
  BY <1>2, WaitingFits, FS_EmptySet, MaxSizeAssumption DEF Init, RoomForBlocks
<1> QED BY <1>1, <1>2, <1>3
        DEF Init, IInv, ApartIsSet, AskedType, WriteStaysInRequest, CrashForCause

\* A step after which nobody waits that did not, and the globals are as they were.
LEMMA QuietStep ==
    ASSUME IInv, TypeOK', UNCHANGED <<globals, copied, fate, pending, disturbed>>
    PROVE  IInv'
<1> USE DEF globals, target, copied, fate
<1>1. Waiting' = Waiting
  BY DEF Waiting
<1>2. RoomForBlocks'
  BY <1>1 DEF IInv, RoomForBlocks
<1>3. ApartIsSet'
  BY <1>1 DEF IInv, ApartIsSet, IsSet, Pointer
<1>4. AskedType' /\ WriteStaysInRequest' /\ CrashForCause'
  BY DEF IInv, AskedType, WriteStaysInRequest, CrashForCause, Overruns
<1> QED BY <1>2, <1>3, <1>4 DEF IInv

LEMMA DieStep ==
    ASSUME IInv, NEW c \in Clients, NEW r, Die(c, r), CrashForCause'
    PROVE  IInv'
<1> USE DEF globals, target, copied, Die
<1>1. TypeOK'
  BY DEF IInv, TypeOK
<1>2. Waiting' = Waiting
  BY DEF Waiting
<1>3. RoomForBlocks'
  BY <1>2 DEF IInv, RoomForBlocks
<1>4. ApartIsSet'
  BY <1>2 DEF IInv, ApartIsSet, IsSet, Pointer
<1>5. AskedType' /\ WriteStaysInRequest'
  BY DEF IInv, AskedType, WriteStaysInRequest
<1> QED BY <1>1, <1>3, <1>4, <1>5 DEF IInv

LEMMA WriteStep ==
    ASSUME IInv, NEW c \in Clients, NEW r \in Writes, dummy_core_memory_write(c, r)
    PROVE  IInv'
<1> USE DEF dummy_core_memory_write, copied, fate
<1>1. /\ r.offset \in Nat /\ r.args \in Nat /\ r.told \in 0 .. MaxSize
      /\ pending[c] = NULL
  BY RequestFields, MaxSizeAssumption DEF Idle
<1>2. Waiting' = Waiting \cup {c}
  BY <1>1, WaitingGrows DEF IInv
<1>3. TypeOK'
  <2>1. offset_to_write' \in Offsets
    BY DEF Offsets
  <2>2. memory_to_write' \in loaded \cup {NULL}
    BY DEF IInv, TypeOK, Target, Pointer
  <2>3. size_written' \in 0 .. Cardinality(Clients) * MaxSize /\ size_to_write' \in 0 .. MaxSize
    BY <1>1, WaitingFits, MaxSizeAssumption DEF NoneWritten
  <2>4. disturbed' \in [Clients -> BOOLEAN]
    BY DEF Disturb, IInv, TypeOK
  <2> QED BY <2>1, <2>2, <2>3, <2>4 DEF IInv, TypeOK
<1>4. RoomForBlocks'
  <2>1. Cardinality(Waiting') \in 0 .. Cardinality(Clients)
    <3>1. Waiting' \subseteq Clients
      BY DEF Waiting
    <3> QED BY <3>1, ClientsAssumption, FS_Subset, FS_CardinalityType
  <2> QED BY <2>1, WaitingFits, MaxSizeAssumption DEF RoomForBlocks, NoneWritten
<1>5. ApartIsSet'
  <2> SUFFICES ASSUME NEW d \in Waiting', ~disturbed'[d]
               PROVE  IsSet(pending[d])'
    BY DEF ApartIsSet
  <2>1. d = c
    BY <1>2 DEF Disturb, Waiting
  <2>2. pending'[c] = r
    BY DEF IInv, TypeOK
  <2>3. offset_to_write' = r.offset \/ r.args = 1
    OBVIOUS
  <2> QED BY <1>1, <2>1, <2>2, <2>3 DEF IsSet, Target, Pointer, NoneWritten
<1>6. AskedType' /\ WriteStaysInRequest' /\ CrashForCause'
  BY DEF IInv, AskedType, WriteStaysInRequest, CrashForCause, Overruns
<1> QED BY <1>3, <1>4, <1>5, <1>6 DEF IInv

\* After a block all others that wait have had somebody in between.
LEMMA BlockStep ==
    ASSUME IInv, NEW c \in Clients, BlockUnfinished(c) \/ BlockFinished(c)
    PROVE  IInv'
<1>1. Copy(c) /\ ~Faults(c) /\ c \in Waiting /\ c \in Clients /\ ~crashed /\ UNCHANGED fate
  BY DEF BlockUnfinished, BlockFinished, Copy, Block, Waiting
<1>2. /\ pending' = [pending EXCEPT ![c] = NULL]
      /\ Disturb(c)
      /\ UNCHANGED <<loaded, dummy_state>>
  BY <1>1 DEF Copy, Block
<1>3. /\ Copied(c) \in 0 .. MaxSize
      /\ pending[c] \in Writes
  <2>1. pending[c] \in Writes /\ Copied(c) \in 0 .. pending[c].size
    BY <1>1, CopiedFits DEF IInv
  <2> QED BY <2>1, RequestFields, MaxSizeAssumption
<1>4. /\ Cardinality(Waiting') = Cardinality(Waiting) - 1 /\ Cardinality(Waiting') \in Nat
      /\ Waiting' = Waiting \ {c}
  BY <1>1, <1>2, WaitingShrinks DEF IInv
<1>5. RoomForBlocks' /\ size_written' \in Nat
  <2> DEFINE n == Cardinality(Clients) - Cardinality(Waiting)
  <2>1. n \in Nat /\ Cardinality(Clients)' - Cardinality(Waiting)' = n + 1
    BY <1>4, WaitingFits
  <2>2. (n + 1) * MaxSize = n * MaxSize + MaxSize /\ n * MaxSize \in Nat
    BY <2>1, MaxSizeAssumption
  <2>3. size_written' = size_written + Copied(c) \/ size_written' = 0
    BY DEF BlockUnfinished, BlockFinished
  <2>4. size_written \in Nat /\ size_written <= n * MaxSize
    BY WaitingFits, MaxSizeAssumption DEF IInv, TypeOK, RoomForBlocks
  <2>5. size_written' \in Nat /\ size_written' <= (n + 1) * MaxSize
    BY <1>3, <2>1, <2>2, <2>3, <2>4, MaxSizeAssumption
  <2> QED BY <2>1, <2>5 DEF RoomForBlocks
<1>6. TypeOK'
  <2>1. size_written' \in 0 .. Cardinality(Clients) * MaxSize
    <3> DEFINE m == Cardinality(Waiting)'
               k == Cardinality(Clients)
    <3>1. m \in Nat /\ k \in Nat /\ k - m \in Nat
      BY <1>4, WaitingFits
    <3>2. (k - m) * MaxSize <= k * MaxSize
      BY <3>1, MaxSizeAssumption
    <3>3. (k - m) * MaxSize \in Nat /\ k * MaxSize \in Nat
      BY <3>1, MaxSizeAssumption
    <3> HIDE DEF m, k
    <3> QED BY <1>5, <3>2, <3>3 DEF RoomForBlocks, m, k
  <2>2. size_to_write' \in 0 .. MaxSize
    BY MaxSizeAssumption DEF BlockUnfinished, BlockFinished, Goal, IInv, TypeOK
  <2>3. pending' \in [Clients -> Writes \cup {NULL}] /\ disturbed' \in [Clients -> BOOLEAN]
    BY <1>2 DEF Disturb, IInv, TypeOK
  <2>4. /\ memory_to_write' \in loaded' \cup {NULL} /\ offset_to_write' \in Offsets
        /\ size_header_get' \in BOOLEAN
        /\ last' \in [Clients -> {"none", "answered", "silent", "silent_write"}]
    BY <1>2 DEF BlockUnfinished, BlockFinished, IInv, TypeOK, Offsets
  <2> QED BY <1>1, <1>2, <2>1, <2>2, <2>3, <2>4 DEF IInv, TypeOK, fate
<1>7. ApartIsSet'
  BY <1>2, <1>4 DEF ApartIsSet, Disturb, Waiting
<1>8. CrashForCause'
  BY <1>1 DEF CrashForCause, fate
<1> QED BY <1>1, <1>5, <1>6, <1>7, <1>8, CopyStaysInRequest DEF IInv

LEMMA LeaveStep ==
    ASSUME IInv, NEW c \in Clients, Leave(c)
    PROVE  IInv'
<1> USE DEF Leave, globals, target, copied, fate
<1>1. c \in Waiting
  BY DEF Waiting
<1>2. Waiting' = Waiting \ {c} /\ Cardinality(Waiting') = Cardinality(Waiting) - 1
  BY <1>1, WaitingShrinks DEF IInv
<1>3. TypeOK'
  BY DEF IInv, TypeOK
<1>4. RoomForBlocks'
  <2> DEFINE n == Cardinality(Clients) - Cardinality(Waiting)
  <2>1. n \in Nat /\ Cardinality(Clients)' - Cardinality(Waiting)' = n + 1
    BY <1>2, WaitingFits
  <2>2. (n + 1) * MaxSize = n * MaxSize + MaxSize /\ n * MaxSize \in Nat
    BY <2>1, MaxSizeAssumption
  <2>3. size_written' \in Nat /\ size_written' <= n * MaxSize
    BY WaitingFits, MaxSizeAssumption DEF IInv, TypeOK, RoomForBlocks
  <2>4. size_written' <= (n + 1) * MaxSize
    BY <2>2, <2>3, MaxSizeAssumption
  <2> QED BY <2>1, <2>4 DEF RoomForBlocks
<1>5. ApartIsSet'
  BY <1>2 DEF IInv, TypeOK, ApartIsSet, IsSet, Pointer, Waiting
<1>6. AskedType' /\ WriteStaysInRequest' /\ CrashForCause'
  BY DEF IInv, AskedType, WriteStaysInRequest, CrashForCause, Overruns
<1> QED BY <1>3, <1>4, <1>5, <1>6 DEF IInv

LEMMA StepIInv == IInv /\ [Next]_vars => IInv'
<1> SUFFICES ASSUME IInv, [Next]_vars PROVE IInv'
  OBVIOUS
<1>1. ASSUME NEW c \in Clients,
             \/ dummy_emu_info(c) \/ dummy_emu_status(c)
             \/ dummy_emu_pause(c) \/ dummy_emu_stop(c) \/ dummy_emu_resume(c)
             \/ dummy_emu_reset(c) \/ dummy_emu_reload(c) \/ dummy_game_info(c)
             \/ dummy_core_load(c) \/ dummy_core_memories(c) \/ dummy_np(c)
      PROVE  IInv'
  <2>1. UNCHANGED <<globals, copied, fate, pending, disturbed>>
    BY <1>1 DEF dummy_emu_info, dummy_emu_status, dummy_emu_pause, dummy_emu_stop,
                dummy_emu_resume, dummy_emu_reset, dummy_emu_reload, dummy_game_info,
                dummy_core_load, dummy_core_memories, dummy_np, Silent, Answer, SetState, Done
  <2>2. /\ dummy_state' \in {"RUNNING", "PAUSED", "STOPPED"}
        /\ last' \in [Clients -> {"none", "answered", "silent", "silent_write"}]
    BY <1>1 DEF dummy_emu_info, dummy_emu_status, dummy_emu_pause, dummy_emu_stop,
                dummy_emu_resume, dummy_emu_reset, dummy_emu_reload, dummy_game_info,
                dummy_core_load, dummy_core_memories, dummy_np, Silent, Answer, SetState, Done,
                IInv, TypeOK
  <2>3. TypeOK'
    BY <2>1, <2>2 DEF IInv, TypeOK, globals, target, fate
  <2> QED BY <2>1, <2>3, QuietStep
<1>2. ASSUME NEW c \in Clients, NEW r \in Reads, dummy_core_memory_read(c, r)
      PROVE  IInv'
  <2>1. CASE Answer(c)
    <3>1. UNCHANGED <<globals, copied, fate, pending, disturbed>> /\ TypeOK'
      BY <2>1 DEF Answer, Done, globals, target, fate, IInv, TypeOK
    <3> QED BY <3>1, QuietStep
  <2>2. CASE /\ r.args < 3 \/ Pointer(r.mem) = NULL \/ Overruns(r.offset, r.told)
             /\ Die(c, r)
    <3>1. Overruns(r.offset, r.told) => Overruns(r.offset, r.size)
      BY RequestsAssumption, MaxSizeAssumption DEF Overruns
    <3>2. CrashForCause'
      BY <2>2, <3>1, DieForCause, NullAssumption DEF Pointer, IInv, TypeOK
    <3> QED BY <2>2, <3>2, DieStep
  <2> QED BY <1>2, <2>1, <2>2 DEF dummy_core_memory_read
<1>3. ASSUME NEW c \in Clients, NEW r \in Writes, dummy_core_memory_write(c, r)
      PROVE  IInv'
  BY <1>3, WriteStep
<1>4. ASSUME NEW c \in Clients, NEW r \in Writes, CommandCrash(c, r)
      PROVE  IInv'
  <2>1. CrashForCause'
    BY <1>4, RequestFields, DieForCause DEF CommandCrash
  <2> QED BY <1>4, <2>1, DieStep DEF CommandCrash
<1>5. ASSUME NEW c \in Clients, Crash(c)
      PROVE  IInv'
  BY <1>5, CrashHasCause, DieStep DEF Crash
<1>6. ASSUME NEW c \in Clients, BlockUnfinished(c) \/ BlockFinished(c)
      PROVE  IInv'
  BY <1>6, BlockStep
<1>7. ASSUME NEW c \in Clients, Leave(c)
      PROVE  IInv'
  BY <1>7, LeaveStep
<1>8. CASE UNCHANGED vars
  <2>1. TypeOK'
    BY <1>8 DEF vars, globals, target, fate, IInv, TypeOK
  <2> QED BY <1>8, <2>1, QuietStep DEF vars
<1> QED BY <1>1, <1>2, <1>3, <1>4, <1>5, <1>6, <1>7, <1>8 DEF Next

-----------------------------------------------------------------------------
(* The theorems                                                            *)

LEMMA IInvHolds == Spec => []IInv
BY InitIInv, StepIInv, PTL DEF Spec

\* No index or size leaves its range, and size_written no more than one block of
\* each client.
THEOREM TypeCorrect == Spec => []TypeOK
<1>1. IInv => TypeOK
  BY DEF IInv
<1> QED BY IInvHolds, <1>1, PTL

\* A write nobody interfered with stays in the range it named.
THEOREM WritesStayInRange == Spec => []WriteStaysInRequest
<1>1. IInv => WriteStaysInRequest
  BY DEF IInv
<1> QED BY IInvHolds, <1>1, PTL

\* Nor does it find its target gone.
THEOREM WritesFindTarget == Spec => []ApartHasTarget
<1>1. IInv => ApartHasTarget
  BY DEF IInv, TypeOK, ApartIsSet, ApartHasTarget, Waiting, IsSet, Pointer
<1> QED BY IInvHolds, <1>1, PTL

\* The process dies of no request that has no fault of its own.
THEOREM OnlyFaultsKill == Spec => []CrashForCause
<1>1. IInv => CrashForCause
  BY DEF IInv
<1> QED BY IInvHolds, <1>1, PTL

\* The write after an unfinished one is finished, if its size is in decimal.
THEOREM SecondWriteFinishes == Spec => SecondWriteAnswered
<1>1. ASSUME IInv, NEW c \in Clients, pending[c] # NULL, pending[c].args = 3,
             pending[c].told # 0, ~disturbed[c], size_header_get
      PROVE  ~BlockUnfinished(c)
  <2>1. IsSet(pending[c]) /\ pending[c] \in Writes
    BY <1>1 DEF IInv, TypeOK, ApartIsSet, Waiting
  <2>2. /\ pending[c].told = pending[c].size
        /\ Copied(c) = pending[c].size /\ pending[c].size \in Nat \ {0}
    BY <1>1, <2>1, RequestFields DEF Copied, Skipped
  <2>3. \A h : size_written + Copied(c) = Goal(h)
    BY <1>1, <2>1, <2>2 DEF IsSet, Goal
  <2> QED BY <2>2, <2>3 DEF BlockUnfinished
<1>2. IInv => \A c \in Clients :
                 /\ pending[c] # NULL /\ pending[c].args = 3 /\ pending[c].told # 0
                 /\ ~disturbed[c] /\ size_header_get
                 => ~BlockUnfinished(c)
  BY <1>1
<1> QED BY IInvHolds, <1>2, PTL DEF SecondWriteAnswered

=============================================================================
