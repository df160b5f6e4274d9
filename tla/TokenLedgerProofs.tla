-------------------------- MODULE TokenLedgerProofs --------------------------
(***************************************************************************)
(* Proofs about the token ledger and the frame allocator, for every number *)
(* of frames, slots, CPUs, owners and mappings: types and counters, custody *)
(* of the frames, stale tokens, and the map gate, where a mapping pins its *)
(* token and shows its owner nobody else's bytes.                          *)
(***************************************************************************)
EXTENDS TokenLedger, FiniteSetTheorems, TLAPS

-----------------------------------------------------------------------------
(* Frames and their cardinalities.                                         *)

\* A range of n numbers is finite and has n members.
LEMMA Interval ==
    ASSUME NEW a \in Int, NEW n \in Nat
    PROVE  IsFiniteSet(a .. (a + n - 1)) /\ Cardinality(a .. (a + n - 1)) = n
<1> DEFINE b == a + n - 1
<1>1. b \in Int
  OBVIOUS
<1> HIDE DEF b
<1>2. IsFiniteSet(a .. b) /\ Cardinality(a .. b) = IF a > b THEN 0 ELSE b - a + 1
  BY <1>1, FS_Interval
<1>3. (IF a > b THEN 0 ELSE b - a + 1) = n
  BY DEF b
<1> QED
  BY <1>2, <1>3 DEF b

\* Any set of frames is finite and no larger than the memory.
LEMMA FrameSets ==
    ASSUME NEW S \in SUBSET Frames
    PROVE  IsFiniteSet(S) /\ Cardinality(S) \in 0 .. TotalFrames
<1>1. IsFiniteSet(Frames) /\ Cardinality(Frames) = TotalFrames
  <2>1. Frames = 0 .. (0 + TotalFrames - 1)
    BY PhysicalAssumption DEF Frames
  <2>2. 0 \in Int /\ TotalFrames \in Nat
    BY PhysicalAssumption
  <2> QED
    BY <2>1, <2>2, Interval, Zenon
<1>2. IsFiniteSet(S) /\ Cardinality(S) <= Cardinality(Frames)
  BY <1>1, FS_Subset
<1> QED
  BY <1>1, <1>2, FS_CardinalityType, PhysicalAssumption

\* What boot declares free lies in the bitmap and never holds frame 0.
LEMMA BootFreeInFrames == BootFree \subseteq Frames /\ 0 \notin BootFree
<1>1. BootFree \subseteq Frames
  BY DEF BootFree, MapFree, Clipped
<1>2. 0 \in Clipped(0, LowFrames)
  BY PhysicalAssumption DEF Clipped, Span, Frames
<1> QED
  BY <1>1, <1>2 DEF BootFree

\* Taking n free frames in a row lowers the number of free frames by n.
LEMMA TakeCount ==
    ASSUME bits \subseteq Frames, NEW s \in Frames, NEW n \in Nat,
           Span(s, n) \subseteq bits
    PROVE  /\ n \in 0 .. TotalFrames
           /\ n <= Cardinality(bits)
           /\ bits \ Span(s, n) \subseteq Frames
           /\ Cardinality(bits \ Span(s, n)) = Cardinality(bits) - n
<1> DEFINE R == bits \ Span(s, n)
<1>1. IsFiniteSet(Span(s, n)) /\ Cardinality(Span(s, n)) = n
  <2>1. s \in Int
    BY DEF Frames
  <2> QED
    BY <2>1, Interval, Zenon DEF Span
<1>2. /\ IsFiniteSet(R) /\ IsFiniteSet(bits)
      /\ Cardinality(R) \in 0 .. TotalFrames /\ Cardinality(bits) \in 0 .. TotalFrames
  BY FrameSets
<1>3. R \cup Span(s, n) = bits /\ R \cap Span(s, n) = {}
  OBVIOUS
<1>4. Cardinality(bits) = Cardinality(R) + n - Cardinality({})
  BY <1>1, <1>2, <1>3, FS_Union
<1> QED
  BY <1>2, <1>4, FS_EmptySet, PhysicalAssumption

\* Giving frames back raises it by the frames that were not free.
LEMMA GiveCount ==
    ASSUME bits \subseteq Frames, NEW T \in SUBSET Frames, T \cap bits = {}
    PROVE  /\ Cardinality(T) \in Nat
           /\ Cardinality(bits \cup T) = Cardinality(bits) + Cardinality(T)
           /\ Cardinality(bits \cup T) \in 0 .. TotalFrames
<1>1. /\ IsFiniteSet(T) /\ IsFiniteSet(bits)
      /\ Cardinality(T) \in 0 .. TotalFrames /\ Cardinality(bits) \in 0 .. TotalFrames
      /\ Cardinality(bits \cup T) \in 0 .. TotalFrames
  BY FrameSets
<1>2. Cardinality(bits \cup T) = Cardinality(bits) + Cardinality(T) - Cardinality({})
  BY <1>1, FS_Union
<1> QED
  BY <1>1, <1>2, FS_EmptySet, PhysicalAssumption

-----------------------------------------------------------------------------
(* Type correctness.  The counters stay in range only because they count   *)
(* what they should, so the two are proved together.                       *)

LiveSlots == {s \in Slots : table[s].live}

Typed == TypeOK /\ CountersExact

\* Any set of slots is finite and no larger than the table.
LEMMA SlotSets ==
    ASSUME NEW S \in SUBSET Slots
    PROVE  IsFiniteSet(S) /\ Cardinality(S) \in 0 .. NSlots
<1>1. IsFiniteSet(Slots) /\ Cardinality(Slots) = NSlots
  <2>1. Slots = 0 .. (0 + NSlots - 1)
    BY LedgerAssumption DEF Slots
  <2>2. 0 \in Int /\ NSlots \in Nat
    BY LedgerAssumption
  <2> QED
    BY <2>1, <2>2, Interval, Zenon
<1>2. IsFiniteSet(S) /\ Cardinality(S) <= Cardinality(Slots)
  BY <1>1, FS_Subset
<1> QED
  BY <1>1, <1>2, FS_CardinalityType, LedgerAssumption

\* The sets and numbers the constants give.
LEMMA ConstantTypes ==
    /\ 0 \in Frames /\ 0 \in Slots /\ 1 \in Gens
    /\ TotalFrames \in Nat /\ NSlots \in Nat /\ GenMod \in Nat /\ MaxMap \in Nat
    /\ HugeFrames \in Nat
BY PhysicalAssumption, LedgerAssumption DEF Frames, Slots, Gens

\* phys_init_from_handoff and xtok_init start well typed, with exact counters.
LEMMA TypedInit == Init => Typed
<1> SUFFICES ASSUME Init PROVE Typed
  OBVIOUS
<1> USE ConstantTypes DEF Init
<1>1. PhysTypeOK /\ free_frames = Cardinality(bits)
      /\ used_frames = TotalFrames - free_frames
  BY BootFreeInFrames, FrameSets DEF phys_init_from_handoff, PhysTypeOK
<1>2. table \in [Slots -> Entries]
  BY DEF xtok_init, FreeEntry, Entries
<1>3. g_live = 0 /\ g_next_hint \in Slots /\ LiveSlots = {}
  BY DEF xtok_init, FreeEntry, LiveSlots
<1>4. g_live = Cardinality(LiveSlots) /\ g_live \in 0 .. NSlots
  BY <1>3, FS_EmptySet
<1>5. op \in [CPUs -> Calls] /\ maps \in [MapIds -> MapRecords]
  BY DEF Idle, NoMap, Calls, MapRecords
<1>6. /\ content \in [Frames -> Owners \cup {Nobody, Zero}]
      /\ issued \in [Slots -> Seq(Gens)]
  OBVIOUS
<1> QED
  BY <1>1, <1>2, <1>3, <1>4, <1>5, <1>6 DEF Typed, TypeOK, CountersExact, LiveSlots

-----------------------------------------------------------------------------
(* What each action does to the parts of the state, as facts about whole   *)
(* variables, so that the steps below need not open the records.           *)

\* Both allocations: n > 0 free frames in a row from s are taken.
Taking(c, o, n, r, s) ==
    /\ n \in Nat \ {0} /\ s \in Frames /\ Span(s, n) \subseteq bits
    /\ TakeSpan(s, n) /\ TakeFrames(c, o, n, r, s)

\* Both allocations take a run of free frames: xtok_alloc_ram,
LEMMA AllocTakes ==
    ASSUME NEW c, NEW o, NEW n \in Sizes, NEW r, xtok_alloc_ram(c, o, n, r)
    PROVE  \E s \in Frames : Taking(c, o, n, r, s)
BY LedgerAssumption DEF xtok_alloc_ram, phys_alloc_frames, Lowest, Runs, Taking

\* ... and xtok_alloc_ram_huge.
LEMMA AllocHugeTakes ==
    ASSUME NEW c, NEW o, NEW r, xtok_alloc_ram_huge(c, o, r)
    PROVE  \E s \in Frames : Taking(c, o, HugeFrames, r, s)
BY PhysicalAssumption
   DEF xtok_alloc_ram_huge, phys_alloc_huge, Lowest, HugeRuns, Runs, Taking

\* Taking frames moves free_frames and used_frames with the bitmap.
LEMMA TypedTake ==
    ASSUME Typed, NEW c \in CPUs, NEW o \in Owners, NEW r \in RightSets,
           NEW n, NEW s, Taking(c, o, n, r, s)
    PROVE  Typed'
<1> USE DEF Taking
<1>1. /\ n \in 0 .. TotalFrames /\ n <= Cardinality(bits)
      /\ bits \ Span(s, n) \subseteq Frames
      /\ Cardinality(bits \ Span(s, n)) = Cardinality(bits) - n
  BY TakeCount DEF Typed, TypeOK, PhysTypeOK
<1>2. PhysTypeOK' /\ free_frames' = Cardinality(bits')
      /\ used_frames' = TotalFrames - free_frames'
  <2>1. /\ free_frames = Cardinality(bits) /\ used_frames = TotalFrames - free_frames
        /\ free_frames \in Nat /\ used_frames \in Nat /\ n \in Nat
    BY DEF Typed, TypeOK, PhysTypeOK, CountersExact
  <2>2. /\ bits' = bits \ Span(s, n)
        /\ free_frames' = free_frames - n /\ used_frames' = used_frames + n
    BY DEF TakeSpan
  <2>3. free_frames' = Cardinality(bits')
    BY <1>1, <2>1, <2>2
  <2> QED
    BY <1>1, <2>1, <2>2, <2>3, ConstantTypes DEF PhysTypeOK
<1>3. op' \in [CPUs -> Calls]
  BY <1>1 DEF Typed, TypeOK, TakeFrames, Calls
<1> QED
  BY <1>2, <1>3 DEF Typed, TypeOK, CountersExact, TakeFrames

\* Only the program counter of a call moves.
LEMMA CallMoves ==
    ASSUME op \in [CPUs -> Calls], NEW c \in CPUs,
           NEW pc \in {"idle", "zero", "seal", "free"}
    PROVE  [op EXCEPT ![c].pc = pc] \in [CPUs -> Calls]
<1>1. [op[c] EXCEPT !.pc = pc] \in Calls
  BY DEF Calls
<1>2. [op EXCEPT ![c].pc = pc] = [op EXCEPT ![c] = [op[c] EXCEPT !.pc = pc]]
  OBVIOUS
<1> QED
  BY <1>1, <1>2

\* zero_frames touches no counter.
LEMMA TypedZero ==
    ASSUME Typed, NEW c \in CPUs, zero_frames(c)
    PROVE  Typed'
<1>1. op' \in [CPUs -> Calls]
  BY CallMoves DEF Typed, TypeOK, zero_frames
<1>2. content' \in [Frames -> Owners \cup {Nobody, Zero}]
  BY DEF Typed, TypeOK, zero_frames
<1> QED
  BY <1>1, <1>2 DEF Typed, TypeOK, PhysTypeOK, CountersExact, zero_frames

\* A seal raises g_live by the one slot that becomes live.
LEMMA TypedSeal ==
    ASSUME Typed, NEW c \in CPUs, NEW s \in Slots, seal_ram_locked(c, s)
    PROVE  Typed'
<1> USE DEF Typed, TypeOK
<1> DEFINE e == [table[s] EXCEPT !.live = TRUE, !.owner = op[c].owner,
                 !.rights = op[c].rights, !.phys = op[c].phys, !.n_frames = op[c].n]
<1>1. table' \in [Slots -> Entries]
  <2>1. table[s] \in Entries /\ op[c] \in Calls
    OBVIOUS
  <2>2. e \in Entries
    BY <2>1 DEF Entries, Calls
  <2>3. table' = [table EXCEPT ![s] = e]
    BY DEF seal_ram_locked
  <2> QED
    BY <2>2, <2>3
<1>2. LiveSlots' = LiveSlots \cup {s} /\ s \notin LiveSlots
  BY DEF seal_ram_locked, Claimable, LiveSlots
<1>3. IsFiniteSet(LiveSlots) /\ IsFiniteSet(LiveSlots') /\ Cardinality(LiveSlots') \in 0 .. NSlots
  BY SlotSets DEF LiveSlots
<1>4. Cardinality(LiveSlots') = Cardinality(LiveSlots) + 1
  BY <1>2, <1>3, FS_AddElement
<1>5. g_live' \in 0 .. NSlots /\ g_live' = Cardinality(LiveSlots')
  BY <1>3, <1>4 DEF CountersExact, LiveSlots, seal_ram_locked
<1>6. g_next_hint' \in Slots
  BY ConstantTypes DEF seal_ram_locked, Slots
<1>7. op' \in [CPUs -> Calls]
  BY ConstantTypes DEF seal_ram_locked, Calls, Idle
<1>8. issued' \in [Slots -> Seq(Gens)]
  <2>1. \A q \in Seq(Gens) : Len(q) = GenMod => Tail(q) \in Seq(Gens)
    BY LedgerAssumption
  <2>2. Append(issued[s], table[s].generation) \in Seq(Gens)
    BY DEF Entries
  <2> QED
    BY <2>1, <2>2 DEF seal_ram_locked
<1> QED
  BY <1>1, <1>5, <1>6, <1>7, <1>8 DEF PhysTypeOK, CountersExact, LiveSlots, seal_ram_locked

\* A full table changes the call alone.
LEMMA TypedFull ==
    ASSUME Typed, NEW c \in CPUs, SealTableFull(c)
    PROVE  Typed'
<1>1. op' \in [CPUs -> Calls]
  BY CallMoves DEF Typed, TypeOK, SealTableFull
<1> QED
  BY <1>1 DEF Typed, TypeOK, PhysTypeOK, CountersExact, SealTableFull

\* phys_free_frames counts the frames that change.
LEMMA TypedFree ==
    ASSUME Typed, NEW c \in CPUs, FreeFrames(c)
    PROVE  Typed'
<1>1. op' \in [CPUs -> Calls]
  BY ConstantTypes DEF Typed, TypeOK, FreeFrames, Calls, Idle
<1> DEFINE s == op[c].phys
           n == op[c].n
           T == Span(s, n) \ bits
<1>2. s \in Frames /\ n \in Nat
  BY ConstantTypes DEF Typed, TypeOK, Calls
<1>3. PhysTypeOK' /\ free_frames' = Cardinality(bits')
      /\ used_frames' = TotalFrames - free_frames'
  <2>1. CASE n = 0 \/ s + n > TotalFrames
    BY <2>1 DEF Typed, TypeOK, PhysTypeOK, CountersExact, FreeFrames, phys_free_frames, physVars
  <2>2. CASE ~(n = 0 \/ s + n > TotalFrames)
    <3>1. T \subseteq Frames /\ T \cap bits = {}
      BY <1>2, <2>2, ConstantTypes DEF Span, Frames
    <3>2. bits \subseteq Frames
      BY DEF Typed, TypeOK, PhysTypeOK
    <3>3. /\ Cardinality(T) \in Nat
          /\ Cardinality(bits \cup T) = Cardinality(bits) + Cardinality(T)
          /\ Cardinality(bits \cup T) \in 0 .. TotalFrames
      BY <3>1, <3>2, GiveCount
    <3>4. /\ bits' = bits \cup T
          /\ free_frames' = free_frames + Cardinality(T)
          /\ used_frames' = used_frames - Cardinality(T)
      BY <2>2 DEF FreeFrames, phys_free_frames
    <3>5. /\ free_frames = Cardinality(bits) /\ used_frames = TotalFrames - free_frames
          /\ free_frames \in Nat /\ used_frames \in Nat
      BY DEF Typed, TypeOK, PhysTypeOK, CountersExact
    <3> HIDE DEF T
    <3>6. free_frames' = Cardinality(bits')
      BY <3>3, <3>4, <3>5
    <3> QED
      BY <3>1, <3>2, <3>3, <3>4, <3>5, <3>6, ConstantTypes DEF PhysTypeOK
  <2> QED
    BY <2>1, <2>2
<1> QED
  BY <1>1, <1>3 DEF Typed, TypeOK, CountersExact, FreeFrames

\* The wrap of the generation skips 0.
LEMMA NextGenerationType ==
    ASSUME NEW g \in Gens
    PROVE  NextGeneration(g) \in Gens
BY LedgerAssumption DEF NextGeneration, Gens

\* A release lowers g_live by the one slot that stops being live.
LEMMA TypedRelease ==
    ASSUME Typed, NEW c \in CPUs, NEW s \in Slots, NEW g, release_impl(c, s, g)
    PROVE  Typed'
<1> USE DEF Typed, TypeOK
<1>1. table' \in [Slots -> Entries]
  <2>1. NextGeneration(table[s].generation) \in Gens
    BY NextGenerationType DEF Entries
  <2>2. FreeEntry(NextGeneration(table[s].generation)) \in Entries
    BY <2>1, ConstantTypes DEF FreeEntry, Entries
  <2> QED
    BY <2>2 DEF release_impl
<1>2. LiveSlots' = LiveSlots \ {s} /\ s \in LiveSlots
  BY DEF release_impl, LookupLive, FreeEntry, LiveSlots
<1>3. IsFiniteSet(LiveSlots) /\ Cardinality(LiveSlots) \in 0 .. NSlots
      /\ Cardinality(LiveSlots') \in 0 .. NSlots
  BY SlotSets DEF LiveSlots
<1>4. Cardinality(LiveSlots') = Cardinality(LiveSlots) - 1
  BY <1>2, <1>3, FS_RemoveElement
<1>5. g_live' \in 0 .. NSlots /\ g_live' = Cardinality(LiveSlots')
  BY <1>3, <1>4, ConstantTypes DEF CountersExact, LiveSlots, release_impl
<1>6. op' \in [CPUs -> Calls]
  BY ConstantTypes DEF release_impl, Calls, Idle, Entries
<1> QED
  BY <1>1, <1>5, <1>6 DEF PhysTypeOK, CountersExact, LiveSlots, release_impl

\* xtok_map_acquire never passes the 16 bits of map_count.
LEMMA TypedAcquire ==
    ASSUME Typed, NEW m \in MapIds, NEW s \in Slots, NEW g \in Gens, NEW o \in Owners,
           NEW w \in BOOLEAN, xtok_map_acquire(m, s, g, o, w)
    PROVE  Typed'
<1> USE DEF Typed, TypeOK
<1> DEFINE e == [table[s] EXCEPT !.map_count = @ + 1]
<1>1. table' = [table EXCEPT ![s] = e]
  BY DEF xtok_map_acquire
<1>2. e \in Entries /\ e.live = table[s].live
  <2>1. table[s] \in Entries /\ table[s].map_count \in 0 .. MaxMap
        /\ table[s].map_count # MaxMap
    BY DEF xtok_map_acquire, Entries
  <2>2. table[s].map_count + 1 \in 0 .. MaxMap
    BY <2>1, ConstantTypes
  <2> QED
    BY <2>1, <2>2 DEF Entries
<1> HIDE DEF e
<1>3. table' \in [Slots -> Entries] /\ LiveSlots' = LiveSlots
  BY <1>1, <1>2 DEF LiveSlots
<1>4. maps' \in [MapIds -> MapRecords]
  BY DEF xtok_map_acquire, Entries, MapRecords
<1> QED
  BY <1>3, <1>4 DEF PhysTypeOK, CountersExact, LiveSlots, xtok_map_acquire

\* xtok_map_release never takes map_count below 0.
LEMMA TypedMapRelease ==
    ASSUME Typed, NEW m \in MapIds, xtok_map_release(m)
    PROVE  Typed'
<1> USE DEF Typed, TypeOK
<1> DEFINE s == maps[m].slot
           e == [table[s] EXCEPT !.map_count = @ - 1]
<1>1. s \in Slots
  BY DEF MapRecords
<1>2. table' \in [Slots -> Entries] /\ LiveSlots' = LiveSlots
  <2>1. CASE table' = table
    BY <2>1 DEF LiveSlots
  <2>2. CASE table[s].map_count > 0 /\ table' = [table EXCEPT ![s] = e]
    <3>1. e \in Entries /\ e.live = table[s].live
      <4>1. table[s] \in Entries /\ table[s].map_count \in 0 .. MaxMap
        BY <1>1 DEF Entries
      <4>2. \A k \in 0 .. MaxMap : k > 0 => k - 1 \in 0 .. MaxMap
        <5> HIDE DEF Typed, TypeOK, s, e
        <5> QED
          BY ConstantTypes
      <4>3. table[s].map_count - 1 \in 0 .. MaxMap
        <5> HIDE DEF Typed, TypeOK, e
        <5> QED
          BY <2>2, <4>1, <4>2, Zenon
      <4> QED
        BY <4>1, <4>3 DEF Entries
    <3> HIDE DEF e
    <3> QED
      BY <1>1, <2>2, <3>1 DEF LiveSlots
  <2> QED
    BY <2>1, <2>2 DEF xtok_map_release
<1>3. maps' \in [MapIds -> MapRecords]
  BY ConstantTypes DEF xtok_map_release, NoMap, MapRecords
<1> QED
  BY <1>2, <1>3 DEF PhysTypeOK, CountersExact, LiveSlots, xtok_map_release

\* A store changes contents only.
LEMMA TypedUserWrite ==
    ASSUME Typed, NEW m \in MapIds, UserWrite(m)
    PROVE  Typed'
<1>1. content' \in [Frames -> Owners \cup {Nobody, Zero}]
  BY DEF Typed, TypeOK, UserWrite, MapRecords
<1> QED
  BY <1>1 DEF Typed, TypeOK, PhysTypeOK, CountersExact, UserWrite

\* Every step of the specification is one of these.
LEMMA StepCases ==
    ASSUME Next
    PROVE  \/ \E c \in CPUs, o \in Owners, r \in RightSets : \E n, s : Taking(c, o, n, r, s)
           \/ \E c \in CPUs : zero_frames(c)
           \/ \E c \in CPUs, s \in Slots : seal_ram_locked(c, s)
           \/ \E c \in CPUs : SealTableFull(c)
           \/ \E c \in CPUs : FreeFrames(c)
           \/ \E c \in CPUs, s \in Slots, g \in Gens : release_impl(c, s, g)
           \/ \E m \in MapIds, s \in Slots, g \in Gens, o \in Owners, w \in BOOLEAN :
                 xtok_map_acquire(m, s, g, o, w)
           \/ \E m \in MapIds : xtok_map_release(m)
           \/ \E m \in MapIds : UserWrite(m)
<1>1. ASSUME NEW c \in CPUs, CpuStep(c), ~\E s \in Slots : seal_ram_locked(c, s),
             ~zero_frames(c), ~SealTableFull(c), ~FreeFrames(c),
             ~\E s \in Slots, g \in Gens : release_impl(c, s, g)
      PROVE  \E o \in Owners, r \in RightSets : \E n, s : Taking(c, o, n, r, s)
  <2>1. CASE \E o \in Owners, r \in RightSets, n \in Sizes : xtok_alloc_ram(c, o, n, r)
    <3>1. PICK o \in Owners, r \in RightSets, n \in Sizes : xtok_alloc_ram(c, o, n, r)
      BY <2>1
    <3>2. PICK s \in Frames : Taking(c, o, n, r, s)
      BY <3>1, AllocTakes
    <3> QED
      BY <3>2
  <2>2. CASE \E o \in Owners, r \in RightSets : xtok_alloc_ram_huge(c, o, r)
    <3>1. PICK o \in Owners, r \in RightSets : xtok_alloc_ram_huge(c, o, r)
      BY <2>2
    <3>2. PICK s \in Frames : Taking(c, o, HugeFrames, r, s)
      BY <3>1, AllocHugeTakes
    <3> QED
      BY <3>2
  <2> QED
    BY <1>1, <2>1, <2>2
       DEF CpuStep, xtok_release_owned, xtok_release, xtok_reclaim
<1> QED
  BY <1>1 DEF Next, MapStep

\* Every step keeps types and counters.
LEMMA TypedNext == Typed /\ [Next]_vars => Typed'
<1> SUFFICES ASSUME Typed, [Next]_vars PROVE Typed'
  OBVIOUS
<1>1. CASE Next
  BY <1>1, StepCases, TypedTake, TypedZero, TypedSeal, TypedFull, TypedFree,
     TypedRelease, TypedAcquire, TypedMapRelease, TypedUserWrite
<1>2. CASE UNCHANGED vars
  BY <1>2 DEF vars, Typed, TypeOK, PhysTypeOK, CountersExact
<1> QED
  BY <1>1, <1>2

\* Types and counters together are inductive: g_live stays within its range
\* because it counts the live slots.
THEOREM AlwaysTyped == Spec => []Typed
BY TypedInit, TypedNext, PTL DEF Spec

\* Every field of the ledger, of the allocator and of the calls in progress
\* keeps to its width: no generation is 0, no counter wraps.
THEOREM TypeCorrect == Spec => []TypeOK
<1>1. Typed => TypeOK
  BY DEF Typed
<1> QED
  BY <1>1, AlwaysTyped, PTL

\* The three counters are exact after every step of every CPU, although no
\* lock covers the bitmap and the table together.
THEOREM CountersAlwaysExact == Spec => []CountersExact
<1>1. Typed => CountersExact
  BY DEF Typed
<1> QED
  BY <1>1, AlwaysTyped, PTL

-----------------------------------------------------------------------------
(* Custody of the frames.  Every frame boot declared free is at any time   *)
(* in exactly one place: the bitmap, one live token or one call.  Each     *)
(* action moves one run of frames from one place to another; the lemmas    *)
(* below say which, and the set argument that follows is the same for all. *)

Custody == Typed /\ bits \subseteq BootFree /\ NoDoubleUse /\ NoLeak

\* A step that leaves the bitmap, the frames of the tokens and the frames of
\* the calls where they are.
NothingMoves ==
    /\ bits' = bits
    /\ \A s \in Slots : Held(s)' = Held(s)
    /\ \A c \in CPUs : Carried(c)' = Carried(c)

\* A step that moves no frame keeps the custody of all of them.
LEMMA StillCustody ==
    ASSUME Custody, Typed', NothingMoves
    PROVE  Custody'
<1>1. NoDoubleUse'
  BY DEF Custody, NothingMoves, NoDoubleUse
<1>2. NoLeak'
  BY DEF Custody, NothingMoves, NoLeak
<1> QED
  BY <1>1, <1>2 DEF Custody, NothingMoves

\* From the bitmap to a call.
LEMMA CustodyTake ==
    ASSUME Custody, Typed', NEW c \in CPUs, NEW o, NEW r, NEW n, NEW s,
           Taking(c, o, n, r, s)
    PROVE  Custody'
<1>1. s \in Span(s, n)
  BY DEF Taking, Span, Frames
<1>2. s # 0
  BY <1>1, BootFreeInFrames DEF Custody, Taking
<1>3. /\ bits' = bits \ Span(s, n) /\ Span(s, n) \subseteq bits
      /\ \A t \in Slots : Held(t)' = Held(t)
  BY DEF Taking, TakeSpan, TakeFrames, Held
<1>4. /\ Carried(c) = {} /\ Carried(c)' = Span(s, n)
      /\ \A d \in CPUs \ {c} : Carried(d)' = Carried(d)
  BY <1>2 DEF Custody, Typed, TypeOK, Taking, TakeFrames, Carried
<1>5. NoDoubleUse'
  BY <1>3, <1>4 DEF Custody, NoDoubleUse
<1>6. NoLeak'
  <2> SUFFICES ASSUME NEW f \in BootFree
               PROVE  \/ f \in bits'
                      \/ \E t \in Slots : f \in Held(t)'
                      \/ \E d \in CPUs : f \in Carried(d)'
    BY DEF NoLeak
  <2>1. CASE f \in bits
    BY <1>3, <1>4, <2>1
  <2>2. CASE \E t \in Slots : f \in Held(t)
    BY <1>3, <2>2
  <2>3. CASE \E d \in CPUs : f \in Carried(d)
    BY <1>4, <2>3
  <2> QED
    BY <2>1, <2>2, <2>3 DEF Custody, NoLeak
<1> QED
  BY <1>3, <1>5, <1>6 DEF Custody

\* From a call to a token.
LEMMA CustodySeal ==
    ASSUME Custody, Typed', NEW c \in CPUs, NEW s \in Slots, seal_ram_locked(c, s)
    PROVE  Custody'
<1>1. /\ Held(s) = {} /\ Held(s)' = Carried(c)
      /\ \A t \in Slots \ {s} : Held(t)' = Held(t)
  BY DEF Custody, Typed, TypeOK, Entries, seal_ram_locked, Claimable, Held, Carried
<1>2. /\ Carried(c)' = {} /\ bits' = bits
      /\ \A d \in CPUs \ {c} : Carried(d)' = Carried(d)
  BY DEF Custody, Typed, TypeOK, seal_ram_locked, Idle, Carried
<1>3. NoDoubleUse'
  BY <1>1, <1>2 DEF Custody, NoDoubleUse
<1>4. NoLeak'
  BY <1>1, <1>2 DEF Custody, NoLeak
<1> QED
  BY <1>2, <1>3, <1>4 DEF Custody

\* From a call back to the bitmap.  The range check of phys_free_frames never
\* drops frames: what a call carries lies inside the memory.
LEMMA CustodyFree ==
    ASSUME Custody, Typed', NEW c \in CPUs, FreeFrames(c)
    PROVE  Custody'
<1>1. /\ Carried(c)' = {} /\ Carried(c) = Span(op[c].phys, op[c].n)
      /\ \A d \in CPUs \ {c} : Carried(d)' = Carried(d)
      /\ \A t \in Slots : Held(t)' = Held(t)
  BY DEF Custody, Typed, TypeOK, FreeFrames, Idle, Carried, Held
<1>2. bits' = bits \cup Carried(c)
  <2>1. op[c].phys \in Nat /\ op[c].n \in Nat
    BY ConstantTypes DEF Custody, Typed, TypeOK, Calls, Frames
  <2>2. CASE op[c].n = 0
    <3>1. Carried(c) = {}
      BY <1>1, <2>1, <2>2 DEF Span
    <3> QED
      BY <2>2, <3>1 DEF FreeFrames, phys_free_frames, physVars
  <2>3. CASE op[c].n # 0
    <3>1. op[c].phys + op[c].n - 1 \in Carried(c)
      BY <1>1, <2>1, <2>3 DEF Span
    <3>2. op[c].phys + op[c].n - 1 \in Frames
      BY <3>1, BootFreeInFrames DEF Custody, NoDoubleUse
    <3>3. ~(op[c].phys + op[c].n > TotalFrames)
      BY <2>1, <3>2, ConstantTypes DEF Frames
    <3> QED
      BY <1>1, <2>3, <3>3 DEF FreeFrames, phys_free_frames
  <2> QED
    BY <2>2, <2>3
<1>3. NoDoubleUse'
  BY <1>1, <1>2 DEF Custody, NoDoubleUse
<1>4. NoLeak'
  BY <1>1, <1>2 DEF Custody, NoLeak
<1> QED
  BY <1>2, <1>3, <1>4 DEF Custody, NoDoubleUse

\* From a token to the call that releases it.
LEMMA CustodyRelease ==
    ASSUME Custody, Typed', NEW c \in CPUs, NEW s \in Slots, NEW g,
           release_impl(c, s, g)
    PROVE  Custody'
<1>1. /\ Held(s) = Span(table[s].phys, table[s].n_frames) /\ Held(s)' = {}
      /\ \A t \in Slots \ {s} : Held(t)' = Held(t)
  BY DEF Custody, Typed, TypeOK, release_impl, LookupLive, FreeEntry, Held
<1>2. /\ Carried(c) = {} /\ Carried(c)' = Span(table[s].phys, table[s].n_frames)
      /\ \A d \in CPUs \ {c} : Carried(d)' = Carried(d)
      /\ bits' = bits
  BY DEF Custody, Typed, TypeOK, release_impl, Idle, Carried
<1>3. NoDoubleUse'
  BY <1>1, <1>2 DEF Custody, NoDoubleUse
<1>4. NoLeak'
  BY <1>1, <1>2 DEF Custody, NoLeak
<1> QED
  BY <1>2, <1>3, <1>4 DEF Custody

\* Clearing, a full table, pinning, unpinning and storing move no frame.
LEMMA QuietSteps ==
    ASSUME Typed,
           \/ \E c \in CPUs : zero_frames(c) \/ SealTableFull(c)
           \/ \E m \in MapIds : UserWrite(m) \/ xtok_map_release(m)
           \/ \E m \in MapIds, s \in Slots, g \in Gens, o \in Owners, w \in BOOLEAN :
                 xtok_map_acquire(m, s, g, o, w)
           \/ UNCHANGED vars
    PROVE  NothingMoves
<1> USE DEF NothingMoves, Typed, TypeOK
<1>1. ASSUME NEW c \in CPUs, zero_frames(c) PROVE NothingMoves
  BY <1>1 DEF zero_frames, Held, Carried, Calls
<1>2. ASSUME NEW c \in CPUs, SealTableFull(c) PROVE NothingMoves
  BY <1>2 DEF SealTableFull, Held, Carried, Calls
<1>3. ASSUME NEW m \in MapIds, UserWrite(m) PROVE NothingMoves
  BY <1>3 DEF UserWrite, Held, Carried
<1>4. ASSUME NEW m \in MapIds, xtok_map_release(m) PROVE NothingMoves
  BY <1>4 DEF xtok_map_release, Held, Carried, Entries, MapRecords
<1>5. ASSUME NEW m \in MapIds, NEW s \in Slots, NEW g \in Gens, NEW o \in Owners,
             NEW w \in BOOLEAN, xtok_map_acquire(m, s, g, o, w)
      PROVE  NothingMoves
  BY <1>5 DEF xtok_map_acquire, Held, Carried, Entries
<1>6. ASSUME UNCHANGED vars PROVE NothingMoves
  BY <1>6 DEF vars, Held, Carried
<1> QED
  BY <1>1, <1>2, <1>3, <1>4, <1>5, <1>6

\* At boot every frame is in the bitmap or reserved.
LEMMA CustodyInit == Init => Custody
<1> SUFFICES ASSUME Init PROVE Custody
  OBVIOUS
<1>1. bits = BootFree
  BY DEF Init, phys_init_from_handoff
<1>2. /\ \A s \in Slots : Held(s) = {}
      /\ \A c \in CPUs : Carried(c) = {}
  BY DEF Init, xtok_init, FreeEntry, Idle, Held, Carried
<1>3. NoDoubleUse /\ NoLeak
  BY <1>1, <1>2 DEF NoDoubleUse, NoLeak
<1> QED
  BY <1>1, <1>3, TypedInit DEF Custody

\* Every step hands frames over without losing or sharing one.
LEMMA CustodyNext == Custody /\ [Next]_vars => Custody'
<1> SUFFICES ASSUME Custody, [Next]_vars PROVE Custody'
  OBVIOUS
<1>1. Typed /\ Typed'
  BY TypedNext DEF Custody
<1>2. CASE NothingMoves
  BY <1>1, <1>2, StillCustody
<1>3. CASE ~NothingMoves
  <2>1. Next
    BY <1>1, <1>3, QuietSteps
  <2> QED
    BY <1>1, <1>3, <2>1, StepCases, QuietSteps, CustodyTake, CustodySeal,
       CustodyFree, CustodyRelease
<1> QED
  BY <1>2, <1>3

\* Custody (each boot-free frame has exactly one holder) is inductive.
THEOREM AlwaysCustody == Spec => []Custody
BY CustodyInit, CustodyNext, PTL DEF Spec

\* No frame ever has two holders, for any number of CPUs allocating and
\* releasing at once.
THEOREM NeverDoubleUse == Spec => []NoDoubleUse
<1>1. Custody => NoDoubleUse
  BY DEF Custody
<1> QED
  BY <1>1, AlwaysCustody, PTL

\* No frame is ever lost, the full table and frame 0 included.
THEOREM NeverLeak == Spec => []NoLeak
<1>1. Custody => NoLeak
  BY DEF Custody
<1> QED
  BY <1>1, AlwaysCustody, PTL

-----------------------------------------------------------------------------
(* Generations.  Those issued for a slot count down, from the newest, in   *)
(* the circle 1 .. GenMod-1; no more of them are remembered than it has.   *)

\* The generation d steps before g.
Back(g, d) == IF d < g THEN g - d ELSE g - d + (GenMod - 1)

\* The newest one is that of the slot's token, or was its last token's.
Counted(s) ==
    /\ Len(issued[s]) < GenMod
    /\ \A i \in 1 .. Len(issued[s]) :
         issued[s][i] = Back(table[s].generation,
                             Len(issued[s]) - i + (IF table[s].live THEN 0 ELSE 1))

History == Typed /\ \A s \in Slots : Counted(s)

\* A step that leaves a slot's generation and its history alone.
LEMMA CountedKept ==
    ASSUME NEW s \in Slots, Counted(s), issued'[s] = issued[s],
           table'[s].generation = table[s].generation, table'[s].live = table[s].live
    PROVE  Counted(s)'
BY DEF Counted

\* A seal issues the generation of the slot, and the oldest is forgotten when
\* there are as many as the circle has.
LEMMA HistorySeal ==
    ASSUME History, NEW c \in CPUs, NEW s \in Slots, seal_ram_locked(c, s)
    PROVE  \A r \in Slots : Counted(r)'
<1> USE DEF History, Typed, TypeOK
<1> DEFINE g == table[s].generation
           h == issued[s]
           a == Append(h, g)
           n == Len(h)
<1>1. /\ ~table[s].live /\ h \in Seq(Gens) /\ g \in Gens /\ n \in Nat /\ n < GenMod
      /\ \A i \in 1 .. n : h[i] = Back(g, n - i + 1)
  BY DEF seal_ram_locked, Claimable, Counted, Entries
<1>2. /\ issued' = [issued EXCEPT ![s] = IF Len(a) = GenMod THEN Tail(a) ELSE a]
      /\ table' = [table EXCEPT ![s] = [table[s] EXCEPT !.live = TRUE, !.owner = op[c].owner,
                     !.rights = op[c].rights, !.phys = op[c].phys, !.n_frames = op[c].n]]
  BY DEF seal_ram_locked
<1>3. table'[s].live /\ table'[s].generation = g
  BY <1>2 DEF Entries
<1>4. /\ issued'[s] = IF Len(a) = GenMod THEN Tail(a) ELSE a
      /\ \A r \in Slots \ {s} : issued'[r] = issued[r] /\ table'[r] = table[r]
  BY <1>2
<1> HIDE DEF g, h
<1>5. a \in Seq(Gens) /\ Len(a) = n + 1 /\ (\A i \in 1 .. n : a[i] = h[i]) /\ a[n + 1] = g
  BY <1>1
<1>6. GenMod \in Nat /\ GenMod > 2 /\ g \in Nat /\ g > 0 /\ g < GenMod
  BY <1>1, LedgerAssumption DEF Gens
<1>7. \A i \in 1 .. (n + 1) : a[i] = Back(g, n + 1 - i)
  <2> SUFFICES ASSUME NEW i \in 1 .. (n + 1) PROVE a[i] = Back(g, n + 1 - i)
    OBVIOUS
  <2>1. CASE i = n + 1
    BY <1>1, <1>5, <1>6, <2>1 DEF Back
  <2>2. CASE i \in 1 .. n
    <3>1. n - i + 1 = n + 1 - i
      BY <1>1
    <3> QED
      BY <1>1, <1>5, <2>2, <3>1
  <2> QED
    BY <1>1, <2>1, <2>2
<1> HIDE DEF a, n
<1>8. Counted(s)'
  <2>1. CASE n + 1 # GenMod
    <3>1. issued'[s] = a /\ n + 1 < GenMod
      BY <1>1, <1>4, <1>5, <1>6, <2>1
    <3>2. \A i \in 1 .. (n + 1) : n + 1 - i + 0 = n + 1 - i
      BY <1>1
    <3>3. \A i \in 1 .. (n + 1) : a[i] = Back(g, n + 1 - i + 0)
      BY <1>7, <3>2
    <3>4. Len(issued'[s]) = n + 1
      BY <1>5, <3>1
    <3>5. \A i \in 1 .. Len(issued'[s]) :
            issued'[s][i] = Back(table'[s].generation, Len(issued'[s]) - i + 0)
      BY <1>1, <1>3, <3>1, <3>3, <3>4
    <3> QED
      BY <1>3, <3>1, <3>4, <3>5 DEF Counted
  <2>2. CASE n + 1 = GenMod
    <3>1. issued'[s] = Tail(a)
      BY <1>4, <1>5, <2>2
    <3>2. Len(Tail(a)) = n /\ \A i \in 1 .. n : Tail(a)[i] = a[i + 1]
      BY <1>1, <1>5, <1>6, <2>2
    <3>3. \A i \in 1 .. n : i + 1 \in 1 .. (n + 1) /\ n + 1 - (i + 1) = n - i + 0
      BY <1>1
    <3>4. \A i \in 1 .. n : Tail(a)[i] = Back(g, n - i + 0)
      BY <1>7, <3>2, <3>3
    <3> QED
      BY <1>1, <1>3, <3>1, <3>2, <3>4 DEF Counted
  <2> QED
    BY <2>1, <2>2
<1> QED
  BY <1>4, <1>8, CountedKept

\* A release moves the slot on to the next generation.
LEMMA HistoryRelease ==
    ASSUME History, NEW c \in CPUs, NEW s \in Slots, NEW g, release_impl(c, s, g)
    PROVE  \A r \in Slots : Counted(r)'
<1> USE DEF History, Typed, TypeOK
<1> DEFINE now == table[s].generation
           n == Len(issued[s])
<1>1. /\ table[s].live /\ now \in Gens /\ n \in Nat /\ n < GenMod
      /\ \A i \in 1 .. n : issued[s][i] = Back(now, n - i + 0)
  BY DEF release_impl, LookupLive, Counted, Entries
<1>2. issued' = issued /\ table' = [table EXCEPT ![s] = FreeEntry(NextGeneration(now))]
  BY DEF release_impl
<1>3. ~table'[s].live /\ table'[s].generation = NextGeneration(now)
  BY <1>2 DEF FreeEntry
<1> HIDE DEF now
<1>4. \A d \in 0 .. (GenMod - 2) : Back(NextGeneration(now), d + 1) = Back(now, d)
  BY <1>1, LedgerAssumption DEF Back, NextGeneration, Gens
<1>5. \A i \in 1 .. n : n - i + 0 \in 0 .. (GenMod - 2) /\ n - i + 1 = (n - i + 0) + 1
  BY <1>1, LedgerAssumption
<1>6. \A i \in 1 .. n : issued[s][i] = Back(NextGeneration(now), n - i + 1)
  BY <1>1, <1>4, <1>5
<1>7. Counted(s)'
  BY <1>1, <1>2, <1>3, <1>6 DEF Counted
<1>8. \A r \in Slots \ {s} : issued'[r] = issued[r] /\ table'[r] = table[r]
  BY <1>2
<1> QED
  BY <1>7, <1>8, CountedKept

\* At boot nothing was issued.
LEMMA HistoryInit == Init => History
<1> SUFFICES ASSUME Init PROVE History
  OBVIOUS
<1>1. \A s \in Slots : issued[s] = <<>>
  BY DEF Init
<1>2. GenMod \in Nat /\ 0 < GenMod /\ 1 .. 0 = {}
  BY LedgerAssumption
<1>3. ASSUME NEW s \in Slots PROVE Counted(s)
  <2>1. issued[s] = <<>> /\ Len(issued[s]) = 0
    BY <1>1
  <2> QED
    BY <1>2, <2>1 DEF Counted
<1> QED
  BY <1>3, TypedInit DEF History

\* Every step keeps the count.
LEMMA HistoryNext == History /\ [Next]_vars => History'
<1> SUFFICES ASSUME History, [Next]_vars PROVE History'
  OBVIOUS
<1>1. Typed'
  BY TypedNext DEF History
<1> USE DEF History, Typed, TypeOK
<1>2. CASE \E c \in CPUs, s \in Slots : seal_ram_locked(c, s)
  BY <1>1, <1>2, HistorySeal
<1>3. CASE \E c \in CPUs, s \in Slots, g \in Gens : release_impl(c, s, g)
  BY <1>1, <1>3, HistoryRelease
<1>4. CASE /\ issued' = issued
           /\ \A s \in Slots : /\ table'[s].generation = table[s].generation
                               /\ table'[s].live = table[s].live
  BY <1>1, <1>4, CountedKept
<1>5. ASSUME NEW m \in MapIds, NEW s \in Slots, NEW g \in Gens, NEW o \in Owners,
             NEW w \in BOOLEAN, xtok_map_acquire(m, s, g, o, w)
      PROVE  /\ issued' = issued
             /\ \A r \in Slots : /\ table'[r].generation = table[r].generation
                                 /\ table'[r].live = table[r].live
  BY <1>5 DEF xtok_map_acquire, Entries
<1>6. ASSUME NEW m \in MapIds, xtok_map_release(m)
      PROVE  /\ issued' = issued
             /\ \A r \in Slots : /\ table'[r].generation = table[r].generation
                                 /\ table'[r].live = table[r].live
  BY <1>6 DEF xtok_map_release, Entries, MapRecords
<1>7. CASE UNCHANGED <<table, issued>>
  BY <1>4, <1>7
<1>8. CASE Next
  BY <1>2, <1>3, <1>4, <1>5, <1>6, <1>7, <1>8, StepCases
     DEF Taking, TakeFrames, zero_frames, SealTableFull, FreeFrames, UserWrite
<1> QED
  BY <1>7, <1>8 DEF vars

\* A token kept after its release stays dead while its slot is recycled, for
\* any width of the generation: none of the last GenMod-1 tokens of a slot
\* has the generation of another, through the wrap that skips 0.
THEOREM StaleTokensAlwaysDead == Spec => []StaleTokensStayDead
<1>1. History => StaleTokensStayDead
  <2> SUFFICES ASSUME History, NEW s \in Slots, NEW i \in DOMAIN issued[s], NEW j \in DOMAIN issued[s],
                      i # j, issued[s][i] = issued[s][j]
               PROVE  FALSE
    BY DEF StaleTokensStayDead
  <2> DEFINE n == Len(issued[s])
             g == table[s].generation
             p == IF table[s].live THEN 0 ELSE 1
  <2>1. issued[s] \in Seq(Gens) /\ g \in Gens
    BY DEF History, Typed, TypeOK, Entries
  <2>2. n \in Nat /\ i \in 1 .. n /\ j \in 1 .. n /\ p \in {0, 1}
    BY <2>1
  <2>3. n < GenMod /\ \A k \in 1 .. n : issued[s][k] = Back(g, n - k + p)
    BY DEF History, Counted
  <2>4. Back(g, n - i + p) = Back(g, n - j + p)
    BY <2>2, <2>3
  <2> HIDE DEF n, g, p
  <2> QED
    BY <2>1, <2>2, <2>3, <2>4, LedgerAssumption DEF Back, Gens
<1> QED
  BY <1>1, HistoryInit, HistoryNext, PTL DEF Spec

-----------------------------------------------------------------------------
(* The records on a slot.                                                  *)

Records(s) == {m \in MapIds : maps[m] # NoMap /\ maps[m].slot = s}

\* A record agrees with the entry it stands on.
Agrees(m) ==
    /\ table[maps[m].slot].live
    /\ table[maps[m].slot].generation = maps[m].gen
    /\ maps[m].phys = table[maps[m].slot].phys
    /\ maps[m].n = table[maps[m].slot].n_frames
    /\ maps[m].owner = table[maps[m].slot].owner

\* MappingsPinTheirToken, in terms of the records on a slot.
LEMMA PinsMeaning ==
    MappingsPinTheirToken <=>
        /\ \A m \in MapIds : maps[m] # NoMap => Agrees(m)
        /\ \A s \in Slots : table[s].map_count = Cardinality(Records(s))
BY DEF MappingsPinTheirToken, Agrees, Records

\* The records on a slot can be counted.
LEMMA RecordsFinite == \A s : IsFiniteSet(Records(s)) /\ Cardinality(Records(s)) \in Nat
<1> SUFFICES ASSUME NEW s
             PROVE  IsFiniteSet(Records(s)) /\ Cardinality(Records(s)) \in Nat
  OBVIOUS
<1>1. Records(s) \subseteq MapIds
  BY DEF Records
<1>2. IsFiniteSet(MapIds)
  BY LedgerAssumption
<1>3. IsFiniteSet(Records(s))
  BY <1>1, <1>2, FS_Subset
<1> QED
  BY <1>3, FS_CardinalityType

Pinned == Custody /\ MappingsPinTheirToken

\* At boot there are no records and every count is 0.
LEMMA PinnedInit == Init => Pinned
<1> SUFFICES ASSUME Init PROVE Pinned
  OBVIOUS
<1>1. \A m \in MapIds : maps[m] = NoMap
  BY DEF Init
<1>2. \A s \in Slots : Records(s) = {} /\ table[s].map_count = 0
  BY <1>1 DEF Records, Init, xtok_init, FreeEntry
<1>3. MappingsPinTheirToken
  BY <1>1, <1>2, PinsMeaning, FS_EmptySet
<1> QED
  BY <1>3, CustodyInit DEF Pinned

\* Steps that leave the table and the records alone.
LEMMA PinsKept ==
    ASSUME MappingsPinTheirToken, UNCHANGED <<table, maps>>
    PROVE  MappingsPinTheirToken'
BY DEF MappingsPinTheirToken

\* No record stands on a slot that is not live, so sealing it disturbs none.
LEMMA PinsSeal ==
    ASSUME Pinned, NEW c \in CPUs, NEW s \in Slots, seal_ram_locked(c, s)
    PROVE  MappingsPinTheirToken'
<1> USE DEF Pinned, Custody, Typed, TypeOK
<1>1. /\ \A m \in MapIds : maps[m] # NoMap => Agrees(m)
      /\ \A t \in Slots : table[t].map_count = Cardinality(Records(t))
  BY PinsMeaning
<1>2. /\ maps' = maps /\ ~table[s].live
      /\ \A t \in Slots \ {s} : table'[t] = table[t]
      /\ \A t \in Slots : table'[t].map_count = table[t].map_count
  BY DEF seal_ram_locked, Claimable, Entries
<1>3. ASSUME NEW m \in MapIds, maps[m] # NoMap PROVE Agrees(m)'
  <2>1. maps[m].slot \in Slots \ {s}
    BY <1>1, <1>2, <1>3 DEF Agrees, MapRecords
  <2> QED
    BY <1>1, <1>2, <1>3, <2>1 DEF Agrees
<1>4. \A t \in Slots : Records(t)' = Records(t)
  BY <1>2 DEF Records
<1>5. \A t \in Slots : table'[t].map_count = Cardinality(Records(t))
  BY <1>1, <1>2
<1>6. \A t \in Slots : table'[t].map_count = Cardinality(Records(t)')
  BY <1>4, <1>5
<1>7. \A m \in MapIds : maps'[m] # NoMap => Agrees(m)'
  BY <1>2, <1>3
<1> QED
  BY <1>6, <1>7 DEF MappingsPinTheirToken, Agrees, Records

\* A released token had a count of 0, hence no record.
LEMMA ReleasedHasNoRecord ==
    ASSUME MappingsPinTheirToken, NEW c, NEW s \in Slots, NEW g, release_impl(c, s, g)
    PROVE  Records(s) = {}
<1>1. Cardinality(Records(s)) = 0
  BY PinsMeaning DEF release_impl, NotMapped
<1> QED
  BY <1>1, RecordsFinite, FS_EmptySet

\* A release leaves the records of other slots as they are.
LEMMA PinsRelease ==
    ASSUME Pinned, NEW c \in CPUs, NEW s \in Slots, NEW g, release_impl(c, s, g)
    PROVE  MappingsPinTheirToken'
<1> USE DEF Pinned, Custody, Typed, TypeOK
<1>1. /\ \A m \in MapIds : maps[m] # NoMap => Agrees(m)
      /\ \A t \in Slots : table[t].map_count = Cardinality(Records(t))
  BY PinsMeaning
<1>2. /\ maps' = maps /\ table'[s].map_count = 0
      /\ \A t \in Slots \ {s} : table'[t] = table[t]
  BY DEF release_impl, FreeEntry
<1>3. Records(s) = {}
  BY ReleasedHasNoRecord
<1>4. ASSUME NEW m \in MapIds, maps[m] # NoMap PROVE Agrees(m)'
  <2>1. maps[m].slot \in Slots \ {s}
    BY <1>3, <1>4 DEF Records, MapRecords
  <2> QED
    BY <1>1, <1>2, <1>4, <2>1 DEF Agrees
<1>5. \A t \in Slots : Records(t)' = Records(t)
  BY <1>2 DEF Records
<1>6. Cardinality(Records(s)) = 0
  BY <1>3, FS_EmptySet
<1>7. \A t \in Slots : table'[t].map_count = Cardinality(Records(t))
  BY <1>1, <1>2, <1>6
<1>8. \A t \in Slots : table'[t].map_count = Cardinality(Records(t)')
  BY <1>5, <1>7
<1>9. \A m \in MapIds : maps'[m] # NoMap => Agrees(m)'
  BY <1>2, <1>4
<1> QED
  BY <1>8, <1>9 DEF MappingsPinTheirToken, Agrees, Records

\* A new record adds one to the count of its slot only.
LEMMA PinsAcquire ==
    ASSUME Pinned, NEW m \in MapIds, NEW s \in Slots, NEW g \in Gens, NEW o \in Owners,
           NEW w \in BOOLEAN, xtok_map_acquire(m, s, g, o, w)
    PROVE  MappingsPinTheirToken'
<1> USE DEF Pinned, Custody, Typed, TypeOK
<1>1. /\ \A k \in MapIds : maps[k] # NoMap => Agrees(k)
      /\ \A t \in Slots : table[t].map_count = Cardinality(Records(t))
  BY PinsMeaning
<1>2. /\ table[s].live /\ table[s].generation = g /\ table[s].owner = o
      /\ table'[s] = [table[s] EXCEPT !.map_count = table[s].map_count + 1]
      /\ \A t \in Slots \ {s} : table'[t] = table[t]
  BY DEF xtok_map_acquire, LookupLive
<1>3. /\ table'[s].map_count = table[s].map_count + 1
      /\ \A t \in Slots : /\ table'[t].live = table[t].live
                          /\ table'[t].generation = table[t].generation
                          /\ table'[t].owner = table[t].owner
                          /\ table'[t].phys = table[t].phys
                          /\ table'[t].n_frames = table[t].n_frames
  <2>1. table[s] \in Entries
    OBVIOUS
  <2> QED
    BY <1>2, <2>1 DEF Entries
<1>4. /\ maps[m] = NoMap
      /\ maps'[m] = [slot |-> s, gen |-> g, phys |-> table[s].phys,
                     n |-> table[s].n_frames, owner |-> o, writable |-> w]
      /\ \A k \in MapIds \ {m} : maps'[k] = maps[k]
  BY DEF xtok_map_acquire
<1>5. /\ maps'[m].slot = s /\ maps'[m].gen = g /\ maps'[m].phys = table[s].phys
      /\ maps'[m].n = table[s].n_frames /\ maps'[m].owner = o
      /\ maps'[m] # NoMap
  BY <1>4 DEF NoMap, Gens
<1>6. \A k \in MapIds : maps'[k] # NoMap => Agrees(k)'
  <2> SUFFICES ASSUME NEW k \in MapIds, maps'[k] # NoMap PROVE Agrees(k)'
    OBVIOUS
  <2>1. CASE k = m
    BY <1>2, <1>3, <1>5, <2>1 DEF Agrees
  <2>2. CASE k # m
    <3>1. maps'[k] = maps[k] /\ Agrees(k) /\ maps[k].slot \in Slots
      BY <1>1, <1>4, <2>2 DEF MapRecords
    <3> QED
      BY <1>3, <3>1 DEF Agrees
  <2> QED
    BY <2>1, <2>2
<1>7. /\ Records(s)' = Records(s) \cup {m} /\ m \notin Records(s)
      /\ \A t \in Slots \ {s} : Records(t)' = Records(t)
  BY <1>4, <1>5 DEF Records
<1>8. Cardinality(Records(s) \cup {m}) = Cardinality(Records(s)) + 1
  BY <1>7, RecordsFinite, FS_AddElement
<1>9. \A t \in Slots : table'[t].map_count = Cardinality(Records(t)')
  <2> SUFFICES ASSUME NEW t \in Slots PROVE table'[t].map_count = Cardinality(Records(t)')
    OBVIOUS
  <2>1. CASE t = s
    BY <1>1, <1>3, <1>7, <1>8, <2>1
  <2>2. CASE t # s
    <3>1. table'[t].map_count = Cardinality(Records(t))
      BY <1>1, <1>2, <2>2
    <3> QED
      BY <1>7, <2>2, <3>1
  <2> QED
    BY <2>1, <2>2
<1> QED
  BY <1>6, <1>9 DEF MappingsPinTheirToken, Agrees, Records

\* The token of a record that goes is live with a count above 0, so that the
\* guards of xtok_map_release let the decrement through.
LEMMA PinsMapRelease ==
    ASSUME Pinned, NEW m \in MapIds, xtok_map_release(m)
    PROVE  MappingsPinTheirToken'
<1> USE DEF Pinned, Custody, Typed, TypeOK
<1> SUFFICES ASSUME NEW s \in Slots, s = maps[m].slot
             PROVE  MappingsPinTheirToken'
  BY DEF MapRecords
<1>1. /\ \A k \in MapIds : maps[k] # NoMap => Agrees(k)
      /\ \A t \in Slots : table[t].map_count = Cardinality(Records(t))
  BY PinsMeaning
<1>2. maps[m] # NoMap /\ m \in Records(s)
  BY DEF xtok_map_release, Records
<1>3. /\ Cardinality(Records(s) \ {m}) = Cardinality(Records(s)) - 1
      /\ Cardinality(Records(s) \ {m}) \in Nat /\ Cardinality(Records(s)) \in Nat
  <2>1. IsFiniteSet(Records(s) \ {m})
    BY RecordsFinite, FS_RemoveElement
  <2> QED
    BY <1>2, <2>1, RecordsFinite, FS_RemoveElement, FS_CardinalityType
<1>4. table[s].map_count > 0 /\ LookupLive(s, maps[m].gen)
  BY <1>1, <1>2, <1>3 DEF Agrees, LookupLive
<1>5. /\ table'[s] = [table[s] EXCEPT !.map_count = table[s].map_count - 1]
      /\ \A t \in Slots \ {s} : table'[t] = table[t]
  BY <1>2, <1>4 DEF xtok_map_release
<1> HIDE DEF Pinned, Custody, Typed, TypeOK
<1>6. /\ table'[s].map_count = table[s].map_count - 1
      /\ \A t \in Slots : /\ table'[t].live = table[t].live
                          /\ table'[t].generation = table[t].generation
                          /\ table'[t].owner = table[t].owner
                          /\ table'[t].phys = table[t].phys
                          /\ table'[t].n_frames = table[t].n_frames
  <2>1. table[s] \in Entries
    BY DEF Pinned, Custody, Typed, TypeOK
  <2>2. \A i \in Int : LET e == [table[s] EXCEPT !.map_count = i] IN
          /\ e.map_count = i /\ e.live = table[s].live
          /\ e.generation = table[s].generation /\ e.owner = table[s].owner
          /\ e.phys = table[s].phys /\ e.n_frames = table[s].n_frames
    BY <2>1 DEF Entries
  <2>3. table[s].map_count - 1 \in Int
    BY <1>1, <1>3
  <2>4. /\ table'[s].map_count = table[s].map_count - 1
        /\ table'[s].live = table[s].live
        /\ table'[s].generation = table[s].generation
        /\ table'[s].owner = table[s].owner
        /\ table'[s].phys = table[s].phys
        /\ table'[s].n_frames = table[s].n_frames
    BY <1>5, <2>2, <2>3, Zenon
  <2> QED
    BY <1>5, <2>4
<1>7. maps'[m] = NoMap /\ \A k \in MapIds \ {m} : maps'[k] = maps[k]
  BY DEF xtok_map_release, Pinned, Custody, Typed, TypeOK
<1>8. \A k \in MapIds : maps'[k] # NoMap => Agrees(k)'
  <2> SUFFICES ASSUME NEW k \in MapIds, maps'[k] # NoMap PROVE Agrees(k)'
    OBVIOUS
  <2>1. maps'[k] = maps[k] /\ Agrees(k) /\ maps[k].slot \in Slots
    BY <1>1, <1>7 DEF Pinned, Custody, Typed, TypeOK, MapRecords
  <2> QED
    BY <1>6, <2>1 DEF Agrees
<1>9. /\ Records(s)' = Records(s) \ {m}
      /\ \A t \in Slots \ {s} : Records(t)' = Records(t)
  BY <1>7 DEF Records
<1>10. \A t \in Slots : table'[t].map_count = Cardinality(Records(t)')
  <2> SUFFICES ASSUME NEW t \in Slots PROVE table'[t].map_count = Cardinality(Records(t)')
    OBVIOUS
  <2>1. CASE t = s
    BY <1>1, <1>3, <1>6, <1>9, <2>1
  <2>2. CASE t # s
    <3>1. table'[t].map_count = Cardinality(Records(t))
      BY <1>1, <1>5, <2>2
    <3> QED
      BY <1>9, <2>2, <3>1
  <2> QED
    BY <2>1, <2>2
<1> QED
  BY <1>8, <1>10 DEF MappingsPinTheirToken, Agrees, Records

\* Every step keeps the pins.
LEMMA PinnedNext == Pinned /\ [Next]_vars => Pinned'
<1> SUFFICES ASSUME Pinned, [Next]_vars PROVE Pinned'
  OBVIOUS
<1>1. Custody'
  BY CustodyNext DEF Pinned
<1>2. CASE UNCHANGED <<table, maps>>
  BY <1>1, <1>2, PinsKept DEF Pinned
<1>3. CASE ~UNCHANGED <<table, maps>>
  <2>1. Next
    BY <1>3 DEF vars
  <2>2. \/ \E c \in CPUs, s \in Slots : seal_ram_locked(c, s)
        \/ \E c \in CPUs, s \in Slots, g \in Gens : release_impl(c, s, g)
        \/ \E m \in MapIds, s \in Slots, g \in Gens, o \in Owners, w \in BOOLEAN :
              xtok_map_acquire(m, s, g, o, w)
        \/ \E m \in MapIds : xtok_map_release(m)
    BY <1>3, <2>1, StepCases
       DEF Taking, TakeFrames, zero_frames, SealTableFull, FreeFrames, UserWrite
  <2>3. MappingsPinTheirToken'
    BY <2>2, PinsSeal, PinsRelease, PinsAcquire, PinsMapRelease
  <2> QED
    BY <1>1, <2>3 DEF Pinned
<1> QED
  BY <1>2, <1>3

\* Custody and pins together are inductive.
THEOREM AlwaysPinned == Spec => []Pinned
BY PinnedInit, PinnedNext, PTL DEF Spec

\* A mapping record stands on a live token of the same generation, owner and
\* frames for as long as it exists, and map_count counts the records.
THEOREM MappingsAlwaysPin == Spec => []MappingsPinTheirToken
<1>1. Pinned => MappingsPinTheirToken
  BY DEF Pinned
<1> QED
  BY <1>1, AlwaysPinned, PTL

-----------------------------------------------------------------------------
(* Whose bytes.  A token's frames hold zeros or its owner's bytes from the *)
(* moment it is sealed, and the frames of a call that is past zero_frames  *)
(* hold zeros until it seals them: nobody else can reach either.           *)

OwnBytes == \A s \in Slots : \A f \in Held(s) : content[f] \in {Zero, table[s].owner}
Cleared == \A c \in CPUs : op[c].pc = "seal" => \A f \in Carried(c) : content[f] = Zero

Isolated == Pinned /\ OwnBytes /\ Cleared

\* At boot nobody holds or carries a frame.
LEMMA IsolatedInit == Init => Isolated
<1> SUFFICES ASSUME Init PROVE Isolated
  OBVIOUS
<1>1. OwnBytes
  BY DEF Init, xtok_init, FreeEntry, Held, OwnBytes
<1>2. Cleared
  BY DEF Init, Idle, Cleared
<1> QED
  BY <1>1, <1>2, PinnedInit DEF Isolated

\* The bytes of frames in custody are bytes of real frames.
LEMMA InFrames ==
    ASSUME Custody
    PROVE  /\ \A s \in Slots : Held(s) \subseteq Frames
           /\ \A c \in CPUs : Carried(c) \subseteq Frames
BY BootFreeInFrames DEF Custody, NoDoubleUse

\* zero_frames clears exactly what the call carries.
LEMMA BytesZero ==
    ASSUME Isolated, NEW c \in CPUs, zero_frames(c)
    PROVE  OwnBytes' /\ Cleared'
<1> USE DEF Isolated, Pinned
<1>1. /\ Carried(c) = Span(op[c].phys, op[c].n)
      /\ content' = [f \in Frames |-> IF f \in Carried(c) THEN Zero ELSE content[f]]
      /\ \A s \in Slots : Held(s)' = Held(s) /\ table'[s] = table[s]
  BY DEF zero_frames, Carried, Held
<1>2. /\ \A d \in CPUs : Carried(d)' = Carried(d)
      /\ \A d \in CPUs \ {c} : op'[d] = op[d]
  <2>1. NothingMoves
    BY QuietSteps DEF Custody
  <2> QED
    BY <2>1 DEF NothingMoves, zero_frames, Custody, Typed, TypeOK
<1>3. OwnBytes'
  BY <1>1, InFrames DEF OwnBytes
<1>4. Cleared'
  BY <1>1, <1>2, InFrames DEF Cleared
<1> QED
  BY <1>3, <1>4

\* The frames a seal hands to an owner are cleared.
LEMMA BytesSeal ==
    ASSUME Isolated, NEW c \in CPUs, NEW s \in Slots, seal_ram_locked(c, s)
    PROVE  OwnBytes' /\ Cleared'
<1> USE DEF Isolated, Pinned, Custody, Typed, TypeOK
<1>1. /\ Held(s)' = Carried(c) /\ content' = content
      /\ \A t \in Slots \ {s} : Held(t)' = Held(t) /\ table'[t] = table[t]
  BY DEF seal_ram_locked, Held, Carried, Entries
<1>2. /\ op[c].pc = "seal" /\ op'[c].pc = "idle"
      /\ \A d \in CPUs \ {c} : Carried(d)' = Carried(d) /\ op'[d] = op[d]
  BY DEF seal_ram_locked, Idle, Carried
<1>3. OwnBytes'
  <2>1. \A f \in Held(s)' : content'[f] = Zero
    BY <1>1, <1>2 DEF Cleared
  <2>2. \A t \in Slots \ {s} : \A f \in Held(t)' : content'[f] \in {Zero, table'[t].owner}
    BY <1>1 DEF OwnBytes
  <2> QED
    BY <2>1, <2>2 DEF OwnBytes
<1>4. Cleared'
  BY <1>1, <1>2 DEF Cleared
<1> QED
  BY <1>3, <1>4

\* A store lands in the frames of the record's own token, which no other
\* token holds and no call carries.
LEMMA BytesWrite ==
    ASSUME Isolated, NEW m \in MapIds, UserWrite(m)
    PROVE  OwnBytes' /\ Cleared'
<1> USE DEF Isolated, Pinned
<1>1. PICK s \in Slots : s = maps[m].slot
  BY DEF Custody, Typed, TypeOK, MapRecords
<1>2. Agrees(m)
  BY PinsMeaning DEF UserWrite
<1>3. Held(s) = Span(maps[m].phys, maps[m].n) /\ table[s].owner = maps[m].owner
  BY <1>1, <1>2 DEF Agrees, Held
<1>4. /\ content' = [f \in Frames |-> IF f \in Held(s) THEN table[s].owner ELSE content[f]]
      /\ table' = table /\ op' = op
  BY <1>3 DEF UserWrite
<1>5. /\ \A t \in Slots : Held(t)' = Held(t)
      /\ \A c \in CPUs : Carried(c)' = Carried(c)
  BY <1>4 DEF Held, Carried
<1>6. /\ \A t \in Slots : t # s => Held(t) \cap Held(s) = {}
      /\ \A c \in CPUs : Carried(c) \cap Held(s) = {}
  BY DEF Custody, NoDoubleUse
<1>7. OwnBytes'
  BY <1>4, <1>5, <1>6, InFrames DEF OwnBytes
<1>8. Cleared'
  BY <1>4, <1>5, <1>6, InFrames DEF Cleared
<1> QED
  BY <1>7, <1>8

\* The other steps write no byte, and give no token new frames.
LEMMA BytesKept ==
    ASSUME Isolated,
           content' = content,
           \A s \in Slots : Held(s)' # {} => /\ Held(s)' = Held(s)
                                             /\ table'[s].owner = table[s].owner,
           \A c \in CPUs : op'[c].pc = "seal" => op'[c] = op[c]
    PROVE  OwnBytes' /\ Cleared'
<1>1. OwnBytes'
  BY DEF Isolated, OwnBytes
<1>2. Cleared'
  BY DEF Isolated, Cleared, Carried
<1> QED
  BY <1>1, <1>2

\* The remaining steps are such steps.
LEMMA BytesOther ==
    ASSUME Isolated,
           \/ \E c \in CPUs, o \in Owners, r \in RightSets : \E n, s : Taking(c, o, n, r, s)
           \/ \E c \in CPUs : SealTableFull(c)
           \/ \E c \in CPUs : FreeFrames(c)
           \/ \E c \in CPUs, s \in Slots, g \in Gens : release_impl(c, s, g)
           \/ \E m \in MapIds, s \in Slots, g \in Gens, o \in Owners, w \in BOOLEAN :
                 xtok_map_acquire(m, s, g, o, w)
           \/ \E m \in MapIds : xtok_map_release(m)
           \/ UNCHANGED vars
    PROVE  OwnBytes' /\ Cleared'
<1> DEFINE Kept == /\ content' = content
                   /\ \A s \in Slots : Held(s)' # {} => /\ Held(s)' = Held(s)
                                                        /\ table'[s].owner = table[s].owner
                   /\ \A c \in CPUs : op'[c].pc = "seal" => op'[c] = op[c]
<1> USE DEF Isolated, Pinned, Custody, Typed, TypeOK
<1>1. ASSUME NEW c \in CPUs, NEW o \in Owners, NEW r \in RightSets, NEW n, NEW s,
             Taking(c, o, n, r, s)
      PROVE  Kept
  BY <1>1 DEF Taking, TakeFrames, Held
<1>2. ASSUME NEW c \in CPUs, SealTableFull(c) PROVE Kept
  BY <1>2 DEF SealTableFull, Held, Calls
<1>3. ASSUME NEW c \in CPUs, FreeFrames(c) PROVE Kept
  BY <1>3 DEF FreeFrames, Idle, Held
<1>4. ASSUME NEW c \in CPUs, NEW s \in Slots, NEW g \in Gens, release_impl(c, s, g)
      PROVE  Kept
  BY <1>4 DEF release_impl, Idle, FreeEntry, Held
<1>5. ASSUME NEW m \in MapIds, NEW s \in Slots, NEW g \in Gens, NEW o \in Owners,
             NEW w \in BOOLEAN, xtok_map_acquire(m, s, g, o, w)
      PROVE  Kept
  BY <1>5 DEF xtok_map_acquire, Entries, Held
<1>6. ASSUME NEW m \in MapIds, xtok_map_release(m) PROVE Kept
  BY <1>6 DEF xtok_map_release, Entries, MapRecords, Held
<1>7. ASSUME UNCHANGED vars PROVE Kept
  BY <1>7 DEF vars, Held
<1>8. Kept
  BY <1>1, <1>2, <1>3, <1>4, <1>5, <1>6, <1>7
<1> QED
  BY <1>8, BytesKept

\* Every step keeps foreign bytes out.
LEMMA IsolatedNext == Isolated /\ [Next]_vars => Isolated'
<1> SUFFICES ASSUME Isolated, [Next]_vars PROVE Isolated'
  OBVIOUS
<1>1. Pinned'
  BY PinnedNext DEF Isolated
<1>2. OwnBytes' /\ Cleared'
  <2>1. CASE Next
    BY <2>1, StepCases, BytesZero, BytesSeal, BytesWrite, BytesOther
  <2>2. CASE UNCHANGED vars
    BY <2>2, BytesOther
  <2> QED
    BY <2>1, <2>2
<1> QED
  BY <1>1, <1>2 DEF Isolated

\* Pins, own bytes and cleared calls together are inductive.
THEOREM AlwaysIsolated == Spec => []Isolated
BY IsolatedInit, IsolatedNext, PTL DEF Spec

\* Through a mapping an owner sees zeros or its own bytes, and nothing of the
\* owners who held the frames before.
THEOREM NeverForeignBytes == Spec => []NoForeignBytes
<1>1. Isolated => NoForeignBytes
  <2> SUFFICES ASSUME Isolated, NEW m \in MapIds, maps[m] # NoMap,
                      NEW f \in Span(maps[m].phys, maps[m].n)
               PROVE  content[f] \in {Zero, maps[m].owner}
    BY DEF NoForeignBytes
  <2>1. Agrees(m) /\ maps[m].slot \in Slots
    BY PinsMeaning DEF Isolated, Pinned, Custody, Typed, TypeOK, MapRecords
  <2>2. f \in Held(maps[m].slot)
    BY <2>1 DEF Agrees, Held
  <2> QED
    BY <2>1, <2>2 DEF Isolated, OwnBytes, Agrees
<1> QED
  BY <1>1, AlwaysIsolated, PTL

-----------------------------------------------------------------------------
(* Tokens do not change.                                                   *)

Immutable(s) ==
    table[s].live =>
        \/ /\ table'[s].live /\ table'[s].generation = table[s].generation
           /\ Held(s)' = Held(s) /\ table'[s].owner = table[s].owner
           /\ table'[s].rights = table[s].rights
        \/ ~table'[s].live /\ \A m \in MapIds : maps'[m].slot = s => maps'[m] = NoMap

\* What one step does to the live tokens.
LEMMA StepKeepsTokens ==
    ASSUME Pinned, [Next]_vars, NEW s \in Slots
    PROVE  Immutable(s)
<1> USE DEF Pinned, Custody, Typed, TypeOK
<1>1. CASE table'[s] = table[s]
  BY <1>1 DEF Immutable, Held
<1>2. ASSUME NEW c \in CPUs, NEW t \in Slots, seal_ram_locked(c, t) PROVE Immutable(s)
  BY <1>1, <1>2 DEF seal_ram_locked, Claimable, Immutable
<1>3. ASSUME NEW c \in CPUs, NEW t \in Slots, NEW g \in Gens, release_impl(c, t, g)
      PROVE  Immutable(s)
  <2>1. CASE t = s
    <3>1. Records(s) = {}
      BY <1>3, <2>1, ReleasedHasNoRecord
    <3> QED
      BY <1>3, <2>1, <3>1 DEF release_impl, FreeEntry, Records, Immutable
  <2>2. CASE t # s
    BY <1>1, <1>3, <2>2 DEF release_impl
  <2> QED
    BY <2>1, <2>2
<1>4. ASSUME NEW m \in MapIds, NEW t \in Slots, NEW g \in Gens, NEW o \in Owners,
             NEW w \in BOOLEAN, xtok_map_acquire(m, t, g, o, w)
      PROVE  Immutable(s)
  BY <1>4 DEF xtok_map_acquire, Entries, Immutable, Held
<1>5. ASSUME NEW m \in MapIds, xtok_map_release(m) PROVE Immutable(s)
  BY <1>5 DEF xtok_map_release, Entries, MapRecords, Immutable, Held
<1>6. CASE table'[s] # table[s]
  <2>1. Next
    BY <1>6 DEF vars
  <2> QED
    BY <1>2, <1>3, <1>4, <1>5, <1>6, <2>1, StepCases
       DEF Taking, TakeFrames, zero_frames, SealTableFull, FreeFrames, UserWrite
<1> QED
  BY <1>1, <1>6

\* A live token leaves the table only by a release, with no mapping on it, and
\* keeps its generation, frames, owner and rights until then.
THEOREM TokensNeverChange == Spec => TokensAreImmutable
<1>1. Pinned /\ [Next]_vars =>
        [\A s \in Slots : table[s].live =>
           \/ table'[s].live /\ table'[s].generation = table[s].generation
              /\ Held(s)' = Held(s) /\ table'[s].owner = table[s].owner
              /\ table'[s].rights = table[s].rights
           \/ ~table'[s].live /\ \A m \in MapIds : maps'[m].slot = s => maps'[m] = NoMap]_vars
  BY StepKeepsTokens DEF Immutable
<1> QED
  BY <1>1, AlwaysPinned, PTL DEF Spec, TokensAreImmutable
=============================================================================
