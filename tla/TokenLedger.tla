----------------------------- MODULE TokenLedger -----------------------------
(***************************************************************************)
(* The token ledger of xeret (mem/token_ledger.c) over the frame allocator *)
(* of module Physical: capabilities ("tokens") for runs of RAM frames.     *)
(*                                                                         *)
(* A token is a slot of a fixed table and the generation the slot had when *)
(* it was sealed.  The ledger and the allocator have a lock each that is   *)
(* never held while the other is taken, so that an allocation or a release *)
(* is several atomic steps and other CPUs run between them.  op[c] is the  *)
(* call CPU c is inside of; a call that fails changes nothing but its      *)
(* return value and is not a step.                                         *)
(*                                                                         *)
(* The callers are represented by what they keep: maps is the mapping      *)
(* records of the address spaces (paging.c), each holding a pin on its     *)
(* token, and content says whose bytes a frame holds.                      *)
(***************************************************************************)
EXTENDS Physical, Sequences

CONSTANTS
    NSlots,         \* XTOK_TABLE_SLOTS
    GenMod,         \* 2^32: generations are 1 .. GenMod-1
    MaxMap,         \* 0xFFFF: map_count saturates here
    Owners,         \* the process owner ids
    RightSets,      \* the rights masks an owner asks for, as sets of rights
    Sizes,          \* the n_frames an owner asks for
    CPUs,
    MapIds          \* the mapping records the address spaces have room for

ASSUME LedgerAssumption ==
    /\ NSlots \in Nat \ {0}
    /\ GenMod \in Nat /\ GenMod > 2
    /\ MaxMap \in Nat \ {0}
    /\ Sizes \subseteq Nat \ {0}
    /\ IsFiniteSet(MapIds)

Slots == 0 .. (NSlots - 1)
Gens  == 1 .. (GenMod - 1)

Nobody == "nobody"      \* owner_id 0 of an entry that is not live
ASSUME NobodyAssumption == Nobody \notin Owners

VARIABLES
    table,          \* g_table
    g_live,
    g_next_hint,
    op,             \* per CPU: the allocation or release in progress
    maps,           \* mapping records of the address spaces
    content,        \* per frame: whose bytes it holds
    issued          \* history, per slot: the last GenMod-1 generations sealed

ledgerVars == <<table, g_live, g_next_hint>>
vars == <<bits, free_frames, used_frames, table, g_live, g_next_hint,
          op, maps, content, issued>>

Idle == [pc |-> "idle", phys |-> 0, n |-> 0, owner |-> Nobody, rights |-> {}]
NoMap == [slot |-> 0, gen |-> 0, phys |-> 0, n |-> 0, owner |-> Nobody,
          writable |-> FALSE]
FreeEntry(gen) == [live |-> FALSE, generation |-> gen, owner |-> Nobody,
                   rights |-> {}, phys |-> 0, n_frames |-> 0, map_count |-> 0]
Zero == "zero"

xtok_init ==
    /\ table = [s \in Slots |-> FreeEntry(1)]
    /\ g_live = 0
    /\ g_next_hint = 0

Init ==
    /\ phys_init_from_handoff
    /\ xtok_init
    /\ op = [c \in CPUs |-> Idle]
    /\ maps = [m \in MapIds |-> NoMap]
    /\ content = [f \in Frames |-> Nobody]      \* what firmware left there
    /\ issued = [s \in Slots |-> <<>>]

\* Mutant: the generation is not compared.
LookupSlotOnly(slot, gen) == table[slot].live

\* lookup_live: the token names a live slot of the same generation.
LookupLive(slot, gen) == table[slot].live /\ table[slot].generation = gen

\* How far the scan of claim_slot goes before it looks at slot s.
ScanDistance(s) == IF s >= g_next_hint THEN s - g_next_hint
                                       ELSE s + NSlots - g_next_hint

\* claim_slot: the first slot from the hint, round the table, that is free.
Claimable == {s \in Slots :
                /\ ~table[s].live
                /\ \A r \in Slots : ScanDistance(r) < ScanDistance(s) => table[r].live}

-----------------------------------------------------------------------------
(* xtok_alloc_ram and xtok_alloc_ram_huge.                                 *)

\* The frames are taken from the bitmap, under the allocator's lock.  Frame 0
\* is indistinguishable from failure: the call returns without them.
TakeFrames(c, o, n, r, s) ==
    /\ op[c].pc = "idle"
    /\ op' = IF s = 0 THEN op
             ELSE [op EXCEPT ![c] = [pc |-> "zero", phys |-> s, n |-> n,
                                     owner |-> o, rights |-> r]]
    /\ UNCHANGED <<table, g_live, g_next_hint, maps, content, issued>>

xtok_alloc_ram(c, o, n, r) ==
    \E s \in Frames : phys_alloc_frames(n, s) /\ TakeFrames(c, o, n, r, s)

xtok_alloc_ram_huge(c, o, r) ==
    \E s \in Frames : phys_alloc_huge(s) /\ TakeFrames(c, o, HugeFrames, r, s)

\* Mutant: the last frame is not cleared.
ZeroShort(c) ==
    /\ op[c].pc = "zero"
    /\ content' = [f \in Frames |-> IF f \in Span(op[c].phys, op[c].n - 1)
                                    THEN Zero ELSE content[f]]
    /\ op' = [op EXCEPT ![c].pc = "seal"]
    /\ UNCHANGED <<bits, free_frames, used_frames, table, g_live, g_next_hint,
                   maps, issued>>

\* No lock: the frames belong to this call alone.
zero_frames(c) ==
    /\ op[c].pc = "zero"
    /\ content' = [f \in Frames |-> IF f \in Span(op[c].phys, op[c].n)
                                    THEN Zero ELSE content[f]]
    /\ op' = [op EXCEPT ![c].pc = "seal"]
    /\ UNCHANGED <<bits, free_frames, used_frames, table, g_live, g_next_hint,
                   maps, issued>>

\* map_count is not among the fields the seal sets: a free entry has it 0.
seal_ram_locked(c, s) ==
    /\ op[c].pc = "seal"
    /\ s \in Claimable
    /\ table' = [table EXCEPT ![s] = [@ EXCEPT !.live = TRUE,
                                               !.owner = op[c].owner,
                                               !.rights = op[c].rights,
                                               !.phys = op[c].phys,
                                               !.n_frames = op[c].n]]
    /\ g_live' = g_live + 1
    /\ g_next_hint' = IF s + 1 = NSlots THEN 0 ELSE s + 1
    /\ issued' = [issued EXCEPT ![s] =
                    LET q == Append(@, table[s].generation)
                    IN  IF Len(q) = GenMod THEN Tail(q) ELSE q]
    /\ op' = [op EXCEPT ![c] = Idle]
    /\ UNCHANGED <<bits, free_frames, used_frames, maps, content>>

\* Mutant: a full table loses the frames.
FullTableDropsFrames(c) ==
    /\ op[c].pc = "seal"
    /\ \A s \in Slots : table[s].live
    /\ op' = [op EXCEPT ![c] = Idle]
    /\ UNCHANGED <<bits, free_frames, used_frames, table, g_live, g_next_hint,
                   maps, content, issued>>

\* seal_ram_locked with every slot live: the frames go back.
SealTableFull(c) ==
    /\ op[c].pc = "seal"
    /\ \A s \in Slots : table[s].live
    /\ op' = [op EXCEPT ![c].pc = "free"]
    /\ UNCHANGED <<bits, free_frames, used_frames, table, g_live, g_next_hint,
                   maps, content, issued>>

\* phys_free_frames, after the ledger's lock is released: the last step of a
\* failed allocation and of a release.
FreeFrames(c) ==
    /\ op[c].pc = "free"
    /\ phys_free_frames(op[c].phys, op[c].n)
    /\ op' = [op EXCEPT ![c] = Idle]
    /\ UNCHANGED <<table, g_live, g_next_hint, maps, content, issued>>

-----------------------------------------------------------------------------
(* Release: one implementation, three ways in.                             *)

\* Mutants: the wrap does not skip 0; the generation is not bumped.
WrapThroughZero(g) == (g + 1) % GenMod
SameGeneration(g) == g

\* generation++, and 1 in place of 0 when it wraps.
NextGeneration(g) == IF g + 1 = GenMod THEN 1 ELSE g + 1

\* Mutant: a mapped token may be released.
AnyPins(e) == TRUE

\* The EBUSY check.
NotMapped(e) == e.map_count = 0

release_impl(c, slot, gen) ==
    LET e == table[slot] IN
    /\ op[c].pc = "idle"
    /\ LookupLive(slot, gen)
    /\ NotMapped(e)
    /\ table' = [table EXCEPT ![slot] = FreeEntry(NextGeneration(e.generation))]
    /\ g_live' = IF g_live > 0 THEN g_live - 1 ELSE g_live
    /\ op' = [op EXCEPT ![c] = [Idle EXCEPT !.pc = "free", !.phys = e.phys,
                                            !.n = e.n_frames]]
    /\ UNCHANGED <<bits, free_frames, used_frames, g_next_hint, maps, content, issued>>

\* Holder-initiated, from the syscall layer: the caller must own the token
\* and the token must carry the RELEASE right.
xtok_release_owned(c, slot, gen, o) ==
    /\ table[slot].owner = o
    /\ "RELEASE" \in table[slot].rights
    /\ release_impl(c, slot, gen)

\* The kernel's own holders: the right, whoever the owner is.
xtok_release(c, slot, gen) ==
    /\ "RELEASE" \in table[slot].rights
    /\ release_impl(c, slot, gen)

\* Kernel-initiated: ignores rights and owner.
xtok_reclaim(c, slot, gen) == release_impl(c, slot, gen)

-----------------------------------------------------------------------------
(* The map gate, and the address spaces that use it.                       *)

\* xtok_map_acquire checks and pins in one critical section; xas_map then
\* keeps a mapping record that remembers the token and the frames.
xtok_map_acquire(m, slot, gen, o, w) ==
    LET e == table[slot]
        need == {"MAP", "READ"} \cup (IF w THEN {"WRITE"} ELSE {}) IN
    /\ maps[m] = NoMap
    /\ LookupLive(slot, gen)
    /\ e.owner = o
    /\ need \subseteq e.rights
    /\ e.map_count # MaxMap
    /\ table' = [table EXCEPT ![slot].map_count = @ + 1]
    /\ maps' = [maps EXCEPT ![m] = [slot |-> slot, gen |-> gen, phys |-> e.phys,
                                    n |-> e.n_frames, owner |-> o, writable |-> w]]
    /\ UNCHANGED <<bits, free_frames, used_frames, g_live, g_next_hint, op,
                   content, issued>>

\* The record's owner gives the mapping up (unmap, or destruction of the
\* address space); a stale token or a count of 0 is left alone.
xtok_map_release(m) ==
    LET r == maps[m] IN
    /\ r # NoMap
    /\ maps' = [maps EXCEPT ![m] = NoMap]
    /\ table' = IF LookupLive(r.slot, r.gen) /\ table[r.slot].map_count > 0
                THEN [table EXCEPT ![r.slot].map_count = @ - 1]
                ELSE table
    /\ UNCHANGED <<bits, free_frames, used_frames, g_live, g_next_hint, op,
                   content, issued>>

\* A program stores through one of its writable mappings.
UserWrite(m) ==
    /\ maps[m] # NoMap
    /\ maps[m].writable
    /\ content' = [f \in Frames |-> IF f \in Span(maps[m].phys, maps[m].n)
                                    THEN maps[m].owner ELSE content[f]]
    /\ UNCHANGED <<bits, free_frames, used_frames, table, g_live, g_next_hint,
                   op, maps, issued>>

-----------------------------------------------------------------------------
CpuStep(c) ==
    \/ \E o \in Owners, r \in RightSets :
          \/ \E n \in Sizes : xtok_alloc_ram(c, o, n, r)
          \/ xtok_alloc_ram_huge(c, o, r)
    \/ zero_frames(c)
    \/ \E s \in Slots : seal_ram_locked(c, s)
    \/ SealTableFull(c)
    \/ FreeFrames(c)
    \/ \E s \in Slots, g \in Gens :
          \/ \E o \in Owners : xtok_release_owned(c, s, g, o)
          \/ xtok_release(c, s, g)
          \/ xtok_reclaim(c, s, g)

MapStep(m) ==
    \/ \E s \in Slots, g \in Gens, o \in Owners, w \in BOOLEAN :
          xtok_map_acquire(m, s, g, o, w)
    \/ xtok_map_release(m)
    \/ UserWrite(m)

Next == (\E c \in CPUs : CpuStep(c)) \/ (\E m \in MapIds : MapStep(m))

Spec == Init /\ [][Next]_vars

-----------------------------------------------------------------------------
(* What the ledger and the allocator promise together.                     *)

Entries == [live : BOOLEAN, generation : Gens, owner : Owners \cup {Nobody},
            rights : SUBSET UNION RightSets, phys : Frames,
            n_frames : 0 .. TotalFrames, map_count : 0 .. MaxMap]
Calls == [pc : {"idle", "zero", "seal", "free"}, phys : Frames,
          n : 0 .. TotalFrames, owner : Owners \cup {Nobody},
          rights : SUBSET UNION RightSets]
MapRecords == [slot : Slots, gen : Gens \cup {0}, phys : Frames,
               n : 0 .. TotalFrames, owner : Owners \cup {Nobody},
               writable : BOOLEAN]

\* Every field stays in the width the code gives it: a generation is never 0
\* (XTOK_NULL), map_count never passes its 16 bits, and g_live never goes
\* below 0 nor past the table.
TypeOK ==
    /\ PhysTypeOK
    /\ table \in [Slots -> Entries]
    /\ g_live \in 0 .. NSlots
    /\ g_next_hint \in Slots
    /\ op \in [CPUs -> Calls]
    /\ maps \in [MapIds -> MapRecords]
    /\ content \in [Frames -> Owners \cup {Nobody, Zero}]
    /\ issued \in [Slots -> Seq(Gens)]

\* The frames a live token stands for, and the frames a call is carrying
\* between the bitmap and the table.
Held(s) == IF table[s].live THEN Span(table[s].phys, table[s].n_frames) ELSE {}
Carried(c) == IF op[c].pc # "idle" THEN Span(op[c].phys, op[c].n) ELSE {}

\* No frame has two holders: a frame of a live token is neither free, nor
\* reserved at boot, nor in another live token, nor carried by a call on any
\* CPU (phys_alloc_frames and the release path hand frames over with no lock
\* held in between).
NoDoubleUse ==
    /\ \A s \in Slots : Held(s) \subseteq BootFree \ bits
    /\ \A c \in CPUs : Carried(c) \subseteq BootFree \ bits
    /\ \A s \in Slots, t \in Slots : s # t => Held(s) \cap Held(t) = {}
    /\ \A c \in CPUs, d \in CPUs : c # d => Carried(c) \cap Carried(d) = {}
    /\ \A s \in Slots, c \in CPUs : Held(s) \cap Carried(c) = {}

\* No frame is lost: whatever boot declared free is free, held or carried,
\* also when the table is full and when the search ends at frame 0.
NoLeak ==
    \A f \in BootFree :
        \/ f \in bits
        \/ \E s \in Slots : f \in Held(s)
        \/ \E c \in CPUs : f \in Carried(c)

\* The counters the quota and status code trusts agree with what they count:
\* free_frames and used_frames with the bitmap, g_live with the table.
CountersExact ==
    /\ free_frames = Cardinality(bits)
    /\ used_frames = TotalFrames - free_frames
    /\ g_live = Cardinality({s \in Slots : table[s].live})

\* A mapping record stands on its token for as long as it exists: the token
\* is live, of the same generation, owner and frames, and its map_count is
\* the number of records on it, so that a release while mapped is refused.
MappingsPinTheirToken ==
    /\ \A m \in MapIds : maps[m] # NoMap =>
         LET r == maps[m]  e == table[r.slot] IN
         /\ e.live /\ e.generation = r.gen
         /\ r.phys = e.phys /\ r.n = e.n_frames /\ r.owner = e.owner
    /\ \A s \in Slots :
         table[s].map_count = Cardinality({m \in MapIds : maps[m] # NoMap /\ maps[m].slot = s})

\* "An exokernel must never hand one owner another's data" (zero_frames): what
\* an owner can reach through a mapping is zeros or its own bytes, however
\* frames were recycled before.
NoForeignBytes ==
    \A m \in MapIds : maps[m] # NoMap =>
        \A f \in Span(maps[m].phys, maps[m].n) : content[f] \in {Zero, maps[m].owner}

\* A token a holder kept after its release stays dead while its slot is
\* recycled: no generation comes back before all the others of the slot
\* have been used, through the wrap that skips 0.
StaleTokensStayDead ==
    \A s \in Slots : \A i, j \in DOMAIN issued[s] :
        i # j => issued[s][i] # issued[s][j]

\* A token can leave the table only through a release, and never while a
\* mapping stands on it; and a token never changes its frames or its owner.
TokensAreImmutable ==
    [][\A s \in Slots : table[s].live =>
         \/ table'[s].live /\ table'[s].generation = table[s].generation
            /\ Held(s)' = Held(s) /\ table'[s].owner = table[s].owner
            /\ table'[s].rights = table[s].rights
         \/ ~table'[s].live /\ \A m \in MapIds : maps'[m].slot = s => maps'[m] = NoMap]_vars
=============================================================================
