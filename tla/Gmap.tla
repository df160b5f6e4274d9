-------------------------------- MODULE Gmap --------------------------------
(***************************************************************************)
(* The EXFS group map (core/exfs/gmap.c): the free-block bitmap, one block *)
(* per group of GB blocks, kept twice on disk (the committed slot and the  *)
(* pending one) and cached in RAM CacheSize groups at a time.              *)
(*                                                                         *)
(* A group map is a record m of the fields the code's GMap has:            *)
(*   slot, written, free   per group, as in the code                       *)
(*   cache                 the valid entries, least recently used first,   *)
(*                         each [g, bits, dirty]; the stamps order them    *)
(* and a bitmap is the set of the blocks that are in use.  The disk is a   *)
(* function d from block numbers to contents.                              *)
(*                                                                         *)
(* Every function that does I/O is the SET of its outcomes, because the    *)
(* device may fail: f counts the failures so far and MaxFaults bounds      *)
(* them.  An outcome is a record with the new m, d and f.                  *)
(***************************************************************************)
EXTENDS Integers, Sequences, FiniteSets, SequencesExt, FiniteSetsExt

CONSTANTS
    Total,          \* blocks on the volume
    GB,             \* GMAP_GROUP_MAX: blocks per group
    DataStart,      \* EXFS_DATA_START: superblocks and table areas end here
    CacheSize,      \* GMAP_CACHE
    MaxFaults,      \* bound on device errors in a behaviour
    ForgetFaults    \* a device error may hit where the code drops a map change

ASSUME GmapAssumption ==
    /\ Total \in Nat /\ GB \in Nat /\ DataStart \in Nat /\ CacheSize \in Nat \ {0}
    /\ MaxFaults \in Nat /\ ForgetFaults \in BOOLEAN
    /\ DataStart + 2 <= GB /\ DataStart + 2 <= Total

NGroups == (Total + GB - 1) \div GB
Groups == 0 .. (NGroups - 1)
Blocks == 0 .. (Total - 1)

Torn == [kind |-> "torn"]       \* a block a failed write left half done
MapBlock(bits) == [kind |-> "map", bits |-> bits]
BitsOf(c) == IF c.kind = "map" THEN c.bits ELSE {}

-----------------------------------------------------------------------------
(* The block device (core/blk): a request past the end is refused; a write *)
(* that reports an error may have reached the disk or not, or in part.     *)

blk_put(d, f, b, new) ==
    IF b \notin Blocks THEN {[ok |-> FALSE, d |-> d, f |-> f]}
    ELSE {[ok |-> TRUE, d |-> [d EXCEPT ![b] = new], f |-> f]} \cup
         {[ok |-> FALSE, d |-> [d EXCEPT ![b] = c], f |-> f + 1] :
             c \in IF f < MaxFaults THEN {d[b], new, Torn} ELSE {}}

blk_got(f, b) ==
    IF b \notin Blocks THEN {[ok |-> FALSE, f |-> f]}
    ELSE {[ok |-> TRUE, f |-> f]} \cup
         (IF f < MaxFaults THEN {[ok |-> FALSE, f |-> f + 1]} ELSE {})

-----------------------------------------------------------------------------
slot_block(g, s) == (IF g = 0 THEN DataStart ELSE g * GB) + s

GroupBlocks(g) == (g * GB) .. (g * GB + GB - 1)
GroupOf(b) == b \div GB

\* fresh_bits: the reserved blocks of the group and the bits past the end of
\* the volume are in use.
fresh_bits(g) ==
    LET reserved == (IF g = 0 THEN DataStart ELSE 0) + 2
    IN  {b \in GroupBlocks(g) : b - g * GB < reserved \/ b >= Total}

gmap_init == [slot    |-> [g \in Groups |-> 0],
              written |-> [g \in Groups |-> FALSE],
              free    |-> [g \in Groups |-> 0],
              cache   |-> <<>>]

gmap_import(slot, free) == [gmap_init EXCEPT !.slot = slot, !.free = free]

\* One turn of the loop of gmap_format: group g at slot 0.
Formatted(m, g, ok) == [m EXCEPT !.free[g] = GB - Cardinality(fresh_bits(g)),
                                 !.slot[g] = IF ok THEN 0 ELSE @]
gmap_format_group(m, d, f, g) ==
    {[ok |-> w.ok, d |-> w.d, f |-> w.f, m |-> Formatted(m, g, w.ok)] :
        w \in blk_put(d, f, slot_block(g, 0), MapBlock(fresh_bits(g)))}

\* Mutant: the committed slot is overwritten.
FlushToCommitted(m, d, f, i) ==
    LET e == m.cache[i] IN
    {[ok |-> w.ok, d |-> w.d, f |-> w.f,
      m |-> IF w.ok THEN [m EXCEPT !.cache[i].dirty = FALSE] ELSE m] :
        w \in blk_put(d, f, slot_block(e.g, m.slot[e.g]), MapBlock(e.bits))}

\* flush_one: a dirty entry goes to its group's pending slot.  i is its place
\* in the cache.
flush_one(m, d, f, i) ==
    LET e == m.cache[i] IN
    {[ok |-> w.ok, d |-> w.d, f |-> w.f,
      m |-> IF w.ok THEN [m EXCEPT !.written[e.g] = TRUE, !.cache[i].dirty = FALSE]
                    ELSE m] :
        w \in blk_put(d, f, slot_block(e.g, 1 - m.slot[e.g]), MapBlock(e.bits))}

\* The slot that has the newest copy of a group that is not in the cache.
NewestSlot(m, g) == IF m.written[g] THEN 1 - m.slot[g] ELSE m.slot[g]

\* The read at the end of load, into a cache that has room.  On an error the
\* entry stays invalid.
ReadGroup(m, d, f, g) ==
    LET b == slot_block(g, NewestSlot(m, g)) IN
    {[ok |-> r.ok, d |-> d, f |-> r.f,
      m |-> IF r.ok THEN [m EXCEPT !.cache = Append(@, [g |-> g, dirty |-> FALSE,
                                                        bits |-> BitsOf(d[b])])]
                    ELSE m] : r \in blk_got(f, b)}

\* A full cache loses its least recently used entry.  A dirty one is flushed
\* first; when that fails the entry is made invalid, with the changes in it,
\* and load gives up: that outcome is followed under ForgetFaults.
Evict(m, d, f) ==
    LET dropped(n) == [n EXCEPT !.cache = Tail(@)] IN
    IF m.cache[1].dirty
    THEN {[w EXCEPT !.m = dropped(@)] :
             w \in {v \in flush_one(m, d, f, 1) : v.ok \/ ForgetFaults}}
    ELSE {[ok |-> TRUE, m |-> dropped(m), d |-> d, f |-> f]}

\* The places in the cache that hold the group: one or none.
Cached(m, g) == {i \in DOMAIN m.cache : m.cache[i].g = g}

\* load: after a success the group is the last entry of the cache.
load(m, d, f, g) ==
    IF Cached(m, g) # {}
    THEN LET i == CHOOSE i \in Cached(m, g) : TRUE
         IN  {[ok |-> TRUE, d |-> d, f |-> f,
               m |-> [m EXCEPT !.cache = Append(RemoveAt(@, i), @[i])]]}
    ELSE LET room == IF Len(m.cache) < CacheSize
                     THEN {[ok |-> TRUE, m |-> m, d |-> d, f |-> f]}
                     ELSE Evict(m, d, f)
         IN  UNION {IF v.ok THEN ReadGroup(v.m, v.d, v.f, g) ELSE {v} : v \in room}

\* The bitmap of the group load has just brought in, replaced, and its count.
PutBits(m, g, bits, free) ==
    [m EXCEPT !.cache[Len(m.cache)].bits = bits, !.cache[Len(m.cache)].dirty = TRUE,
              !.free[g] = free]
LoadedBits(m) == m.cache[Len(m.cache)].bits

-----------------------------------------------------------------------------
(* gmap_take: turn k of its loop, 0 <= k <= NGroups.                       *)

\* The first group is searched from the hint, then the others from their
\* start, then the first again from its start.
SearchGroup(hint, k) ==
    LET g0 == IF GroupOf(hint) >= NGroups THEN 0 ELSE GroupOf(hint)
    IN  (g0 + k) % NGroups
SearchFrom(hint, k) ==
    IF k = 0 /\ GroupOf(hint) < NGroups THEN hint ELSE SearchGroup(hint, k) * GB

\* The first free block and the free blocks after it, at most need of them.
FirstRun(bits, from, g, need) ==
    LET free == {b \in GroupBlocks(g) : b >= from /\ b < Total /\ b \notin bits}
        i == Min(free)
        run == {n \in 1 .. need : \A b \in i .. (i + n - 1) : b \in free}
    IN  IF free = {} THEN [start |-> 0, len |-> 0] ELSE [start |-> i, len |-> Max(run)]

\* The blocks of an extent.
ExtSpan(e) == e.start .. (e.start + e.len - 1)

\* Outcome res: "found" with the extent ext, "next" to go on, "eio".
TakeFrom(v, from, g, need) ==
    LET e == FirstRun(LoadedBits(v.m), from, g, need)
        none == [start |-> 0, len |-> 0]
    IN  IF ~v.ok THEN [res |-> "eio", ext |-> none, m |-> v.m, d |-> v.d, f |-> v.f]
        ELSE IF e.len = 0 THEN [res |-> "next", ext |-> none, m |-> v.m, d |-> v.d, f |-> v.f]
        ELSE [res |-> "found", ext |-> e, d |-> v.d, f |-> v.f,
              m |-> PutBits(v.m, g, LoadedBits(v.m) \cup ExtSpan(e), v.m.free[g] - e.len)]
gmap_take(m, d, f, hint, need, k) ==
    LET g == SearchGroup(hint, k) IN
    IF m.free[g] = 0
    THEN {[res |-> "next", ext |-> [start |-> 0, len |-> 0], m |-> m, d |-> d, f |-> f]}
    ELSE {TakeFrom(v, SearchFrom(hint, k), g, need) : v \in load(m, d, f, g)}

\* gmap_release of one extent, whose blocks lie in one group.  A block that
\* is already free stops it.
ReleaseIn(v, e) ==
    LET g == GroupOf(e.start)
        bits == LoadedBits(v.m)
        done == {b \in ExtSpan(e) : \A c \in e.start .. b : c \in bits}
    IN  IF ~v.ok THEN v
        ELSE [ok |-> done = ExtSpan(e), d |-> v.d, f |-> v.f,
              m |-> IF done = {} THEN v.m
                    ELSE PutBits(v.m, g, bits \ done, v.m.free[g] + Cardinality(done))]
gmap_release(m, d, f, e) == {ReleaseIn(v, e) : v \in load(m, d, f, GroupOf(e.start))}

\* gmap_export: the tables the superblock must hold.
ExportSlots(m) == [g \in Groups |-> NewestSlot(m, g)]

gmap_commit(m) == [m EXCEPT !.slot = ExportSlots(m),
                            !.written = [g \in Groups |-> FALSE]]

gmap_free_total(m) == MapThenSumSet(LAMBDA g : m.free[g], Groups)

\* The blocks in use as the group map sees them: its newest copy of each group.
GroupBits(m, d, g) ==
    IF Cached(m, g) # {} THEN m.cache[CHOOSE i \in Cached(m, g) : TRUE].bits
    ELSE BitsOf(d[slot_block(g, NewestSlot(m, g))])
UsedBlocks(m, d) == (UNION {GroupBits(m, d, g) : g \in Groups}) \cap Blocks
=============================================================================
