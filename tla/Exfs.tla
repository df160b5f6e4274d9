-------------------------------- MODULE Exfs --------------------------------
(***************************************************************************)
(* EXFS (core/exfs/exfs.c, sb.c) over the group map of module Gmap: inode  *)
(* table, extents, copy-on-write content, and the commit protocol, on a    *)
(* disk that can fail and a machine that can stop between any two writes.  *)
(*                                                                         *)
(* The code is single-threaded.  A call that does I/O is a sequence of     *)
(* steps, one per block written or group loaded, so that Crash can happen  *)
(* between them; job is where the running call is.  A call that fails      *)
(* before it has changed anything is not a step.                           *)
(*                                                                         *)
(* A block holds Cells cells (standing for 4096 bytes); file sizes,        *)
(* offsets and lengths are in cells, so that blocks can be partly used.    *)
(* On disk a superblock, an inode table block, a group bitmap, a chain     *)
(* block and a data block are records told apart by kind.                  *)
(***************************************************************************)
EXTENDS Gmap, Functions, TLC

CONSTANTS
    NInodes,        \* EXFS_INODES
    ITabBlocks,     \* EXFS_ITAB_BLOCKS
    Inl,            \* EXFS_INL
    IndExt,         \* EXFS_IND_EXT
    MaxExt,         \* EXFS_MAX_EXT
    MaxChain,       \* EXFS_MAX_CHAIN
    DeferMax,       \* EXFS_DEFER_MAX
    PoolExt,        \* EXFS_POOL_EXT
    PoolMinCap,     \* POOL_MIN_CAP
    Cells,          \* cells per block
    Names, FormatNames, WriteArgs, WriteAtArgs,    \* as in ExfsAbs
    MaxGen,         \* bound on the generation
    MaxOps,         \* bound on the names and content operations in a behaviour
    MaxFormats,     \* bound on formats in a behaviour
    VolatileCache,  \* the device acknowledges writes it may lose or reorder in a crash
    SbReadFaults    \* a device error may hit the superblock reads of a mount

ASSUME ExfsAssumption ==
    /\ DataStart = 2 + 2 * ITabBlocks
    /\ NInodes % ITabBlocks = 0
    /\ Inl + MaxChain * IndExt >= MaxExt
    /\ Len(FormatNames) \in 0 .. NInodes
    /\ {NInodes, ITabBlocks, IndExt, Cells, MaxGen} \subseteq Nat \ {0}
    /\ {Inl, MaxExt, MaxChain, DeferMax, MaxOps, MaxFormats} \subseteq Nat
    /\ \A a \in WriteArgs : a[1] \in Nat
    /\ \A a \in WriteAtArgs : a[1] \in Nat /\ a[2] \in Nat
    /\ VolatileCache \in BOOLEAN /\ SbReadFaults \in BOOLEAN

Inodes == 0 .. (NInodes - 1)

VARIABLES
    disk,       \* block -> content, as reads return it
    stable,     \* what a crash cannot take away: disk, unless VolatileCache
    gm,         \* V.gm
    vol,        \* V.mounted, V.broken, V.dirty, V.gen, V.hint
    files,      \* V.files
    defer,      \* V.defer: extents freed by the next commit
    job,        \* the call that is running
    faults, ops, formats,   \* counted against their bounds
    view        \* history: the trees the memory and the disk stand for

sysVars == <<disk, stable, gm, vol, files, defer, job, faults, ops, formats>>
vars == <<disk, stable, gm, vol, files, defer, job, faults, ops, formats, view>>

NoFile == [used |-> FALSE, type |-> "file", size |-> 0, name |-> <<>>,
           exts |-> <<>>, chain |-> <<>>, dirty |-> FALSE]
Off == [mounted |-> FALSE, broken |-> FALSE, dirty |-> FALSE, gen |-> 0,
        hint |-> DataStart]
Idle == [pc |-> "idle", op |-> "none", ino |-> 0, off |-> 0, len |-> 0, val |-> 0,
         need |-> 0, k |-> 0, i |-> 0, fresh |-> <<>>, stage |-> <<>>]

Junk == [kind |-> "junk"]
DataBlock(cells) == [kind |-> "data", cells |-> cells]

Init ==
    /\ disk = [b \in Blocks |-> Junk]
    /\ stable = disk
    /\ gm = gmap_init
    /\ vol = Off
    /\ files = [i \in Inodes |-> NoFile]
    /\ defer = <<>>
    /\ job = Idle
    /\ faults = 0 /\ ops = 0 /\ formats = 0
    /\ view = [ram |-> <<>>, durable |-> {}]

\* exfs_is_mounted: what the shell asks before a mount or a format, and every
\* operation checks first.
Mounted == vol.mounted /\ ~vol.broken

SetDisk(d) == disk' = d /\ stable' = IF VolatileCache THEN stable ELSE d

-----------------------------------------------------------------------------
(* Extent lists.                                                           *)

ExtBlocks(e) == [j \in 1 .. e.len |-> e.start + j - 1]
CoveredBy(exts) == UNION {ExtSpan(exts[i]) : i \in DOMAIN exts}
OneBlock(b) == [start |-> b, len |-> 1]

\* The blocks of a file in order.
BlockList(exts) ==
    LET list[n \in 0 .. Len(exts)] == IF n = 0 THEN <<>> ELSE list[n - 1] \o ExtBlocks(exts[n])
    IN  list[Len(exts)]

\* The blocks of the first n extents, and of all.
LenTo(exts, n) ==
    LET sum[i \in 0 .. Len(exts)] == IF i = 0 THEN 0 ELSE sum[i - 1] + exts[i].len
    IN  sum[n]
LenSum(exts) == LenTo(exts, Len(exts))

\* walk_old: the disk runs of the logical blocks lo .. hi-1, in order.
RunOf(e, at, lo, hi) ==
    LET a == IF lo > at THEN lo ELSE at
        b == IF hi < at + e.len THEN hi ELSE at + e.len
    IN  IF a < b THEN <<[start |-> e.start + (a - at), len |-> b - a]>> ELSE <<>>
walk_old(exts, lo, hi) ==
    LET walk[n \in 0 .. Len(exts)] ==
          IF n = 0 THEN <<>> ELSE walk[n - 1] \o RunOf(exts[n], LenTo(exts, n - 1), lo, hi)
    IN  walk[Len(exts)]

\* stage_add: a run that continues the previous one on disk is merged into it.
stage_add(stage, e) ==
    IF stage # <<>> /\ Last(stage).start + Last(stage).len = e.start
    THEN [stage EXCEPT ![Len(stage)].len = @ + e.len]
    ELSE Append(stage, e)
StageAll(runs) ==
    LET stage[n \in 0 .. Len(runs)] ==
          IF n = 0 THEN <<>> ELSE stage_add(stage[n - 1], runs[n])
    IN  stage[Len(runs)]

\* slice_cap_for, 0 for a file without extents; pool_reserve succeeds exactly
\* when the slices of all files leave room for one more (RefusedOnlyWhenFull
\* of module ExtentPool).
SliceCap(n) == IF n = 0 THEN 0
               ELSE Min({PoolMinCap * 2^j : j \in {h \in 0 .. n : PoolMinCap * 2^h >= n}})
PoolRoom(n) ==
    MapThenSumSet(LAMBDA i : SliceCap(Len(files[i].exts)),
                  {i \in Inodes : files[i].used}) + SliceCap(n) <= PoolExt

\* Chain blocks a file with n extents needs, and those that the files S need.
ChainBlocks(n) == IF n <= Inl THEN 0 ELSE (n - Inl + IndExt - 1) \div IndExt
ChainNeed(S) == MapThenSumSet(LAMBDA i : ChainBlocks(Len(files[i].exts)), S)

-----------------------------------------------------------------------------
(* Names: exfs_create, exfs_mkdir, exfs_delete.                            *)

find(n) == {i \in Inodes : files[i].used /\ files[i].name = n}

parent_ok(n) == Len(n) = 1 \/ \E i \in find(Front(n)) : files[i].type = "dir"

has_children(n) == \E i \in Inodes : files[i].used /\ IsStrictPrefix(n, files[i].name)

\* make_node takes the lowest free inode.
make_node(fs, n, t) ==
    [fs EXCEPT ![Min({i \in Inodes : ~fs[i].used})] =
        [NoFile EXCEPT !.used = TRUE, !.type = t, !.name = n, !.dirty = TRUE]]

Make(n, t) ==
    /\ job = Idle /\ Mounted /\ ops < MaxOps
    /\ find(n) = {}
    /\ parent_ok(n)
    /\ \E i \in Inodes : ~files[i].used
    /\ files' = make_node(files, n, t)
    /\ vol' = [vol EXCEPT !.dirty = TRUE]
    /\ ops' = ops + 1
    /\ UNCHANGED <<disk, stable, gm, defer, job, faults, formats>>

exfs_create(n) == Make(n, "file")
exfs_mkdir(n) == Make(n, "dir")

\* Mutants: the chain is forgotten; the limit is not checked.
DeferExtentsOnly(f) == f.exts
DeferAlways(n) == TRUE

\* defer_file: the file's extents and chain wait for the next commit.
DeferredBy(f) == f.exts \o [k \in DOMAIN f.chain |-> OneBlock(f.chain[k])]
DeferRoom(n) == Len(defer) + n <= DeferMax

exfs_delete(n) ==
    /\ job = Idle /\ Mounted /\ ops < MaxOps
    /\ \E i \in find(n) :
          /\ files[i].type = "dir" => ~has_children(n)
          /\ DeferRoom(Len(DeferredBy(files[i])))
          /\ defer' = defer \o DeferredBy(files[i])
          /\ files' = [files EXCEPT ![i] = [NoFile EXCEPT !.dirty = TRUE]]
    /\ vol' = [vol EXCEPT !.dirty = TRUE]
    /\ ops' = ops + 1
    /\ UNCHANGED <<disk, stable, gm, job, faults, formats>>

-----------------------------------------------------------------------------
(* Content: exfs_write and exfs_write_at.  Both take their fresh blocks    *)
(* ("take"), build the new extent list ("reserve"), write the data         *)
(* ("data") and only then change the file ("install"); any failure before  *)
(* gives the fresh blocks back ("undo").                                   *)

BlocksFor(cells) == (cells + Cells - 1) \div Cells

WriteJob(i, len, v) ==
    [Idle EXCEPT !.op = "write", !.ino = i, !.len = len, !.val = v, !.need = BlocksFor(len),
                 !.pc = IF len = 0 THEN "reserve" ELSE "take"]

exfs_write(n, len, v) ==
    /\ job = Idle /\ Mounted /\ ops < MaxOps
    /\ \E i \in find(n) : files[i].type = "file" /\ job' = WriteJob(i, len, v)
    /\ ops' = ops + 1
    /\ UNCHANGED <<disk, stable, gm, vol, files, defer, faults, formats>>

\* The first logical block exfs_write_at rewrites (a gap past the end starts
\* at the end) and the last.
FirstBlock(j) == Min({j.off \div Cells, LenSum(files[j.ino].exts)})
LastBlock(j) == (j.off + j.len - 1) \div Cells

WriteAtJob(i, off, len, v) ==
    LET j == [Idle EXCEPT !.op = "write_at", !.ino = i, !.off = off, !.len = len, !.val = v,
                          !.pc = "take"]
    IN  [j EXCEPT !.need = LastBlock(j) - FirstBlock(j) + 1]

exfs_write_at(n, off, len, v) ==
    /\ job = Idle /\ Mounted /\ ops < MaxOps
    /\ len > 0
    /\ \E i \in find(n) :
          /\ files[i].type = "file"
          /\ WriteAtJob(i, off, len, v).need <= gmap_free_total(gm)
          /\ DeferRoom(Len(files[i].exts) + Len(files[i].chain) + 1)
          /\ job' = WriteAtJob(i, off, len, v)
    /\ ops' = ops + 1
    /\ UNCHANGED <<disk, stable, gm, vol, files, defer, faults, formats>>

\* Mutant: a call that finds nothing searches again.
Retries(j) == [j EXCEPT !.k = 0]

\* Where a failed call goes: a write gives its blocks back, a commit breaks
\* the volume.
Failed(j) == IF j.op \in {"write", "write_at"}
             THEN [j EXCEPT !.pc = "undo", !.i = 1] ELSE Idle
BrokenBy(j) == [vol EXCEPT !.broken = j.op \notin {"write", "write_at"}]

\* take_extent, one group per step: job.k is the turn of gmap_take's loop.
\* The commit takes its chain blocks one at a time in the same way.
take_extent ==
    LET got == LenSum(job.fresh)
        want == IF job.op \in {"write", "write_at"} THEN job.need - got ELSE 1 IN
    /\ job.pc = "take"
    /\ IF (job.op \in {"write", "write_at"} /\ Len(job.fresh) = MaxExt) \/ job.k > NGroups
       THEN /\ job' = Failed(job)
            /\ vol' = BrokenBy(job)
            /\ UNCHANGED <<disk, stable, gm, faults>>
       ELSE \E r \in gmap_take(gm, disk, faults, vol.hint, want, job.k) :
            /\ gm' = r.m /\ SetDisk(r.d) /\ faults' = r.f
            /\ CASE r.res = "next" -> /\ job' = [job EXCEPT !.k = @ + 1]
                                      /\ vol' = vol
                 [] r.res = "eio" -> /\ job' = Failed(job)
                                     /\ vol' = BrokenBy(job)
                 [] r.res = "found" ->
                      /\ vol' = [vol EXCEPT !.hint = r.ext.start + r.ext.len]
                      /\ job' = [job EXCEPT
                           !.k = 0, !.fresh = Append(@, r.ext),
                           !.pc = IF got + r.ext.len < job.need THEN "take"
                                  ELSE IF job.op \in {"write", "write_at"}
                                  THEN "reserve" ELSE "chain"]
    /\ UNCHANGED <<files, defer, ops, formats>>

\* The extent list the file will have: for exfs_write_at the old blocks
\* before the range, the fresh ones, the old ones after it.
NewList(j) ==
    LET f == files[j.ino]
        runs == walk_old(f.exts, 0, FirstBlock(j)) \o j.fresh
                \o walk_old(f.exts, LastBlock(j) + 1, LenSum(f.exts))
    IN  IF j.op = "write" THEN j.fresh ELSE StageAll(runs)

\* The checks between the allocation and the first data write.
Reserve ==
    LET f == files[job.ino]
        new == NewList(job)
        ok == /\ Len(new) <= MaxExt
              /\ job.op = "write" => DeferRoom(Len(DeferredBy(f)))
              /\ PoolRoom(Len(new)) IN
    /\ job.pc = "reserve"
    /\ job' = IF ok THEN [job EXCEPT !.stage = new, !.i = 0,
                                     !.pc = IF job.need = 0 THEN "install" ELSE "data"]
              ELSE Failed(job)
    /\ UNCHANGED <<disk, stable, gm, vol, files, defer, faults, ops, formats>>

\* Does the code read the old block before it writes logical block l: only
\* when the range covers part of a block the file already has.
Partial(j, l) == /\ j.op = "write_at"
                 /\ l < LenSum(files[j.ino].exts)
                 /\ ~(j.off <= l * Cells /\ j.off + j.len >= (l + 1) * Cells)

\* The page for logical block l.
CellsOf(d, b) == IF d[b].kind = "data" THEN d[b].cells ELSE [c \in 1 .. Cells |-> "junk"]
Page(j, l) ==
    LET f == files[j.ino]
        old == BlockList(f.exts)[l + 1]
    IN  [c \in 1 .. Cells |->
            LET p == l * Cells + c IN
            IF j.off < p /\ p <= j.off + j.len THEN j.val
            ELSE IF Partial(j, l) /\ p <= f.size THEN CellsOf(disk, old)[c]
            ELSE 0]

\* One block of data.  job.i counts the blocks written.
DataPut ==
    LET first == IF job.op = "write" THEN 0 ELSE FirstBlock(job)
        l == first + job.i
        reads == IF Partial(job, l) THEN blk_got(faults, BlockList(files[job.ino].exts)[l + 1])
                 ELSE {[ok |-> TRUE, f |-> faults]} IN
    /\ job.pc = "data"
    /\ \E r \in reads :
         IF ~r.ok
         THEN /\ job' = Failed(job)
              /\ faults' = r.f
              /\ UNCHANGED <<disk, stable>>
         ELSE \E w \in blk_put(disk, r.f, BlockList(job.fresh)[job.i + 1],
                               DataBlock(Page(job, l))) :
              /\ SetDisk(w.d) /\ faults' = w.f
              /\ job' = IF ~w.ok THEN Failed(job)
                        ELSE [job EXCEPT !.i = @ + 1,
                                         !.pc = IF job.i + 1 = job.need THEN "install" ELSE "data"]
    /\ UNCHANGED <<gm, vol, files, defer, ops, formats>>

\* The change in memory: the replaced blocks and the old chain are deferred,
\* the file gets its new list.
Install ==
    LET f == files[job.ino]
        oldb == LenSum(f.exts)
        replaced == IF job.op = "write" THEN f.exts
                    ELSE walk_old(f.exts, FirstBlock(job), Min({LastBlock(job) + 1, oldb})) IN
    /\ job.pc = "install"
    /\ defer' = defer \o DeferredBy([f EXCEPT !.exts = replaced])
    /\ files' = [files EXCEPT ![job.ino] =
                   [f EXCEPT !.exts = job.stage, !.chain = <<>>, !.dirty = TRUE,
                             !.size = IF job.op = "write" THEN job.len
                                      ELSE Max({@, job.off + job.len})]]
    /\ vol' = [vol EXCEPT !.dirty = TRUE]
    /\ job' = Idle
    /\ UNCHANGED <<disk, stable, gm, faults, ops, formats>>

\* release_fresh: one fresh extent per step.  An error is ignored, and the
\* extent stays taken: that outcome is followed under ForgetFaults.
release_fresh ==
    /\ job.pc = "undo"
    /\ IF job.i > Len(job.fresh)
       THEN job' = Idle /\ UNCHANGED <<disk, stable, gm, faults>>
       ELSE \E r \in gmap_release(gm, disk, faults, job.fresh[job.i]) :
            /\ r.ok \/ ForgetFaults
            /\ gm' = r.m /\ SetDisk(r.d) /\ faults' = r.f
            /\ job' = [job EXCEPT !.i = @ + 1]
    /\ UNCHANGED <<vol, files, defer, ops, formats>>

-----------------------------------------------------------------------------
(* exfs_commit, in the order exfs.h fixes.  job.op is "commit", "unmount"  *)
(* (exfs_unmount commits, then unmounts) or "format".                      *)

\* Mutant: both generations use the same area.
OneArea(gen) == 2

Area(gen) == 2 + (gen % 2) * ITabBlocks
InodesOf(b) == {i \in Inodes : i \div (NInodes \div ITabBlocks) = b}

\* Mutant: the record does not point to the chain.
EncodeWithoutChain(f) == [used |-> f.used, type |-> f.type, size |-> f.size, name |-> f.name,
                          first |-> 0, exts |-> SubSeq(f.exts, 1, Min({Inl, Len(f.exts)}))]

inode_encode(f) == [used |-> f.used, type |-> f.type, size |-> f.size, name |-> f.name,
                    first |-> IF f.chain = <<>> THEN 0 ELSE f.chain[1],
                    exts |-> SubSeq(f.exts, 1, Min({Inl, Len(f.exts)}))]

\* Chain block k (from 0) of a file whose chain is c.
ChainBlock(f, c, k) ==
    [kind |-> "chain",
     next |-> IF k + 1 < Len(c) THEN c[k + 2] ELSE 0,
     exts |-> SubSeq(f.exts, Inl + k * IndExt + 1,
                     Min({Inl + (k + 1) * IndExt, Len(f.exts)}))]

StartJob(op, pc) == [Idle EXCEPT !.op = op, !.pc = pc]

\* 0. validation: the chain blocks the changed files need are free.
exfs_commit(op) ==
    LET changed == {i \in Inodes : files[i].used /\ files[i].dirty} IN
    /\ job = Idle /\ Mounted /\ vol.dirty /\ vol.gen < MaxGen
    /\ \A i \in changed : ChainBlocks(Len(files[i].exts)) <= MaxChain
    /\ ChainNeed(changed) <= gmap_free_total(gm)
    /\ job' = StartJob(op, "file")
    /\ UNCHANGED <<disk, stable, gm, vol, files, defer, faults, ops, formats>>

\* exfs_unmount with nothing to commit.
UnmountClean ==
    /\ job = Idle /\ Mounted /\ ~vol.dirty
    /\ vol' = [vol EXCEPT !.mounted = FALSE]
    /\ UNCHANGED <<disk, stable, gm, files, defer, job, faults, ops, formats>>

\* 1. the next changed file, in inode order: its chain is taken from free
\* blocks ("take"), then written ("chain").
ChainFile ==
    LET rest == {i \in Inodes : i >= job.ino /\ files[i].used /\ files[i].dirty}
        i == Min(rest)
        nind == ChainBlocks(Len(files[i].exts)) IN
    /\ job.pc = "file"
    /\ job' = IF rest = {} THEN [job EXCEPT !.pc = "release", !.i = 1]
              ELSE IF nind = 0 THEN [job EXCEPT !.ino = i + 1]
              ELSE [job EXCEPT !.pc = "take", !.ino = i, !.need = nind, !.fresh = <<>>,
                               !.k = 0, !.i = 0]
    /\ files' = IF rest # {} /\ nind = 0 THEN [files EXCEPT ![i].chain = <<>>] ELSE files
    /\ UNCHANGED <<disk, stable, gm, vol, defer, faults, ops, formats>>

ChainPut ==
    LET f == files[job.ino]
        c == [k \in DOMAIN job.fresh |-> job.fresh[k].start] IN
    /\ job.pc = "chain"
    /\ \E w \in blk_put(disk, faults, c[job.i + 1], ChainBlock(f, c, job.i)) :
         /\ SetDisk(w.d) /\ faults' = w.f
         /\ IF ~w.ok THEN job' = Idle /\ vol' = BrokenBy(job) /\ files' = files
            ELSE /\ vol' = vol
                 /\ IF job.i + 1 < Len(c)
                    THEN job' = [job EXCEPT !.i = @ + 1] /\ files' = files
                    ELSE /\ job' = [job EXCEPT !.pc = "file", !.ino = @ + 1, !.fresh = <<>>]
                         /\ files' = [files EXCEPT ![job.ino].chain = c]
    /\ UNCHANGED <<gm, defer, ops, formats>>

\* 2. the deferred blocks become free in the map, one extent per step.
apply_deferred ==
    /\ job.pc = "release"
    /\ IF job.i > Len(defer)
       THEN /\ defer' = <<>>
            /\ job' = [job EXCEPT !.pc = "flush"]
            /\ UNCHANGED <<disk, stable, gm, vol, faults>>
       ELSE /\ defer' = defer
            /\ \E r \in gmap_release(gm, disk, faults, defer[job.i]) :
                 /\ gm' = r.m /\ SetDisk(r.d) /\ faults' = r.f
                 /\ IF r.ok THEN job' = [job EXCEPT !.i = @ + 1] /\ vol' = vol
                            ELSE job' = Idle /\ vol' = BrokenBy(job)
    /\ UNCHANGED <<files, ops, formats>>

\* 3. gmap_flush, one dirty group per step.  The groups go to different
\* blocks, so the order does not matter.
gmap_flush ==
    LET dirty == {i \in DOMAIN gm.cache : gm.cache[i].dirty} IN
    /\ job.pc = "flush"
    /\ IF dirty = {}
       THEN /\ job' = [job EXCEPT !.pc = "itab", !.i = 0]
            /\ UNCHANGED <<disk, stable, gm, vol, faults>>
       ELSE \E r \in flush_one(gm, disk, faults, Min(dirty)) :
            /\ gm' = r.m /\ SetDisk(r.d) /\ faults' = r.f
            /\ IF r.ok THEN job' = job /\ vol' = vol
                       ELSE job' = Idle /\ vol' = BrokenBy(job)
    /\ UNCHANGED <<files, defer, ops, formats>>

\* 4. the inode table, into the new generation's area, one block per step.
ItabPut ==
    LET page == [kind |-> "itab", recs |-> [i \in InodesOf(job.i) |-> inode_encode(files[i])]] IN
    /\ job.pc = "itab"
    /\ \E w \in blk_put(disk, faults, Area(vol.gen + 1) + job.i, page) :
         /\ SetDisk(w.d) /\ faults' = w.f
         /\ IF w.ok THEN /\ job' = [job EXCEPT !.i = @ + 1,
                                     !.pc = IF job.i + 1 = ITabBlocks THEN "super" ELSE "itab"]
                         /\ vol' = vol
                    ELSE job' = Idle /\ vol' = BrokenBy(job)
    /\ UNCHANGED <<gm, files, defer, ops, formats>>

\* sb.c: a superblock decodes when its checksum is right, which a torn or
\* foreign block's is not, and its fields are: the table area must be the
\* one of its generation.  The geometry, constant here, is left out.
fields_ok(sb) == sb.itab = Area(sb.gen) /\ \A g \in Groups : sb.slot[g] \in {0, 1}
sb_encode(gen, slot, free) ==
    [kind |-> "sb", gen |-> gen, itab |-> Area(gen), slot |-> slot, free |-> free]
sb_decode(page) == page.kind = "sb" /\ fields_ok(page)

\* 5. and 6. the superblock is the commit point; once it is written the
\* pending map slots become the committed ones.
SuperPut ==
    LET gen == vol.gen + 1
        sb == sb_encode(gen, ExportSlots(gm), gm.free) IN
    /\ job.pc = "super"
    /\ \E w \in blk_put(disk, faults, gen % 2, sb) :
         /\ SetDisk(w.d) /\ faults' = w.f
         /\ IF w.ok
            THEN /\ gm' = gmap_commit(gm)
                 /\ vol' = [vol EXCEPT !.gen = gen, !.dirty = FALSE,
                                       !.mounted = job.op # "unmount"]
                 /\ files' = [i \in Inodes |-> [files[i] EXCEPT !.dirty = FALSE]]
            ELSE vol' = BrokenBy(job) /\ UNCHANGED <<gm, files>>
    /\ job' = Idle
    /\ UNCHANGED <<defer, ops, formats>>

-----------------------------------------------------------------------------
(* exfs_format: a fresh map, an empty tree, and a commit of generation 1.  *)
(* The shell refuses to format while a volume is mounted.                  *)

exfs_format ==
    /\ job = Idle /\ ~Mounted /\ formats < MaxFormats
    /\ gm' = gmap_init
    /\ job' = StartJob("format", "format")
    /\ formats' = formats + 1
    /\ UNCHANGED <<disk, stable, vol, files, defer, faults, ops>>

FormatGroup ==
    /\ job.pc = "format" /\ job.i < NGroups
    /\ \E r \in gmap_format_group(gm, disk, faults, job.i) :
         /\ gm' = r.m /\ SetDisk(r.d) /\ faults' = r.f
         /\ job' = IF r.ok THEN [job EXCEPT !.i = @ + 1] ELSE Idle
    /\ UNCHANGED <<vol, files, defer, ops, formats>>

FormatFiles ==
    LET made[n \in 0 .. Len(FormatNames)] ==
          IF n = 0 THEN [i \in Inodes |-> NoFile] ELSE make_node(made[n - 1], FormatNames[n], "dir")
    IN  made[Len(FormatNames)]
FormatTree ==
    /\ job.pc = "format" /\ job.i = NGroups
    /\ files' = FormatFiles
    /\ defer' = <<>>
    /\ vol' = [Off EXCEPT !.mounted = TRUE, !.dirty = TRUE]
    /\ job' = StartJob("format", "file")
    /\ UNCHANGED <<disk, stable, gm, faults, ops, formats>>

-----------------------------------------------------------------------------
(* exfs_mount: nothing is written.                                         *)

\* inode_decode: the record's extents and its chain, block after block.
inode_decode(d, r) ==
    LET walk[n \in 0 .. MaxChain] ==
          IF n = 0 THEN [ok |-> TRUE, blk |-> r.first, exts |-> r.exts, chain |-> <<>>]
          ELSE LET w == walk[n - 1] IN
               IF ~w.ok \/ w.blk = 0 THEN w
               ELSE IF w.blk \notin Blocks \/ d[w.blk].kind # "chain"
                    THEN [w EXCEPT !.ok = FALSE]
               ELSE [ok |-> TRUE, blk |-> d[w.blk].next, exts |-> w.exts \o d[w.blk].exts,
                     chain |-> Append(w.chain, w.blk)]
        end == walk[MaxChain]
    IN  [ok |-> end.ok /\ end.blk = 0 /\ Len(end.exts) <= MaxExt,
         file |-> IF r.used THEN [used |-> TRUE, type |-> r.type, size |-> r.size,
                                  name |-> r.name, exts |-> end.exts, chain |-> end.chain,
                                  dirty |-> FALSE]
                  ELSE NoFile]

\* The extents and chain blocks must lie on the volume, past the fixed areas.
OnVolume(f) == /\ \A i \in DOMAIN f.exts : /\ f.exts[i].len > 0
                                           /\ f.exts[i].start >= DataStart
                                           /\ f.exts[i].start + f.exts[i].len <= Total
               /\ \A k \in DOMAIN f.chain : f.chain[k] >= DataStart /\ f.chain[k] < Total

\* What mount finds on disk d when the superblocks in S can be read: the
\* generation it adopts, and its files; found is FALSE for "no volume".
Adopt(d, S) ==
    LET valid == {s \in S : sb_decode(d[s])}
        best == CHOOSE s \in valid : \A t \in valid : d[s].gen >= d[t].gen
        page(i) == d[d[best].itab + i \div (NInodes \div ITabBlocks)]
        dec == [i \in Inodes |-> inode_decode(d, page(i).recs[i])]
    IN  IF valid = {} THEN [found |-> FALSE]
        ELSE IF \E i \in Inodes : page(i).kind # "itab" THEN [found |-> FALSE]
        ELSE IF \E i \in Inodes : ~dec[i].ok \/ ~OnVolume(dec[i].file) THEN [found |-> FALSE]
        ELSE [found |-> TRUE, sb |-> d[best], files |-> [i \in Inodes |-> dec[i].file]]

\* The superblocks a device error hides from this mount.
Hidden == IF SbReadFaults /\ faults < MaxFaults THEN {{}, {0}, {1}} ELSE {{}}

exfs_mount(U) ==
    LET a == Adopt(disk, {0, 1} \ U) IN
    /\ job = Idle /\ ~Mounted
    /\ a.found
    /\ gm' = gmap_import(a.sb.slot, a.sb.free)
    /\ files' = a.files
    /\ vol' = [Off EXCEPT !.mounted = TRUE, !.gen = a.sb.gen]
    /\ defer' = <<>>
    /\ faults' = faults + Cardinality(U)
    /\ UNCHANGED <<disk, stable, job, ops, formats>>

\* No valid volume, or a device error further on: nothing is mounted.
MountFails ==
    /\ job = Idle /\ ~Mounted
    /\ \/ ~Adopt(disk, {0, 1}).found /\ faults' = faults
       \/ faults < MaxFaults /\ faults' = faults + 1
    /\ gm' = gmap_init
    /\ files' = [i \in Inodes |-> NoFile]
    /\ vol' = Off
    /\ defer' = <<>>
    /\ UNCHANGED <<disk, stable, job, ops, formats>>

\* The machine stops: everything in memory is gone.  With a volatile write
\* cache each block is what was last written or what is stable.
Crash ==
    /\ \E kept \in IF VolatileCache THEN SUBSET {b \in Blocks : disk[b] # stable[b]} ELSE {{}} :
         disk' = [b \in Blocks |-> IF VolatileCache /\ b \notin kept THEN stable[b] ELSE disk[b]]
    /\ stable' = disk'
    /\ gm' = gmap_init
    /\ files' = [i \in Inodes |-> NoFile]
    /\ vol' = Off
    /\ defer' = <<>>
    /\ job' = Idle
    /\ UNCHANGED <<faults, ops, formats>>

-----------------------------------------------------------------------------
\* The tree a set of inodes stands for, with the content read through the
\* extents from disk d: what exfs_list and exfs_read show.
\* view keeps the two trees of the current state so that they are computed
\* once per step.
ReadAll(d, f) ==
    LET bs == BlockList(f.exts)
        cells == FlattenSeq([k \in DOMAIN bs |-> CellsOf(d, bs[k])])
    IN  SubSeq(cells, 1, Min({f.size, Len(cells)}))
Tree(d, fs) ==
    LET used == {i \in Inodes : fs[i].used}
        at(n) == fs[CHOOSE i \in used : fs[i].name = n]
    IN  [n \in {fs[i].name : i \in used} |-> [type |-> at(n).type, data |-> ReadAll(d, at(n))]]

DurableTree(d) ==
    LET a == Adopt(d, {0, 1}) IN IF a.found THEN {Tree(d, a.files)} ELSE {}
Views(d, fs, v) == [ram |-> IF v.mounted /\ ~v.broken THEN Tree(d, fs) ELSE <<>>,
                    durable |-> DurableTree(d)]

\* The steps of the call that is running.
JobStep ==
    \/ take_extent \/ Reserve \/ DataPut \/ Install \/ release_fresh
    \/ ChainFile \/ ChainPut \/ apply_deferred \/ gmap_flush \/ ItabPut \/ SuperPut
    \/ FormatGroup \/ FormatTree

Call ==
    \/ \E n \in Names : \/ exfs_create(n) \/ exfs_mkdir(n) \/ exfs_delete(n)
                        \/ \E a \in WriteArgs : exfs_write(n, a[1], a[2])
                        \/ \E a \in WriteAtArgs : exfs_write_at(n, a[1], a[2], a[3])
    \/ \E op \in {"commit", "unmount"} : exfs_commit(op)
    \/ UnmountClean
    \/ exfs_format
    \/ \E U \in Hidden : exfs_mount(U)
    \/ MountFails

Next == /\ JobStep \/ Call \/ Crash
        /\ view' = Views(disk', files', vol')

Spec == Init /\ [][Next]_vars

-----------------------------------------------------------------------------
(* What the volume promises.                                               *)

\* The volume's fixed arrays are never overrun: cache, extent lists, chains
\* and the deferred list stay within the sizes exfs.h and gmap.h give them.
TypeOK ==
    /\ DOMAIN disk = Blocks /\ DOMAIN stable = Blocks
    /\ gm.slot \in [Groups -> {0, 1}] /\ gm.written \in [Groups -> BOOLEAN]
    /\ gm.free \in [Groups -> 0 .. GB] /\ Len(gm.cache) <= CacheSize
    /\ vol \in [mounted : BOOLEAN, broken : BOOLEAN, dirty : BOOLEAN,
                gen : 0 .. MaxGen, hint : 0 .. Total]
    /\ DOMAIN files = Inodes
    /\ \A i \in Inodes : Len(files[i].exts) <= MaxExt /\ Len(files[i].chain) <= MaxChain
    /\ Len(defer) <= DeferMax
    /\ faults \in 0 .. MaxFaults /\ ops \in 0 .. MaxOps /\ formats \in 0 .. MaxFormats

\* The store ExfsAbs describes, with the trees that the memory and the disk
\* stand for.
Abs == INSTANCE ExfsAbs WITH
    ram <- view.ram,
    durable <- view.durable,
    up <- Mounted

\* EXFS implements the transactional store of ExfsAbs: whatever the device
\* and the machine do, the durable tree changes only at a superblock write,
\* then becomes exactly the tree in memory; and the tree in memory changes
\* by whole operations with the content exfs_write_at's merges promise.
TransactionalStore == Abs!Spec

\* What every file holds (its extents and its chain), and besides the extents
\* that are in use without being reachable any more (-2) or yet (-1).
Holdings(fs, waiting, fresh) ==
    [i \in -2 .. (NInodes - 1) |-> IF i = -2 THEN waiting
                                   ELSE IF i = -1 THEN fresh ELSE DeferredBy(fs[i])]
Reserved == (UNION {fresh_bits(g) : g \in Groups}) \cap Blocks
Disjoint(exts) == \A i, j \in DOMAIN exts : i # j => ExtSpan(exts[i]) \cap ExtSpan(exts[j]) = {}

\* The check of exfs_test.c: "free map == reachable blocks, exactly. No leak,
\* no double use", and the free counts agree.
Fsck(used, free, held) ==
    /\ used = Reserved \cup UNION {CoveredBy(held[i]) : i \in DOMAIN held}
    /\ \A i \in DOMAIN held : Disjoint(held[i]) /\ CoveredBy(held[i]) \cap Reserved = {}
    /\ \A i, j \in DOMAIN held : i # j => CoveredBy(held[i]) \cap CoveredBy(held[j]) = {}
    /\ \A g \in Groups : free[g] = Cardinality((GroupBlocks(g) \cap Blocks) \ used)

\* Deferred extents not yet released and fresh ones not yet installed.
Waiting == IF job.pc = "release" THEN SubSeq(defer, job.i, Len(defer)) ELSE defer
Fresh == IF job.pc = "undo" THEN SubSeq(job.fresh, job.i, Len(job.fresh)) ELSE job.fresh

\* In memory, at every step of every call: the map (through cache, pending
\* and committed slots) knows exactly the blocks that are in use.
MapExact == Mounted => Fsck(UsedBlocks(gm, disk), gm.free, Holdings(files, Waiting, Fresh))

OnDisk == Adopt(disk, {0, 1})

\* On disk, at every instant: a crash here leaves a volume that mounts and
\* passes the check, "never a half-valid one".
DurableFsck ==
    (\E s \in {0, 1} : disk[s].kind = "sb") =>
        /\ OnDisk.found
        /\ Fsck(UsedBlocks(gmap_import(OnDisk.sb.slot, OnDisk.sb.free), disk),
                OnDisk.sb.free, Holdings(OnDisk.files, <<>>, <<>>))

\* A volume with nothing to commit is on disk as it is in memory: a commit
\* that returned, or a format, is never undone by a crash and a mount.
SyncedIsDurable ==
    (job = Idle /\ Mounted /\ ~vol.dirty) => view.durable = {view.ram}

\* How far the running call is: its stage, the file a commit works on, the
\* blocks taken, the turn of each loop, and the dirty map blocks still to go.
Stage == [format |-> 0, file |-> 1, take |-> 1, chain |-> 1, reserve |-> 2, data |-> 3,
          install |-> 4, undo |-> 5, release |-> 2, flush |-> 3, itab |-> 4, super |-> 5]
Turn == IF job.pc = "chain" THEN 2 ELSE IF job.pc = "take" THEN 1 ELSE 0
Progress == <<Stage[job.pc], job.ino, Turn, Len(job.fresh), job.k, job.i,
              -Cardinality({c \in DOMAIN gm.cache : gm.cache[c].dirty})>>
Precedes(a, b) == \E i \in DOMAIN a : a[i] < b[i] /\ \A h \in 1 .. (i - 1) : a[h] = b[h]

\* Every call ends, whatever the device answers: each step ends the call or
\* brings it forward in an order without infinite ascents (every component
\* of Progress is bounded).  The loop to argue about is "while (got < need)"
\* of exfs_write and exfs_write_at, which nothing counts: every turn adds an
\* extent or gives up, on a full, fragmented or failing volume.
CallsEnd ==
    [][job # Idle => job' = Idle \/ Precedes(Progress, Progress')]_vars
=============================================================================
