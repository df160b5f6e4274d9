----------------------------- MODULE ExtentPool -----------------------------
(***************************************************************************)
(* The extent pool of EXFS (core/exfs/exfs.c): every file's extent list is *)
(* a slice of one array in memory.  Slices have power-of-two capacities,   *)
(* are found first-fit through a bitmap, and are packed to the front when  *)
(* no gap is large enough.                                                 *)
(*                                                                         *)
(* The calls that reserve a slice, a write and a mount, are given by the   *)
(* turns of their loops, since it is in the middle of a compaction that    *)
(* lists lie partly in one place and partly in another.                    *)
(*                                                                         *)
(* Module Exfs keeps a list per file and takes from here that a            *)
(* reservation succeeds exactly when the capacities leave room for it      *)
(* (PoolRoom there, RefusedOnlyWhenFull here).                             *)
(***************************************************************************)
EXTENDS Integers, Sequences, FiniteSets

CONSTANTS
    NInodes,        \* EXFS_INODES
    PoolExt,        \* EXFS_POOL_EXT
    PoolMinCap,     \* POOL_MIN_CAP
    FormatNodes,    \* how many nodes exfs_format makes
    Extents, Zero,  \* what an entry can hold, and what it holds at first
    Lists,          \* the extent lists the files are given
    Disks           \* inode tables found on a device, written by some other kernel

Inodes == 0 .. (NInodes - 1)
Pool == 0 .. (PoolExt - 1)

ASSUME PoolAssumption ==
    /\ NInodes \in Nat \ {0} /\ PoolExt \in Nat /\ PoolMinCap \in Nat \ {0} /\ FormatNodes \in Nat
    /\ Zero \in Extents /\ Lists \subseteq Seq(Extents)
    /\ Disks \subseteq [Inodes -> [used : BOOLEAN, list : Seq(Extents)]]
    /\ \A d \in Disks, i \in Inodes : ~d[i].used => d[i].list = <<>>

VARIABLES
    pool,       \* V.pool
    pool_used,  \* V.pool_used: the set of the entries marked
    file,       \* per inode: used, ext_off, ext_cap, n
    call,       \* the call under way: where it is, for whom, the new list, roff and rcap
    pack,       \* pool_compact: the slices left in order, the one at hand, cursor and k
    want        \* history: the files there should be, and the list each should have

vars == <<pool, pool_used, file, call, pack, want>>

NoFile == [used |-> FALSE, off |-> 0, cap |-> 0, n |-> 0]
NewFile == [NoFile EXCEPT !.used = TRUE]
Nothing == [used |-> FALSE, list |-> <<>>]
Empty == [used |-> TRUE, list |-> <<>>]
NoPack == [todo |-> {}, at |-> 0, cursor |-> 0, k |-> 0]

At(pc) == [pc |-> pc, what |-> "none", ino |-> 0, list |-> <<>>, off |-> 0, cap |-> 0]
Idle == At("idle")      \* mounted, between two calls
Down == At("down")      \* not mounted

\* V is zero when the kernel starts.
Init ==
    /\ pool = [i \in Pool |-> Zero]
    /\ pool_used = {}
    /\ file = [i \in Inodes |-> NoFile]
    /\ call = Down
    /\ pack = NoPack
    /\ want = [i \in Inodes |-> Nothing]

Entries(off, cap) == off .. (off + cap - 1)

-----------------------------------------------------------------------------
(* pool_reserve, on behalf of a write or a mount.                          *)

\* The call: a list without extents gets no slice and no search.
Reserve(what, i, list) ==
    [pc |-> IF list = <<>> THEN "data" ELSE "size", what |-> what, ino |-> i, list |-> list,
     off |-> 0, cap |-> IF list = <<>> THEN 0 ELSE PoolMinCap]

\* A run of cap entries is free from o on.
Fits(o, cap) == Entries(o, cap) \subseteq Pool \ pool_used

\* pool_find: the first free run of the capacity wanted.
pool_find(o) == Fits(o, call.cap) /\ \A p \in 0 .. (o - 1) : ~Fits(p, call.cap)

\* A turn of the loop of slice_cap_for.
slice_cap_for ==
    /\ call.pc = "size" /\ call.cap < Len(call.list)
    /\ call' = [call EXCEPT !.cap = 2 * call.cap]
    /\ UNCHANGED <<pool, pool_used, file, pack, want>>

\* The two places where pool_find is called.
FirstSearch == call.pc = "size" /\ call.cap >= Len(call.list)
SecondSearch == call.pc = "pack" /\ pack.todo = {}

\* A run is found and marked.
Reserved(o) ==
    /\ FirstSearch \/ SecondSearch
    /\ pool_find(o)
    /\ pool_used' = pool_used \cup Entries(o, call.cap)
    /\ call' = [call EXCEPT !.pc = "data", !.off = o]
    /\ pack' = NoPack
    /\ UNCHANGED <<pool, file, want>>

\* No run: pool_compact sorts the slices by offset and clears the bitmap.
pool_compact ==
    /\ FirstSearch
    /\ \A o \in Pool : ~Fits(o, call.cap)
    /\ pool_used' = {}
    /\ call' = [call EXCEPT !.pc = "pack"]
    /\ pack' = [NoPack EXCEPT !.todo = {i \in Inodes : file[i].used /\ file[i].cap > 0}]
    /\ UNCHANGED <<pool, file, want>>

\* Mutant: the slices are packed in inode order.
FirstInode(i) == i \in pack.todo /\ \A j \in pack.todo : i <= j

\* The next slice in the order of offsets.
FirstOffset(i) == i \in pack.todo /\ \A j \in pack.todo : file[i].off <= file[j].off

\* It is at the cursor already, or its entries are copied there.
PackSlice(i) ==
    /\ call.pc = "pack" /\ FirstOffset(i)
    /\ call' = [call EXCEPT !.pc = "copy"]
    /\ pack' = [pack EXCEPT !.at = i, !.k = IF file[i].off = pack.cursor THEN file[i].n ELSE 0]
    /\ UNCHANGED <<pool, pool_used, file, want>>

\* One of the n entries in use is copied.
CopyEntry ==
    /\ call.pc = "copy" /\ pack.k < file[pack.at].n
    /\ pool' = [pool EXCEPT ![pack.cursor + pack.k] = pool[file[pack.at].off + pack.k]]
    /\ pack' = [pack EXCEPT !.k = pack.k + 1]
    /\ UNCHANGED <<pool_used, file, call, want>>

\* Mutant: the cursor goes on behind the place where the slice was.
SliceStays ==
    /\ call.pc = "copy" /\ pack.k = file[pack.at].n
    /\ pool_used' = pool_used \cup Entries(file[pack.at].off, file[pack.at].cap)
    /\ call' = [call EXCEPT !.pc = "pack"]
    /\ pack' = [pack EXCEPT !.todo = pack.todo \ {pack.at},
                            !.cursor = file[pack.at].off + file[pack.at].cap]
    /\ UNCHANGED <<pool, file, want>>

\* The slice is at the cursor, and marked there.
SlicePacked ==
    /\ call.pc = "copy" /\ pack.k = file[pack.at].n
    /\ file' = [file EXCEPT ![pack.at].off = pack.cursor]
    /\ pool_used' = pool_used \cup Entries(pack.cursor, file[pack.at].cap)
    /\ call' = [call EXCEPT !.pc = "pack"]
    /\ pack' = [pack EXCEPT !.todo = pack.todo \ {pack.at},
                            !.cursor = pack.cursor + file[pack.at].cap]
    /\ UNCHANGED <<pool, want>>

\* EXFS_ENOMEM: a write changes nothing else, a mount is given up.
Refused ==
    /\ SecondSearch
    /\ \A o \in Pool : ~Fits(o, call.cap)
    /\ call' = IF call.what = "mount" THEN Down ELSE Idle
    /\ pack' = NoPack
    /\ UNCHANGED <<pool, pool_used, file, want>>

pool_reserve ==
    \/ slice_cap_for \/ pool_compact \/ CopyEntry \/ SlicePacked \/ Refused
    \/ \E o \in Pool : Reserved(o)
    \/ \E i \in Inodes : PackSlice(i)

\* V.pool[roff + k] = the list's entries.
Store == [i \in Pool |-> IF i - call.off + 1 \in 1 .. Len(call.list)
                         THEN call.list[i - call.off + 1] ELSE pool[i]]

-----------------------------------------------------------------------------
(* The calls on a mounted volume.                                          *)

\* make_node: the first free inode, without a slice.
Create(i) ==
    /\ call = Idle
    /\ ~file[i].used /\ \A j \in 0 .. (i - 1) : file[j].used
    /\ file' = [file EXCEPT ![i] = NewFile]
    /\ want' = [want EXCEPT ![i] = Empty]
    /\ UNCHANGED <<pool, pool_used, call, pack>>

\* exfs_delete, through defer_file.
Delete(i) ==
    /\ call = Idle /\ file[i].used
    /\ pool_used' = pool_used \ Entries(file[i].off, file[i].cap)
    /\ file' = [file EXCEPT ![i] = NoFile]
    /\ want' = [want EXCEPT ![i] = Nothing]
    /\ UNCHANGED <<pool, call, pack>>

\* exfs_write and exfs_write_at reserve the new slice before their data
\* writes, while the file still has the old one.
Write(i, list) ==
    /\ call = Idle /\ file[i].used
    /\ call' = Reserve("write", i, list)
    /\ UNCHANGED <<pool, pool_used, file, pack, want>>

\* The data is written: the old slice is released, the list goes to the new.
WriteInstall ==
    LET f == file[call.ino] IN
    /\ call.pc = "data" /\ call.what = "write"
    /\ pool_used' = pool_used \ Entries(f.off, f.cap)
    /\ pool' = Store
    /\ file' = [file EXCEPT ![call.ino] = [used |-> TRUE, off |-> call.off, cap |-> call.cap,
                                           n |-> Len(call.list)]]
    /\ want' = [want EXCEPT ![call.ino] = [used |-> TRUE, list |-> call.list]]
    /\ call' = Idle
    /\ UNCHANGED pack

\* Mutant: the new slice stays marked.
WriteFailsKeepsSlice ==
    /\ call.pc = "data" /\ call.what = "write" /\ call.list # <<>>
    /\ call' = Idle
    /\ UNCHANGED <<pool, pool_used, file, pack, want>>

\* A data write failed: the new slice is released.
WriteFails ==
    /\ call.pc = "data" /\ call.what = "write" /\ call.list # <<>>
    /\ pool_used' = pool_used \ Entries(call.off, call.cap)
    /\ call' = Idle
    /\ UNCHANGED <<pool, file, pack, want>>

-----------------------------------------------------------------------------
(* The life of a volume.                                                   *)

AtInode(i) == [pc |-> "inode", what |-> "mount", ino |-> i, list |-> <<>>, off |-> 0, cap |-> 0]

\* exfs_format: the pool is empty, and so are the nodes it makes.
Format ==
    /\ call \in {Idle, Down}
    /\ file' = [i \in Inodes |-> IF i < FormatNodes THEN NewFile ELSE NoFile]
    /\ want' = [i \in Inodes |-> IF i < FormatNodes THEN Empty ELSE Nothing]
    /\ pool_used' = {}
    /\ call' = Idle
    /\ UNCHANGED <<pool, pack>>

\* exfs_unmount, or a mount that finds no volume: memory is left as it was.
Unmounted ==
    /\ call = Idle
    /\ call' = Down
    /\ UNCHANGED <<pool, pool_used, file, pack, want>>

\* exfs_mount of a device with these files: no slice is left of the volume
\* before, whose other fields stay until their inode is read.
Mount(d) ==
    /\ call \in {Idle, Down}
    /\ file' = [i \in Inodes |-> [file[i] EXCEPT !.off = 0, !.cap = 0]]
    /\ want' = d
    /\ pool_used' = {}
    /\ call' = AtInode(0)
    /\ UNCHANGED <<pool, pack>>

\* inode_decode, and a slice is asked for if the inode is in use.
MountInode ==
    LET d == want[call.ino] IN
    /\ call.pc = "inode" /\ call.ino < NInodes
    /\ file' = [file EXCEPT ![call.ino] = [used |-> d.used, off |-> 0, cap |-> 0, n |-> Len(d.list)]]
    /\ call' = IF d.used THEN Reserve("mount", call.ino, d.list) ELSE AtInode(call.ino + 1)
    /\ UNCHANGED <<pool, pool_used, pack, want>>

\* Its extents go from V.stage to the slice.
MountSlice ==
    /\ call.pc = "data" /\ call.what = "mount"
    /\ pool' = Store
    /\ file' = [file EXCEPT ![call.ino].off = call.off, ![call.ino].cap = call.cap]
    /\ call' = AtInode(call.ino + 1)
    /\ UNCHANGED <<pool_used, pack, want>>

\* An inode cannot be read, or an extent of the last one is out of range.
MountFails ==
    /\ call.pc = "inode"
    /\ call' = Down
    /\ UNCHANGED <<pool, pool_used, file, pack, want>>

Mounted ==
    /\ call.pc = "inode" /\ call.ino = NInodes
    /\ call' = Idle
    /\ UNCHANGED <<pool, pool_used, file, pack, want>>

\* What is mounted is another device's volume or, after a commit, this one.
Next ==
    \/ \E i \in Inodes : \/ Create(i) \/ Delete(i)
                         \/ \E list \in Lists : Write(i, list)
    \/ pool_reserve
    \/ WriteInstall \/ WriteFails
    \/ Format \/ Unmounted \/ MountInode \/ MountSlice \/ MountFails \/ Mounted
    \/ \E d \in Disks \cup {want} : Mount(d)

Spec == Init /\ [][Next]_vars

-----------------------------------------------------------------------------
Slice(i) == Entries(file[i].off, file[i].cap)
Held == UNION {Slice(i) : i \in Inodes}

\* The files and their lists can be used: the volume is mounted, and no
\* compaction is under way.
Settled == call.pc \in {"idle", "data"} /\ call.what # "mount"

\* A file's list is what was last stored for it, whatever was reserved,
\* released and packed in between: compaction moves slices over each other
\* and FEXT still finds the entries, after every write, failed or not, and
\* after a mount.
ListsIntact ==
    Settled => \A i \in Inodes :
        /\ file[i].used = want[i].used
        /\ file[i].used =>
             /\ file[i].n = Len(want[i].list) /\ file[i].n <= file[i].cap
             /\ \A k \in 1 .. file[i].n : pool[file[i].off + k - 1] = want[i].list[k]

\* The bitmap marks exactly the slices, and no two slices share an entry:
\* no slice leaks when a write fails, a file is deleted or a volume is mounted
\* over what an earlier one left.
SlicesExact ==
    LET new == Entries(call.off, call.cap) IN
    Settled =>
        /\ pool_used = Held \cup new
        /\ \A i, j \in Inodes : i # j => Slice(i) \cap Slice(j) = {}
        /\ \A i \in Inodes : Slice(i) \cap new = {}

\* Fragmentation never makes a write or a mount fail: a reservation is
\* refused, after the compaction, exactly when the entries of all slices and
\* the new capacity exceed the pool.
RefusedOnlyWhenFull ==
    SecondSearch =>
        ((\E o \in Pool : Fits(o, call.cap))
            <=> Cardinality(Held) + call.cap <= PoolExt)
=============================================================================
