-------------------------- MODULE ExtentPoolProofs --------------------------
(***************************************************************************)
(* For a pool of any size, any number of files and any lists: compaction   *)
(* moves no list out of shape, slices neither overlap nor leak, and a      *)
(* reservation is refused only when the slices leave no room for it.       *)
(***************************************************************************)
EXTENDS ExtentPool, FiniteSetTheorems, TLAPS

-----------------------------------------------------------------------------
(* The inductive invariant.                                                *)

Files == [used : BOOLEAN, off : Nat, cap : Nat, n : Nat]
Wants == [used : BOOLEAN, list : Seq(Extents)]
Calls == [pc : {"idle", "down", "inode", "size", "pack", "copy", "data"},
          what : {"none", "write", "mount"},
          ino : Nat, list : Seq(Extents), off : Nat, cap : Nat]
Packs == [todo : SUBSET Inodes, at : Nat, cursor : Nat, k : Nat]

TypeOK ==
    /\ pool \in [Pool -> Extents]
    /\ pool_used \subseteq Pool
    /\ file \in [Inodes -> Files]
    /\ call \in Calls
    /\ pack \in Packs
    /\ want \in [Inodes -> Wants]

\* A call reserves, or holds, a slice for a file there is; a mount for the
\* file whose inode it has read.
CallOK ==
    /\ call.pc = "idle" => call = Idle
    /\ call.pc = "down" => call = Down
    /\ call.pc = "inode" => call = AtInode(call.ino) /\ call.ino <= NInodes
    /\ call.pc \in {"size", "pack", "copy", "data"} =>
         /\ call.what \in {"write", "mount"}
         /\ call.ino \in Inodes /\ want[call.ino].used
         /\ call.what = "mount" => call.list = want[call.ino].list /\ file[call.ino].used
                                   /\ file[call.ino].n = Len(call.list)
    /\ call.pc \in {"size", "pack", "copy"} => call.cap > 0
    /\ call.pc \in {"pack", "copy", "data"} => Len(call.list) <= call.cap
    /\ call.pc \notin {"pack", "copy"} => pack = NoPack

\* The files whose slices are in the pool: during a mount those of the inodes
\* before the one at hand.
Kept(i) == want[i].used /\ (call.what = "mount" => i < call.ino)

\* They have a slice that is large enough; the others have none.
FilesOK ==
    call.pc # "down" => \A i \in Inodes :
        IF Kept(i) THEN /\ file[i].used
                        /\ file[i].n = Len(want[i].list) /\ file[i].n <= file[i].cap
                   ELSE /\ file[i].cap = 0
                        /\ file[i].used => call.what = "mount" /\ call.ino <= i

\* Slices are apart, and in the pool.
Apart(i, j) == \/ file[i].off + file[i].cap <= file[j].off
               \/ file[j].off + file[j].cap <= file[i].off
PlacesOK ==
    /\ \A i \in Inodes : file[i].off + file[i].cap <= PoolExt
    /\ \A i, j \in Inodes : i # j /\ file[i].cap > 0 /\ file[j].cap > 0 => Apart(i, j)

\* The entries of a file, from its k-th on, are at its slice.
From(i, k) == \A m \in Nat : k <= m /\ m < file[i].n => pool[file[i].off + m] = want[i].list[m + 1]

\* The lists are in place, except for the slice that is being moved.
ContentOK ==
    call.pc # "down" => \A i \in Inodes :
        Kept(i) /\ ~(call.pc = "copy" /\ i = pack.at) => From(i, 0)

\* The bitmap marks the slices and the one reserved.
Owned == {e \in Pool : \E i \in Inodes : e \in Slice(i)}
MarksOK ==
    /\ call.pc \in {"idle", "inode", "size"} => pool_used = Owned
    /\ call.pc = "data" =>
         /\ pool_used = Owned \cup Entries(call.off, call.cap)
         /\ Owned \cap Entries(call.off, call.cap) = {}
         /\ call.off + call.cap <= PoolExt

\* The compaction: what is packed fills the pool up to the cursor, what is
\* left lies behind it.
PackOK ==
    call.pc \in {"pack", "copy"} =>
        /\ pack.cursor <= PoolExt
        /\ pool_used = 0 .. (pack.cursor - 1)
        /\ \A i \in pack.todo : file[i].cap > 0 /\ pack.cursor <= file[i].off
        /\ \A i \in Inodes \ pack.todo : file[i].cap > 0 => file[i].off + file[i].cap <= pack.cursor
        /\ \A e \in 0 .. (pack.cursor - 1) : \E i \in Inodes \ pack.todo : e \in Slice(i)

\* The slice at hand is the lowest one left; its first k entries are at the
\* cursor, the others where they were.
CopyOK ==
    call.pc = "copy" =>
        /\ FirstOffset(pack.at)
        /\ pack.k <= file[pack.at].n
        /\ \A m \in Nat : m < pack.k => pool[pack.cursor + m] = want[pack.at].list[m + 1]
        /\ From(pack.at, pack.k)

Inv == TypeOK /\ CallOK /\ FilesOK /\ PlacesOK /\ ContentOK /\ MarksOK /\ PackOK /\ CopyOK

\* The initial states satisfy the invariant.
LEMMA InitInv == Init => Inv
<1> SUFFICES ASSUME Init PROVE Inv OBVIOUS
<1> USE PoolAssumption DEF Init
<1>1. TypeOK
  BY DEF TypeOK, NoFile, Files, Calls, Packs, Wants, Down, At, NoPack, Nothing
<1>2. CallOK BY DEF CallOK, Down, At
<1>3. FilesOK BY DEF FilesOK, Down, At
<1>4. PlacesOK BY DEF PlacesOK, NoFile, Apart
<1>5. ContentOK BY DEF ContentOK, Down, At
<1>6. MarksOK BY DEF MarksOK, Down, At
<1>7. PackOK /\ CopyOK BY DEF PackOK, CopyOK, Down, At
<1> QED BY <1>1, <1>2, <1>3, <1>4, <1>5, <1>6, <1>7 DEF Inv

\* What the types say of the parts of the state.
LEMMA Parts ==
  ASSUME TypeOK
  PROVE  /\ \A i \in Inodes : /\ file[i].used \in BOOLEAN /\ file[i].off \in Nat
                              /\ file[i].cap \in Nat /\ file[i].n \in Nat
                              /\ want[i].used \in BOOLEAN /\ want[i].list \in Seq(Extents)
                              /\ Len(want[i].list) \in Nat
         /\ call.ino \in Nat /\ call.list \in Seq(Extents) /\ call.off \in Nat /\ call.cap \in Nat
         /\ Len(call.list) \in Nat
         /\ pack.todo \subseteq Inodes /\ pack.at \in Nat /\ pack.cursor \in Nat /\ pack.k \in Nat
  BY DEF TypeOK, Files, Wants, Calls, Packs

\* A slice's entries are those from its offset up to its capacity.
LEMMA SliceEntries ==
  ASSUME TypeOK, NEW i \in Inodes
  PROVE  \A e : e \in Slice(i) <=> /\ e \in Int /\ file[i].off <= e
                                   /\ e < file[i].off + file[i].cap
<1>1. file[i].off \in Nat /\ file[i].cap \in Nat BY Parts
<1> QED BY <1>1 DEF Slice, Entries

\* The slices of two files share no entry.
LEMMA SlicesDisjoint ==
  ASSUME TypeOK, PlacesOK, NEW i \in Inodes, NEW j \in Inodes, i # j
  PROVE  Slice(i) \cap Slice(j) = {}
<1> SUFFICES ASSUME NEW e, e \in Slice(i), e \in Slice(j) PROVE FALSE OBVIOUS
<1>1. /\ file[i].off \in Nat /\ file[i].cap \in Nat
      /\ file[j].off \in Nat /\ file[j].cap \in Nat
  BY Parts
<1>2. /\ e \in Int /\ file[i].off <= e /\ e < file[i].off + file[i].cap
      /\ file[j].off <= e /\ e < file[j].off + file[j].cap
  BY SliceEntries
<1>3. Apart(i, j) BY <1>1, <1>2 DEF PlacesOK
<1> QED BY <1>1, <1>2, <1>3 DEF Apart

\* Every slice is in the pool.
LEMMA SliceInPool ==
  ASSUME TypeOK, PlacesOK, NEW i \in Inodes
  PROVE  Slice(i) \subseteq Pool /\ Slice(i) \subseteq Owned
<1>1. file[i].off \in Nat /\ file[i].cap \in Nat /\ PoolExt \in Nat BY Parts, PoolAssumption
<1>2. file[i].off + file[i].cap <= PoolExt BY DEF PlacesOK
<1>3. Slice(i) \subseteq Pool BY <1>1, <1>2, SliceEntries DEF Pool
<1> QED BY <1>3 DEF Owned

\* Where pool_find is called, the bitmap marks the slices: before the
\* compaction, and after it.
LEMMA SearchMarks ==
  ASSUME Inv, FirstSearch \/ SecondSearch
  PROVE  pool_used = Owned
<1>0. TypeOK BY DEF Inv
<1>1. CASE FirstSearch BY <1>1 DEF FirstSearch, Inv, MarksOK
<1>2. CASE SecondSearch
  <2>1. pool_used = 0 .. (pack.cursor - 1) /\ pack.cursor <= PoolExt
    BY <1>2 DEF SecondSearch, Inv, PackOK
  <2>2. \A e \in Pool : e < pack.cursor => \E i \in Inodes : e \in Slice(i)
    BY <1>2, <1>0, Parts DEF SecondSearch, Inv, PackOK, Pool
  <2>3. ASSUME NEW i \in Inodes, NEW e \in Slice(i) PROVE e \in 0 .. (pack.cursor - 1)
    <3>1. file[i].off \in Nat /\ file[i].cap \in Nat /\ pack.cursor \in Nat BY <1>0, Parts
    <3>2. e \in Int /\ file[i].off <= e /\ e < file[i].off + file[i].cap
      BY <2>3, <1>0, SliceEntries
    <3>3. file[i].off + file[i].cap <= pack.cursor
      BY <3>1, <3>2, <1>2 DEF SecondSearch, Inv, PackOK
    <3> QED BY <3>1, <3>2, <3>3
  <2>4. pool_used \subseteq Pool BY <1>0 DEF TypeOK
  <2> QED BY <2>1, <2>2, <2>3, <2>4, <1>0, Parts DEF Owned, Pool
<1> QED BY <1>1, <1>2

-----------------------------------------------------------------------------
(* pool_reserve.                                                           *)

\* A turn of slice_cap_for.
LEMMA SizeInv ==
  ASSUME Inv, slice_cap_for
  PROVE  Inv'
<1> USE DEF slice_cap_for
<1>0. TypeOK BY DEF Inv
<1>1. call' \in Calls /\ call'.pc = call.pc /\ call'.what = call.what /\ call'.ino = call.ino
      /\ call'.list = call.list /\ call'.off = call.off /\ call'.cap = 2 * call.cap
  BY <1>0 DEF TypeOK, Calls
<1>2. TypeOK' BY <1>0, <1>1 DEF TypeOK
<1>3. CallOK' BY <1>1, Parts, <1>0 DEF Inv, CallOK
<1>4. FilesOK' BY <1>1 DEF Inv, FilesOK, Kept
<1>5. PlacesOK' BY DEF Inv, PlacesOK, Apart
<1>6. ContentOK' BY <1>1 DEF Inv, ContentOK, Kept, From
<1>7. MarksOK' BY <1>1 DEF Inv, MarksOK, Owned, Slice
<1>8. PackOK' /\ CopyOK' BY <1>1 DEF PackOK, CopyOK
<1> QED BY <1>2, <1>3, <1>4, <1>5, <1>6, <1>7, <1>8 DEF Inv

\* A run is found: it is in the pool, and apart from every slice.
LEMMA ReservedInv ==
  ASSUME Inv, NEW o \in Pool, Reserved(o)
  PROVE  Inv'
<1> USE DEF Reserved
<1>0. TypeOK /\ CallOK BY DEF Inv
<1>1. call' \in Calls /\ call'.pc = "data" /\ call'.what = call.what /\ call'.ino = call.ino
      /\ call'.list = call.list /\ call'.off = o /\ call'.cap = call.cap
  <2>1. o \in Nat BY PoolAssumption DEF Pool
  <2> QED BY <2>1, <1>0 DEF TypeOK, Calls
<1>2. Entries(o, call.cap) \subseteq Pool \ pool_used BY DEF pool_find, Fits
<1>3. call.pc \in {"size", "pack"} /\ call.cap > 0 /\ Len(call.list) <= call.cap
  BY <1>0 DEF CallOK, FirstSearch, SecondSearch
<1>4. pool_used = Owned BY SearchMarks
<1>5. o + call.cap <= PoolExt
  <2>1. o + call.cap - 1 \in Entries(o, call.cap) BY <1>3, <1>0, Parts DEF Entries, Pool
  <2> QED BY <2>1, <1>2, <1>0, Parts, PoolAssumption DEF Pool
<1>6. TypeOK' BY <1>0, <1>1, <1>2 DEF TypeOK, Packs, NoPack
<1>7. CallOK' BY <1>0, <1>1, <1>3 DEF CallOK
<1>8. FilesOK' BY <1>1, <1>3 DEF Inv, FilesOK, Kept
<1>9. PlacesOK' BY DEF Inv, PlacesOK, Apart
<1>10. ContentOK' BY <1>1, <1>3 DEF Inv, ContentOK, Kept, From
<1>11. MarksOK'
  <2>1. Owned' = Owned BY DEF Owned, Slice
  <2> QED BY <1>1, <1>2, <1>4, <1>5, <2>1 DEF MarksOK
<1>12. PackOK' /\ CopyOK' BY <1>1 DEF PackOK, CopyOK
<1> QED BY <1>6, <1>7, <1>8, <1>9, <1>10, <1>11, <1>12 DEF Inv

\* The compaction begins: nothing is packed.
LEMMA CompactInv ==
  ASSUME Inv, pool_compact
  PROVE  Inv'
<1> USE DEF pool_compact
<1>0. TypeOK /\ CallOK BY DEF Inv
<1>1. call' \in Calls /\ call'.pc = "pack" /\ call'.what = call.what /\ call'.ino = call.ino
      /\ call'.list = call.list /\ call'.off = call.off /\ call'.cap = call.cap
  BY <1>0 DEF TypeOK, Calls
<1>2. /\ pack' \in Packs /\ pack'.cursor = 0
      /\ pack'.todo = {i \in Inodes : file[i].used /\ file[i].cap > 0}
  BY DEF Packs, NoPack
<1>3. call.pc = "size" /\ call.cap >= Len(call.list) BY DEF FirstSearch
<1>4. TypeOK' BY <1>0, <1>1, <1>2 DEF TypeOK
<1>5. CallOK' BY <1>0, <1>1, <1>3, Parts DEF CallOK
<1>6. FilesOK' BY <1>1, <1>3 DEF Inv, FilesOK, Kept
<1>7. PlacesOK' BY DEF Inv, PlacesOK, Apart
<1>8. ContentOK' BY <1>1, <1>3 DEF Inv, ContentOK, Kept, From
<1>9. MarksOK' /\ CopyOK' BY <1>1 DEF MarksOK, CopyOK
<1>10. PackOK'
  <2>1. \A i \in Inodes : file[i].cap > 0 => file[i].used
    BY <1>3, <1>0, Parts DEF Inv, FilesOK
  <2> QED BY <1>2, <2>1, <1>0, Parts, PoolAssumption DEF PackOK
<1> QED BY <1>4, <1>5, <1>6, <1>7, <1>8, <1>9, <1>10 DEF Inv

\* The next slice: nothing of it is copied, or it stays.
LEMMA PackSliceInv ==
  ASSUME Inv, NEW i \in Inodes, PackSlice(i)
  PROVE  Inv'
<1> USE DEF PackSlice
<1>0. TypeOK /\ CallOK BY DEF Inv
<1>1. call' \in Calls /\ call'.pc = "copy" /\ call'.what = call.what /\ call'.ino = call.ino
      /\ call'.list = call.list /\ call'.off = call.off /\ call'.cap = call.cap
  BY <1>0 DEF TypeOK, Calls
<1>2. PICK k \in Nat : k = IF file[i].off = pack.cursor THEN file[i].n ELSE 0 BY <1>0, Parts
<1>3. /\ pack' \in Packs /\ pack'.cursor = pack.cursor /\ pack'.todo = pack.todo
      /\ pack'.at = i /\ pack'.k = k
  <2>1. i \in Nat BY PoolAssumption DEF Inodes
  <2> QED BY <1>0, <1>2, <2>1 DEF TypeOK, Packs
<1>4. TypeOK' BY <1>0, <1>1, <1>3 DEF TypeOK
<1>5. CallOK' BY <1>0, <1>1 DEF CallOK
<1>6. FilesOK' BY <1>1 DEF Inv, FilesOK, Kept
<1>7. PlacesOK' BY DEF Inv, PlacesOK, Apart
<1>8. ContentOK' BY <1>1 DEF Inv, ContentOK, Kept, From
<1>9. MarksOK' BY <1>1 DEF MarksOK
<1>10. PackOK' BY <1>1, <1>3 DEF Inv, PackOK, Slice
<1>11. CopyOK'
  <2>1. FirstOffset(i)' BY <1>3 DEF FirstOffset
  <2>2. i \in pack.todo BY DEF FirstOffset
  <2>3. Kept(i) /\ From(i, 0) BY <2>2, <1>0, Parts DEF Inv, PackOK, FilesOK, ContentOK
  <2>4. k <= file[i].n BY <1>2, <1>0, Parts
  <2>5. \A m \in Nat : m < k => pool[pack.cursor + m] = want[i].list[m + 1]
    BY <1>2, <2>3, <1>0, Parts DEF From
  <2>6. From(i, k)' BY <2>3, <1>2, <1>0, Parts DEF From
  <2> QED BY <1>3, <2>1, <2>4, <2>5, <2>6 DEF CopyOK
<1> QED BY <1>4, <1>5, <1>6, <1>7, <1>8, <1>9, <1>10, <1>11 DEF Inv

\* An entry is copied down, over nothing that is still needed.
LEMMA CopyInv ==
  ASSUME Inv, CopyEntry
  PROVE  Inv'
<1> USE DEF CopyEntry
<1>0. TypeOK /\ CallOK /\ Inv BY DEF Inv
<1>1. PICK i \in Inodes : i = pack.at BY <1>0, Parts DEF CopyOK, FirstOffset, Inv
<1>2. PICK c \in Nat : c = pack.cursor BY <1>0, Parts
<1>3. PICK k \in Nat : k = pack.k BY <1>0, Parts
<1>4. /\ FirstOffset(i) /\ i \in pack.todo /\ k < file[i].n /\ c <= file[i].off /\ file[i].cap > 0
      /\ \A m \in Nat : m < k => pool[c + m] = want[i].list[m + 1]
      /\ From(i, k)
  BY <1>0, <1>1, <1>2, <1>3 DEF Inv, CopyOK, PackOK, FirstOffset
<1>5. Kept(i) /\ file[i].n <= file[i].cap BY <1>4, <1>0, Parts DEF Inv, FilesOK
<1>6. file[i].off + file[i].cap <= PoolExt BY DEF Inv, PlacesOK
<1>n. file[i].off \in Nat /\ file[i].cap \in Nat /\ file[i].n \in Nat /\ PoolExt \in Nat
  BY <1>0, Parts, PoolAssumption
<1>7. c + k \in Pool /\ file[i].off + k \in Pool
  BY <1>4, <1>5, <1>6, <1>n DEF Pool
<1>8. pool' = [pool EXCEPT ![c + k] = pool[file[i].off + k]] BY <1>1, <1>2, <1>3
<1>9. /\ pool' \in [Pool -> Extents] /\ pool'[c + k] = pool[file[i].off + k]
      /\ \A e \in Pool : e # c + k => pool'[e] = pool[e]
  BY <1>7, <1>8, <1>0 DEF TypeOK
<1>10. /\ pack' \in Packs /\ pack'.cursor = c /\ pack'.todo = pack.todo /\ pack'.at = i
       /\ pack'.k = k + 1
  BY <1>0, <1>1, <1>2, <1>3 DEF TypeOK, Packs
<1>11. TypeOK' BY <1>0, <1>9, <1>10 DEF TypeOK
<1>12. CallOK' BY <1>0 DEF CallOK
<1>13. FilesOK' BY DEF Inv, FilesOK, Kept
<1>14. PlacesOK' BY DEF Inv, PlacesOK, Apart
<1>15. ContentOK'
  <2> SUFFICES ASSUME NEW j \in Inodes, Kept(j), j # i, NEW m \in Nat, m < file[j].n
               PROVE  pool'[file[j].off + m] = want[j].list[m + 1]
    BY <1>10 DEF ContentOK, Kept, From
  <2>1. pool[file[j].off + m] = want[j].list[m + 1] BY <1>1 DEF Inv, ContentOK, From
  <2>2. file[j].n <= file[j].cap /\ file[j].cap > 0 BY <1>0, Parts DEF Inv, FilesOK
  <2>n. file[j].off \in Nat /\ file[j].cap \in Nat /\ file[j].n \in Nat BY <1>0, Parts
  <2>a. file[j].off + file[j].cap <= PoolExt BY DEF Inv, PlacesOK
  <2>3. file[j].off + m \in Pool BY <2>2, <2>n, <2>a, <1>n DEF Pool
  <2>4. file[j].off + m # c + k
    <3>1. CASE j \in pack.todo
      <4>1. file[i].off <= file[j].off BY <3>1, <1>4 DEF FirstOffset
      <4>2. Apart(i, j) BY <2>2, <1>4 DEF Inv, PlacesOK
      <4> QED BY <4>1, <4>2, <2>2, <2>n, <1>4, <1>5, <1>n DEF Apart
    <3>2. CASE j \notin pack.todo
      <4>1. file[j].off + file[j].cap <= c BY <3>2, <2>2, <1>2 DEF Inv, PackOK
      <4> QED BY <4>1, <2>2, <2>n
    <3> QED BY <3>1, <3>2
  <2> QED BY <2>1, <2>3, <2>4, <1>9
<1>16. MarksOK' BY DEF MarksOK
<1>17. PackOK' BY <1>2, <1>10 DEF Inv, PackOK, Slice
<1>18. CopyOK'
  <2>1. FirstOffset(i)' BY <1>4, <1>10 DEF FirstOffset
  <2>2. \A m \in Nat : m < file[i].n => c + m \in Pool /\ file[i].off + m \in Pool
    BY <1>4, <1>5, <1>6, <1>n DEF Pool
  <2>3. \A m \in Nat : m < k + 1 => pool'[c + m] = want[i].list[m + 1]
    <3> SUFFICES ASSUME NEW m \in Nat, m < k + 1 PROVE pool'[c + m] = want[i].list[m + 1] OBVIOUS
    <3>1. CASE m = k BY <3>1, <1>9, <1>4, <1>0, Parts DEF From
    <3>2. CASE m < k BY <3>2, <1>9, <1>4, <2>2, <1>n
    <3> QED BY <3>1, <3>2
  <2>4. \A m \in Nat : k + 1 <= m /\ m < file[i].n => pool'[file[i].off + m] = want[i].list[m + 1]
    <3> SUFFICES ASSUME NEW m \in Nat, k + 1 <= m, m < file[i].n
                 PROVE  pool'[file[i].off + m] = want[i].list[m + 1]
      OBVIOUS
    <3>1. file[i].off + m # c + k /\ file[i].off + m \in Pool BY <1>4, <2>2, <1>n
    <3> QED BY <3>1, <1>9, <1>4 DEF From
  <2>5. From(i, k + 1)' BY <2>4, <1>0, Parts DEF From
  <2>6. k + 1 <= file[i].n BY <1>4, <1>n
  <2> QED BY <2>1, <2>3, <2>5, <2>6, <1>10 DEF CopyOK
<1> QED BY <1>11, <1>12, <1>13, <1>14, <1>15, <1>16, <1>17, <1>18 DEF Inv

\* A slice has been moved: the packed part has grown by it.
LEMMA PackedInv ==
  ASSUME Inv, SlicePacked
  PROVE  Inv'
<1> USE DEF SlicePacked
<1>0. TypeOK /\ CallOK /\ Inv BY DEF Inv
<1>1. PICK i \in Inodes : i = pack.at BY <1>0, Parts DEF CopyOK, FirstOffset, Inv
<1>2. PICK c \in Nat : c = pack.cursor BY <1>0, Parts
<1>n. file[i].off \in Nat /\ file[i].cap \in Nat /\ file[i].n \in Nat /\ PoolExt \in Nat
  BY <1>0, Parts, PoolAssumption
<1>3. PICK d \in Nat : d = c + file[i].cap BY <1>n
<1>4. /\ FirstOffset(i) /\ i \in pack.todo /\ c <= file[i].off /\ file[i].cap > 0
      /\ \A m \in Nat : m < file[i].n => pool[c + m] = want[i].list[m + 1]
  BY <1>0, <1>1, <1>2 DEF Inv, CopyOK, PackOK, FirstOffset
<1>5. /\ file' \in [Inodes -> Files]
      /\ file'[i].off = c /\ file'[i].cap = file[i].cap /\ file'[i].n = file[i].n
      /\ file'[i].used = file[i].used
      /\ \A j \in Inodes : j # i => file'[j] = file[j]
  <2>1. PICK g : g = [file[i] EXCEPT !.off = c] OBVIOUS
  <2>2. file[i] \in Files BY <1>0 DEF TypeOK
  <2>3. g \in Files /\ g.off = c /\ g.cap = file[i].cap /\ g.n = file[i].n /\ g.used = file[i].used
    BY <2>1, <2>2 DEF Files
  <2>4. file' = [file EXCEPT ![i] = g] BY <2>1, <1>1, <1>2
  <2> QED BY <2>3, <2>4, <1>0 DEF TypeOK
<1>6. call' \in Calls /\ call'.pc = "pack" /\ call'.what = call.what /\ call'.ino = call.ino
      /\ call'.list = call.list /\ call'.off = call.off /\ call'.cap = call.cap
  BY <1>0 DEF TypeOK, Calls
<1>7. pack' \in Packs /\ pack'.cursor = d /\ pack'.todo = pack.todo \ {i}
  <2>1. pack' = [pack EXCEPT !.todo = pack.todo \ {i}, !.cursor = d] BY <1>1, <1>2, <1>3
  <2> QED BY <2>1, <1>0 DEF TypeOK, Packs
<1>8. \A j \in Inodes : j # i /\ file[j].cap > 0 =>
          IF j \in pack.todo THEN d <= file[j].off ELSE file[j].off + file[j].cap <= c
  <2> SUFFICES ASSUME NEW j \in Inodes, j # i, file[j].cap > 0
               PROVE  IF j \in pack.todo THEN d <= file[j].off ELSE file[j].off + file[j].cap <= c
    OBVIOUS
  <2>1. CASE j \in pack.todo
    <3>1. file[i].off <= file[j].off BY <2>1, <1>4 DEF FirstOffset
    <3>2. Apart(i, j) BY <1>4 DEF Inv, PlacesOK
    <3>3. file[j].off \in Nat /\ file[j].cap \in Nat BY <1>0, Parts
    <3> QED BY <3>1, <3>2, <3>3, <2>1, <1>3, <1>4, <1>n DEF Apart
  <2>2. CASE j \notin pack.todo BY <2>2, <1>2 DEF Inv, PackOK
  <2> QED BY <2>1, <2>2
<1>9. c + file[i].cap <= PoolExt BY <1>4, <1>n DEF Inv, PlacesOK
<1>10. Entries(c, file[i].cap) = c .. (d - 1)
  <2>1. d - 1 = c + file[i].cap - 1 BY <1>3, <1>n
  <2> QED BY <2>1 DEF Entries
<1>11. pool_used = 0 .. (c - 1) /\ pool_used' = 0 .. (d - 1)
  <2>1. pool_used = 0 .. (c - 1) BY <1>2 DEF Inv, PackOK
  <2>2. pool_used' = (0 .. (c - 1)) \cup (c .. (d - 1)) BY <2>1, <1>1, <1>2, <1>10
  <2>3. c <= d BY <1>3, <1>n
  <2>4. (0 .. (c - 1)) \cup (c .. (d - 1)) = 0 .. (d - 1) BY <2>3
  <2> QED BY <2>1, <2>2, <2>4
<1>12. TypeOK'
  <2>1. pool_used' \subseteq Pool BY <1>11, <1>9, <1>3, <1>n DEF Pool
  <2> QED BY <2>1, <1>0, <1>5, <1>6, <1>7 DEF TypeOK
<1>13. CallOK'
  <2>1. \A j \in Inodes : file'[j].used = file[j].used /\ file'[j].n = file[j].n BY <1>5
  <2> QED BY <2>1, <1>0, <1>6 DEF CallOK
<1>14. FilesOK'
  <2>1. \A j \in Inodes : /\ file'[j].used = file[j].used /\ file'[j].n = file[j].n
                          /\ file'[j].cap = file[j].cap
    BY <1>5
  <2> QED BY <2>1, <1>6 DEF Inv, FilesOK, Kept
<1>15. PlacesOK'
  <2>1. \A j \in Inodes : file'[j].off + file'[j].cap <= PoolExt BY <1>5, <1>9 DEF Inv, PlacesOK
  <2>2. ASSUME NEW j \in Inodes, j # i, file[j].cap > 0 PROVE Apart(i, j)' /\ Apart(j, i)'
    <3>1. file[j].off \in Nat /\ file[j].cap \in Nat BY <1>0, Parts
    <3> QED BY <2>2, <3>1, <1>3, <1>5, <1>8, <1>n DEF Apart
  <2>3. ASSUME NEW j \in Inodes, NEW h \in Inodes, j # h, file'[j].cap > 0, file'[h].cap > 0
        PROVE  Apart(j, h)'
    <3>1. CASE j = i BY <3>1, <2>3, <2>2, <1>5
    <3>2. CASE h = i BY <3>2, <2>3, <2>2, <1>5
    <3>3. CASE j # i /\ h # i BY <3>3, <2>3, <1>5 DEF Inv, PlacesOK, Apart
    <3> QED BY <3>1, <3>2, <3>3
  <2> QED BY <2>1, <2>3 DEF PlacesOK
<1>16. ContentOK'
  <2>1. From(i, 0)' BY <1>4, <1>5 DEF From
  <2>2. ASSUME NEW j \in Inodes, j # i, Kept(j) PROVE From(j, 0)'
    <3>1. From(j, 0) BY <2>2, <1>1 DEF Inv, ContentOK
    <3> QED BY <3>1, <2>2, <1>5 DEF From
  <2> QED BY <2>1, <2>2, <1>6 DEF ContentOK, Kept
<1>17. MarksOK' /\ CopyOK' BY <1>6 DEF MarksOK, CopyOK
<1>18. PackOK'
  <2>1. \A j \in pack'.todo : file'[j].cap > 0 /\ d <= file'[j].off
    <3>1. \A j \in pack.todo : j \in Inodes /\ file[j].cap > 0 BY <1>0, Parts DEF Inv, PackOK
    <3> QED BY <3>1, <1>5, <1>7, <1>8
  <2>2. ASSUME NEW j \in Inodes \ pack'.todo, file'[j].cap > 0 PROVE file'[j].off + file'[j].cap <= d
    <3>1. CASE j = i BY <3>1, <1>3, <1>5
    <3>2. CASE j # i
      <4>1. file[j].off \in Nat /\ file[j].cap \in Nat BY <1>0, Parts
      <4> QED BY <4>1, <3>2, <2>2, <1>3, <1>5, <1>7, <1>8, <1>n
    <3> QED BY <3>1, <3>2
  <2>3. ASSUME NEW e \in 0 .. (d - 1) PROVE \E j \in Inodes \ pack'.todo : e \in Slice(j)'
    <3>1. CASE e < c
      <4>1. PICK j \in Inodes \ pack.todo : e \in Slice(j) BY <3>1, <1>2 DEF Inv, PackOK
      <4>2. j # i /\ file'[j] = file[j] BY <4>1, <1>4, <1>5
      <4> QED BY <4>1, <4>2, <1>7 DEF Slice
    <3>2. CASE c <= e
      <4>1. e \in Slice(i)' BY <3>2, <1>5, <1>10 DEF Slice
      <4> QED BY <4>1, <1>7
    <3> QED BY <3>1, <3>2
  <2>4. d <= PoolExt BY <1>3, <1>9
  <2> QED BY <2>1, <2>2, <2>3, <2>4, <1>7, <1>11 DEF PackOK
<1> QED BY <1>12, <1>13, <1>14, <1>15, <1>16, <1>17, <1>18 DEF Inv

\* The call that is refused ends.
LEMMA RefusedInv ==
  ASSUME Inv, Refused
  PROVE  Inv'
<1> USE DEF Refused
<1>0. TypeOK /\ CallOK BY DEF Inv
<1>1. pool_used = Owned BY SearchMarks
<1>2. Owned' = Owned BY DEF Owned, Slice
<1>3. /\ call' \in {Idle, Down} /\ call' \in Calls /\ Idle.pc = "idle" /\ Down.pc = "down"
      /\ Idle.what = "none" /\ Down.what = "none"
  BY DEF Idle, Down, At, Calls
<1>4. TypeOK' BY <1>0, <1>3 DEF TypeOK, Packs, NoPack
<1>5. CallOK' BY <1>3 DEF CallOK
<1>6. PlacesOK' BY DEF Inv, PlacesOK, Apart
<1>7. PackOK' /\ CopyOK' BY <1>3 DEF PackOK, CopyOK
<1>8. CASE call.what = "mount"
  <2>1. call'.pc = "down" BY <1>8, <1>3
  <2>2. FilesOK' /\ ContentOK' /\ MarksOK' BY <2>1 DEF FilesOK, ContentOK, MarksOK
  <2> QED BY <2>2, <1>4, <1>5, <1>6, <1>7 DEF Inv
<1>9. CASE call.what # "mount"
  <2>1. call'.pc = "idle" /\ call'.what = "none" /\ call.pc = "pack" BY <1>9, <1>3 DEF SecondSearch
  <2>2. FilesOK' BY <2>1, <1>9 DEF Inv, FilesOK, Kept
  <2>3. ContentOK' BY <2>1, <1>9 DEF Inv, ContentOK, Kept, From
  <2>4. MarksOK' BY <2>1, <1>1, <1>2 DEF MarksOK
  <2> QED BY <2>2, <2>3, <2>4, <1>4, <1>5, <1>6, <1>7 DEF Inv
<1> QED BY <1>8, <1>9

\* All of pool_reserve.
LEMMA ReserveInv ==
  ASSUME Inv, pool_reserve
  PROVE  Inv'
  BY SizeInv, CompactInv, CopyInv, PackedInv, RefusedInv, ReservedInv, PackSliceInv DEF pool_reserve

-----------------------------------------------------------------------------
(* The calls on a volume.                                                  *)

\* The fields of the calls.
LEMMA CallFields ==
  /\ Idle \in Calls /\ Idle.pc = "idle" /\ Idle.what = "none"
  /\ Down \in Calls /\ Down.pc = "down" /\ Down.what = "none"
  /\ \A i \in Nat : /\ AtInode(i) \in Calls /\ AtInode(i).pc = "inode"
                    /\ AtInode(i).what = "mount" /\ AtInode(i).ino = i
  BY DEF Idle, Down, At, AtInode, Calls

\* A reservation begins with a search, or with nothing to search for.
LEMMA ReserveFields ==
  ASSUME NEW what \in {"write", "mount"}, NEW i \in Inodes, NEW list \in Seq(Extents)
  PROVE  LET c == Reserve(what, i, list) IN
         /\ c \in Calls /\ c.what = what /\ c.ino = i /\ c.list = list /\ c.off = 0
         /\ \/ c.pc = "size" /\ c.cap > 0
            \/ c.pc = "data" /\ c.cap = 0 /\ Len(list) = 0
<1>1. i \in Nat BY PoolAssumption DEF Inodes
<1>2. CASE list = <<>> BY <1>1, <1>2, PoolAssumption DEF Reserve, Calls
<1>3. CASE list # <<>> BY <1>1, <1>3, PoolAssumption DEF Reserve, Calls
<1> QED BY <1>2, <1>3

\* No entries are in a slice of no capacity.
LEMMA NoEntries == \A o \in Nat : Entries(o, 0) = {}
  BY DEF Entries

\* A file loses its slice, or has none to lose.
LEMMA PlacesKept ==
  ASSUME PlacesOK, NEW i \in Inodes, file'[i].off = 0, file'[i].cap = 0,
         \A j \in Inodes : j # i => file'[j] = file[j]
  PROVE  PlacesOK'
<1>1. \A j \in Inodes : file'[j].off + file'[j].cap <= PoolExt BY PoolAssumption DEF PlacesOK
<1>2. ASSUME NEW j \in Inodes, NEW h \in Inodes, j # h, file'[j].cap > 0, file'[h].cap > 0
      PROVE  Apart(j, h)'
  <2>1. j # i /\ h # i BY <1>2
  <2> QED BY <1>2, <2>1 DEF PlacesOK, Apart
<1> QED BY <1>1, <1>2 DEF PlacesOK

\* make_node.
LEMMA CreateInv ==
  ASSUME Inv, NEW i \in Inodes, Create(i)
  PROVE  Inv'
<1>0. TypeOK BY DEF Inv
<1>1. call.pc = "idle" /\ call.what = "none" BY CallFields DEF Create
<1>3. /\ NewFile \in Files /\ NewFile.used = TRUE /\ NewFile.off = 0 /\ NewFile.cap = 0
      /\ NewFile.n = 0
  BY DEF NewFile, NoFile, Files
<1>4. file' \in [Inodes -> Files] /\ file'[i] = NewFile /\ \A j \in Inodes : j # i => file'[j] = file[j]
  BY <1>0, <1>3 DEF TypeOK, Create
<1>5. Empty \in Wants /\ Empty.used = TRUE /\ Len(Empty.list) = 0 BY DEF Empty, Wants
<1>6. want' \in [Inodes -> Wants] /\ want'[i] = Empty /\ \A j \in Inodes : j # i => want'[j] = want[j]
  BY <1>0, <1>5 DEF TypeOK, Create
<1>7. file[i].cap = 0 /\ file[i].off \in Nat
  BY <1>0, <1>1, Parts DEF Inv, FilesOK, Create
<1>u. UNCHANGED <<pool, pool_used, call, pack>> BY DEF Create
<1>8. Owned' = Owned
  <2>1. Slice(i) = {} /\ Slice(i)' = {} BY <1>3, <1>4, <1>7, NoEntries DEF Slice
  <2>2. \A j \in Inodes : j # i => Slice(j)' = Slice(j) BY <1>4 DEF Slice
  <2> QED BY <2>1, <2>2 DEF Owned
<1>9. TypeOK' BY <1>0, <1>4, <1>6, <1>u DEF TypeOK
<1>10. CallOK' BY <1>1, <1>u DEF Inv, CallOK
<1>11. FilesOK'
  <2> SUFFICES ASSUME NEW j \in Inodes
               PROVE  IF want'[j].used THEN /\ file'[j].used
                                            /\ file'[j].n = Len(want'[j].list)
                                            /\ file'[j].n <= file'[j].cap
                                       ELSE file'[j].cap = 0 /\ ~file'[j].used
    BY <1>1, <1>u DEF FilesOK, Kept
  <2>1. CASE j = i BY <2>1, <1>3, <1>4, <1>5, <1>6
  <2>2. CASE j # i BY <2>2, <1>1, <1>4, <1>6 DEF Inv, FilesOK, Kept
  <2> QED BY <2>1, <2>2
<1>12. PlacesOK' BY <1>3, <1>4, PlacesKept DEF Inv
<1>13. ContentOK'
  <2>1. From(i, 0)' BY <1>3, <1>4 DEF From
  <2>2. \A j \in Inodes : j # i /\ Kept(j)' => From(j, 0)'
    BY <1>1, <1>4, <1>6, <1>u DEF Inv, ContentOK, Kept, From
  <2> QED BY <2>1, <2>2 DEF ContentOK
<1>14. MarksOK' BY <1>1, <1>8, <1>u DEF Inv, MarksOK
<1>15. PackOK' /\ CopyOK' BY <1>1, <1>u DEF PackOK, CopyOK
<1> QED BY <1>9, <1>10, <1>11, <1>12, <1>13, <1>14, <1>15 DEF Inv

\* exfs_delete.
LEMMA DeleteInv ==
  ASSUME Inv, NEW i \in Inodes, Delete(i)
  PROVE  Inv'
<1> USE DEF Delete
<1>0. TypeOK /\ PlacesOK BY DEF Inv
<1>1. call.pc = "idle" /\ call.what = "none" BY CallFields
<1>2. /\ NoFile \in Files /\ NoFile.used = FALSE /\ NoFile.off = 0 /\ NoFile.cap = 0 /\ NoFile.n = 0
  BY DEF NoFile, Files
<1>3. file' \in [Inodes -> Files] /\ file'[i] = NoFile /\ \A j \in Inodes : j # i => file'[j] = file[j]
  BY <1>0, <1>2 DEF TypeOK
<1>4. Nothing \in Wants /\ Nothing.used = FALSE BY DEF Nothing, Wants
<1>5. want' \in [Inodes -> Wants] /\ want'[i] = Nothing /\ \A j \in Inodes : j # i => want'[j] = want[j]
  BY <1>0, <1>4 DEF TypeOK
<1>6. Owned' = Owned \ Slice(i)
  <2>1. Slice(i)' = {} BY <1>2, <1>3, NoEntries DEF Slice
  <2>2. \A j \in Inodes : j # i => Slice(j)' = Slice(j) /\ Slice(j) \cap Slice(i) = {}
    BY <1>0, <1>3, SlicesDisjoint DEF Slice
  <2> QED BY <2>1, <2>2 DEF Owned
<1>7. TypeOK' BY <1>0, <1>3, <1>5 DEF TypeOK
<1>8. CallOK' BY <1>1 DEF Inv, CallOK
<1>9. FilesOK' BY <1>1, <1>2, <1>3, <1>4, <1>5 DEF Inv, FilesOK, Kept
<1>10. PlacesOK' BY <1>0, <1>2, <1>3, PlacesKept
<1>11. ContentOK' BY <1>1, <1>3, <1>4, <1>5 DEF Inv, ContentOK, Kept, From
<1>12. MarksOK' BY <1>1, <1>6 DEF Inv, MarksOK, Slice
<1>13. PackOK' /\ CopyOK' BY <1>1 DEF PackOK, CopyOK
<1> QED BY <1>7, <1>8, <1>9, <1>10, <1>11, <1>12, <1>13 DEF Inv

\* A write begins.
LEMMA WriteInv ==
  ASSUME Inv, NEW i \in Inodes, NEW list \in Lists, Write(i, list)
  PROVE  Inv'
<1> USE DEF Write
<1>0. TypeOK BY DEF Inv
<1>1. call.pc = "idle" /\ call.what = "none" BY CallFields
<1>2. list \in Seq(Extents) BY PoolAssumption
<1>3. /\ call' \in Calls /\ call'.what = "write" /\ call'.ino = i /\ call'.list = list /\ call'.off = 0
      /\ \/ call'.pc = "size" /\ call'.cap > 0
         \/ call'.pc = "data" /\ call'.cap = 0 /\ Len(list) = 0
  BY <1>2, ReserveFields
<1>4. TypeOK' BY <1>0, <1>3 DEF TypeOK
<1>5. want[i].used BY <1>1 DEF Inv, FilesOK, Kept
<1>6. pack = NoPack BY <1>1 DEF Inv, CallOK
<1>7. CallOK' BY <1>3, <1>5, <1>6 DEF CallOK
<1>8. FilesOK' BY <1>1, <1>3 DEF Inv, FilesOK, Kept
<1>9. PlacesOK' BY DEF Inv, PlacesOK, Apart
<1>10. ContentOK' BY <1>1, <1>3 DEF Inv, ContentOK, Kept, From
<1>11. MarksOK'
  <2>1. Owned' = Owned BY DEF Owned, Slice
  <2>2. pool_used = Owned BY <1>1 DEF Inv, MarksOK
  <2>3. Entries(0, 0) = {} BY NoEntries
  <2> QED BY <2>1, <2>2, <2>3, <1>3, PoolAssumption DEF MarksOK
<1>12. PackOK' /\ CopyOK' BY <1>3 DEF PackOK, CopyOK
<1> QED BY <1>4, <1>7, <1>8, <1>9, <1>10, <1>11, <1>12 DEF Inv

\* A write fails.
LEMMA WriteFailsInv ==
  ASSUME Inv, WriteFails
  PROVE  Inv'
<1> USE DEF WriteFails
<1>0. TypeOK BY DEF Inv
<1>1. call' \in Calls /\ call'.pc = "idle" /\ call'.what = "none" BY CallFields
<1>2. TypeOK' BY <1>0, <1>1 DEF TypeOK
<1>3. CallOK' BY <1>1 DEF Inv, CallOK
<1>4. FilesOK' BY <1>1 DEF Inv, FilesOK, Kept
<1>5. PlacesOK' BY DEF Inv, PlacesOK, Apart
<1>6. ContentOK' BY <1>1 DEF Inv, ContentOK, Kept, From
<1>7. MarksOK'
  <2>1. Owned' = Owned BY DEF Owned, Slice
  <2> QED BY <2>1, <1>1 DEF Inv, MarksOK
<1>8. PackOK' /\ CopyOK' BY <1>1 DEF PackOK, CopyOK
<1> QED BY <1>2, <1>3, <1>4, <1>5, <1>6, <1>7, <1>8 DEF Inv

\* A list is stored in the slice that was reserved for it: the lists of the
\* other files are where they were.
LEMMA Stored ==
  ASSUME Inv, call.pc = "data", NEW i \in Inodes, pool' = Store,
         file' \in [Inodes -> Files],
         file'[i].off = call.off, file'[i].cap = call.cap, file'[i].n = Len(call.list),
         \A j \in Inodes : j # i => file'[j] = file[j],
         want'[i].list = call.list, \A j \in Inodes : j # i => want'[j] = want[j]
  PROVE  /\ pool' \in [Pool -> Extents]
         /\ Owned' = (Owned \ Slice(i)) \cup Entries(call.off, call.cap)
         /\ PlacesOK'
         /\ From(i, 0)'
         /\ \A j \in Inodes : j # i /\ Kept(j) => From(j, 0)'
<1>0. TypeOK /\ PlacesOK BY DEF Inv
<1>n. /\ call.off \in Nat /\ call.cap \in Nat /\ Len(call.list) \in Nat /\ PoolExt \in Nat
      /\ call.list \in Seq(Extents)
  BY <1>0, Parts, PoolAssumption
<1>1. /\ call.off + call.cap <= PoolExt /\ Len(call.list) <= call.cap
      /\ Owned \cap Entries(call.off, call.cap) = {}
  BY DEF Inv, MarksOK, CallOK
<1>2. \A e : e \in Entries(call.off, call.cap) <=>
                e \in Int /\ call.off <= e /\ e < call.off + call.cap
  BY <1>n DEF Entries
<1>3. Entries(call.off, call.cap) \subseteq Pool BY <1>1, <1>2, <1>n DEF Pool
<1>4. Slice(i)' = Entries(call.off, call.cap) BY DEF Slice
<1>5. \A j \in Inodes : j # i => Slice(j)' = Slice(j) /\ Slice(j) \cap Slice(i) = {}
  BY <1>0, SlicesDisjoint DEF Slice
<1>6. Owned' = (Owned \ Slice(i)) \cup Entries(call.off, call.cap)
  BY <1>3, <1>4, <1>5 DEF Owned
<1>7. pool' \in [Pool -> Extents]
  <2>1. \A e \in 1 .. Len(call.list) : call.list[e] \in Extents BY <1>n
  <2>2. \A e \in Pool : pool[e] \in Extents BY <1>0 DEF TypeOK
  <2> QED BY <2>1, <2>2 DEF Store
<1>8. PlacesOK'
  <2>1. \A j \in Inodes : file'[j].off + file'[j].cap <= PoolExt
    BY <1>0, <1>1 DEF PlacesOK
  <2>2. ASSUME NEW j \in Inodes, j # i, file[j].cap > 0, call.cap > 0
        PROVE  Apart(i, j)' /\ Apart(j, i)'
    <3>1. file[j].off \in Nat /\ file[j].cap \in Nat BY <1>0, Parts
    <3>2. Slice(j) \cap Entries(call.off, call.cap) = {} BY <1>0, <1>1, SliceInPool
    <3>3. \A e : e \in Slice(j) <=> e \in Int /\ file[j].off <= e /\ e < file[j].off + file[j].cap
      BY <1>0, SliceEntries
    <3>4. call.off + call.cap <= file[j].off \/ file[j].off + file[j].cap <= call.off
      <4>1. CASE call.off <= file[j].off
        <5>1. file[j].off \in Slice(j) BY <3>1, <3>3, <2>2
        <5>2. file[j].off \notin Entries(call.off, call.cap) BY <5>1, <3>2
        <5> QED BY <5>2, <4>1, <1>2, <3>1, <1>n
      <4>2. CASE file[j].off <= call.off
        <5>1. call.off \in Entries(call.off, call.cap) BY <1>2, <1>n, <2>2
        <5>2. call.off \notin Slice(j) BY <5>1, <3>2
        <5> QED BY <5>2, <4>2, <3>3, <3>1, <1>n
      <4> QED BY <4>1, <4>2, <3>1, <1>n
    <3> QED BY <3>4, <2>2 DEF Apart
  <2>3. ASSUME NEW j \in Inodes, NEW h \in Inodes, j # h, file'[j].cap > 0, file'[h].cap > 0
        PROVE  Apart(j, h)'
    <3>1. CASE j = i BY <3>1, <2>3, <2>2
    <3>2. CASE h = i BY <3>2, <2>3, <2>2
    <3>3. CASE j # i /\ h # i BY <3>3, <2>3, <1>0 DEF PlacesOK, Apart
    <3> QED BY <3>1, <3>2, <3>3
  <2> QED BY <2>1, <2>3 DEF PlacesOK
<1>9. From(i, 0)'
  <2> SUFFICES ASSUME NEW m \in Nat, m < Len(call.list)
               PROVE  pool'[call.off + m] = call.list[m + 1]
    BY DEF From
  <2>1. PICK e \in Int : e = call.off + m BY <1>n
  <2>2. e \in Pool BY <2>1, <1>1, <1>n DEF Pool
  <2>3. e - call.off + 1 = m + 1 /\ m + 1 \in 1 .. Len(call.list) BY <2>1, <1>n
  <2>4. pool'[e] = call.list[e - call.off + 1] BY <2>2, <2>3 DEF Store
  <2> QED BY <2>1, <2>3, <2>4
<1>10. ASSUME NEW j \in Inodes, j # i, Kept(j) PROVE From(j, 0)'
  <2>0. From(j, 0) /\ file[j].n <= file[j].cap BY <1>10 DEF Inv, ContentOK, FilesOK
  <2> SUFFICES ASSUME NEW m \in Nat, m < file[j].n
               PROVE  pool'[file[j].off + m] = pool[file[j].off + m]
    BY <1>10, <2>0 DEF From
  <2>1. file[j].off \in Nat /\ file[j].cap \in Nat /\ file[j].n \in Nat BY <1>0, Parts
  <2>2. PICK e \in Int : e = file[j].off + m BY <2>1
  <2>3. e \in Slice(j) BY <2>0, <2>1, <2>2, <1>0, SliceEntries
  <2>4. e \in Pool /\ e \notin Entries(call.off, call.cap) BY <2>3, <1>0, <1>1, SliceInPool
  <2>5. e - call.off + 1 \notin 1 .. Len(call.list) BY <2>4, <1>1, <1>2, <1>n
  <2> QED BY <2>2, <2>4, <2>5 DEF Store
<1> QED BY <1>6, <1>7, <1>8, <1>9, <1>10

\* A write ends.
LEMMA InstallInv ==
  ASSUME Inv, WriteInstall
  PROVE  Inv'
<1> USE DEF WriteInstall
<1>0. TypeOK BY DEF Inv
<1>1. call' \in Calls /\ call'.pc = "idle" /\ call'.what = "none" BY CallFields
<1>2. PICK i \in Inodes : i = call.ino BY DEF Inv, CallOK
<1>n. /\ call.off \in Nat /\ call.cap \in Nat /\ Len(call.list) \in Nat
      /\ call.list \in Seq(Extents)
  BY <1>0, Parts
<1>3. PICK g : g = [used |-> TRUE, off |-> call.off, cap |-> call.cap, n |-> Len(call.list)] OBVIOUS
<1>4. /\ g \in Files /\ g.used = TRUE /\ g.off = call.off /\ g.cap = call.cap /\ g.n = Len(call.list)
  BY <1>3, <1>n DEF Files
<1>5. file' \in [Inodes -> Files] /\ file'[i] = g /\ \A j \in Inodes : j # i => file'[j] = file[j]
  BY <1>0, <1>2, <1>3, <1>4 DEF TypeOK
<1>6. PICK w : w = [used |-> TRUE, list |-> call.list] OBVIOUS
<1>7. w \in Wants /\ w.used = TRUE /\ w.list = call.list BY <1>6, <1>n DEF Wants
<1>8. want' \in [Inodes -> Wants] /\ want'[i] = w /\ \A j \in Inodes : j # i => want'[j] = want[j]
  BY <1>0, <1>2, <1>6, <1>7 DEF TypeOK
<1>9. /\ pool' \in [Pool -> Extents]
      /\ Owned' = (Owned \ Slice(i)) \cup Entries(call.off, call.cap)
      /\ PlacesOK'
      /\ From(i, 0)'
      /\ \A j \in Inodes : j # i /\ Kept(j) => From(j, 0)'
  BY <1>4, <1>5, <1>7, <1>8, Stored
<1>10. pool_used' = Owned'
  <2>1. Slice(i) \subseteq Owned BY <1>0, SliceInPool DEF Inv
  <2>2. /\ pool_used = Owned \cup Entries(call.off, call.cap)
        /\ Owned \cap Entries(call.off, call.cap) = {}
    BY DEF Inv, MarksOK
  <2>3. pool_used' = pool_used \ Slice(i) BY <1>2 DEF Slice
  <2> QED BY <2>1, <2>2, <2>3, <1>9
<1>11. TypeOK' BY <1>0, <1>1, <1>5, <1>8, <1>9 DEF TypeOK
<1>12. CallOK' BY <1>1 DEF Inv, CallOK
<1>13. FilesOK'
  <2>1. Len(call.list) <= call.cap BY DEF Inv, CallOK
  <2> QED BY <2>1, <1>1, <1>4, <1>5, <1>7, <1>8 DEF Inv, FilesOK, Kept
<1>14. ContentOK' BY <1>1, <1>8, <1>9 DEF ContentOK, Kept
<1>15. MarksOK' BY <1>1, <1>10 DEF MarksOK
<1>16. PackOK' /\ CopyOK' BY <1>1 DEF PackOK, CopyOK
<1> QED BY <1>9, <1>11, <1>12, <1>13, <1>14, <1>15, <1>16 DEF Inv

\* exfs_format.
LEMMA FormatInv ==
  ASSUME Inv, Format
  PROVE  Inv'
<1> USE DEF Format
<1>0. TypeOK BY DEF Inv
<1>1. call' \in Calls /\ call'.pc = "idle" /\ call'.what = "none" /\ call.pc \in {"idle", "down"}
  BY CallFields
<1>2. \A i \in Inodes : /\ file'[i] \in Files /\ file'[i].off = 0 /\ file'[i].cap = 0
                        /\ file'[i].n = 0
                        /\ IF i < FormatNodes THEN file'[i].used ELSE ~file'[i].used
  <2>1. /\ NewFile \in Files /\ NewFile.used = TRUE /\ NewFile.off = 0 /\ NewFile.cap = 0
        /\ NewFile.n = 0
    BY DEF NewFile, NoFile, Files
  <2>2. /\ NoFile \in Files /\ NoFile.used = FALSE /\ NoFile.off = 0 /\ NoFile.cap = 0
        /\ NoFile.n = 0
    BY DEF NoFile, Files
  <2>3. \A i \in Inodes : file'[i] = IF i < FormatNodes THEN NewFile ELSE NoFile OBVIOUS
  <2> QED BY <2>1, <2>2, <2>3
<1>3. \A i \in Inodes : /\ want'[i] \in Wants /\ Len(want'[i].list) = 0
                        /\ IF i < FormatNodes THEN want'[i].used ELSE ~want'[i].used
  <2>1. Empty \in Wants /\ Empty.used = TRUE /\ Len(Empty.list) = 0 BY DEF Empty, Wants
  <2>2. Nothing \in Wants /\ Nothing.used = FALSE /\ Len(Nothing.list) = 0 BY DEF Nothing, Wants
  <2>3. \A i \in Inodes : want'[i] = IF i < FormatNodes THEN Empty ELSE Nothing OBVIOUS
  <2> QED BY <2>1, <2>2, <2>3
<1>4. TypeOK'
  <2>1. file' \in [Inodes -> Files] BY <1>2
  <2>2. want' \in [Inodes -> Wants] BY <1>3
  <2> QED BY <2>1, <2>2, <1>0, <1>1 DEF TypeOK
<1>5. Owned' = {} /\ PlacesOK'
  <2>1. \A i \in Inodes : Slice(i)' = {} BY <1>2, NoEntries DEF Slice
  <2> QED BY <2>1, <1>2, PoolAssumption DEF Owned, PlacesOK
<1>6. CallOK' BY <1>1 DEF Inv, CallOK
<1>7. FilesOK' BY <1>1, <1>2, <1>3 DEF FilesOK, Kept
<1>8. ContentOK' BY <1>2 DEF ContentOK, From
<1>9. MarksOK' BY <1>1, <1>5 DEF MarksOK
<1>10. PackOK' /\ CopyOK' BY <1>1 DEF PackOK, CopyOK
<1> QED BY <1>4, <1>5, <1>6, <1>7, <1>8, <1>9, <1>10 DEF Inv

\* exfs_mount begins.
LEMMA MountInv ==
  ASSUME Inv, NEW d \in Disks \cup {want}, Mount(d)
  PROVE  Inv'
<1>0. TypeOK BY DEF Inv
<1>1. /\ call' \in Calls /\ call'.pc = "inode" /\ call'.what = "mount" /\ call'.ino = 0
      /\ call' = AtInode(call'.ino) /\ call.pc \in {"idle", "down"}
  BY CallFields DEF Mount
<1>2. \A i \in Inodes : /\ file'[i] \in Files /\ file'[i].off = 0 /\ file'[i].cap = 0
  BY <1>0 DEF TypeOK, Files, Mount
<1>3. want' \in [Inodes -> Wants] BY <1>0, PoolAssumption DEF TypeOK, Wants, Mount
<1>u. pool' = pool /\ pack' = pack /\ pool_used' = {} /\ file' = [i \in Inodes |-> file'[i]]
  BY DEF Mount
<1>4. TypeOK'
  <2>1. file' \in [Inodes -> Files] BY <1>2, <1>u
  <2> QED BY <2>1, <1>0, <1>1, <1>3, <1>u DEF TypeOK
<1>5. Owned' = {} /\ PlacesOK'
  <2>1. \A i \in Inodes : Slice(i)' = {} BY <1>2, NoEntries DEF Slice
  <2> QED BY <2>1, <1>2, PoolAssumption DEF Owned, PlacesOK
<1>6. CallOK'
  <2>1. 0 <= NInodes BY PoolAssumption
  <2>2. pack = NoPack BY <1>1 DEF Inv, CallOK
  <2> QED BY <2>1, <2>2, <1>1, <1>u DEF CallOK
<1>7. FilesOK' /\ ContentOK'
  <2>1. \A i \in Inodes : i \in Nat /\ 0 <= i /\ ~(i < 0) BY PoolAssumption DEF Inodes
  <2>2. \A i \in Inodes : ~Kept(i)' BY <2>1, <1>1 DEF Kept
  <2>3. FilesOK' BY <2>1, <2>2, <1>1, <1>2 DEF FilesOK
  <2> QED BY <2>2, <2>3 DEF ContentOK
<1>8. MarksOK' BY <1>1, <1>5, <1>u DEF MarksOK
<1>9. PackOK' /\ CopyOK' BY <1>1 DEF PackOK, CopyOK
<1> QED BY <1>4, <1>5, <1>6, <1>7, <1>8, <1>9 DEF Inv

\* A mount reads an inode.
LEMMA InodeInv ==
  ASSUME Inv, MountInode
  PROVE  Inv'
<1> USE DEF MountInode
<1>0. TypeOK BY DEF Inv
<1>1. call.what = "mount" BY <1>0, Parts, CallFields DEF Inv, CallOK
<1>2. PICK i \in Inodes : i = call.ino BY <1>0, Parts, PoolAssumption DEF Inodes
<1>n. i \in Nat /\ NInodes \in Nat BY PoolAssumption DEF Inodes
<1>3. PICK w \in Wants : w = want[i] BY <1>0 DEF TypeOK
<1>4. w.used \in BOOLEAN /\ w.list \in Seq(Extents) /\ Len(w.list) \in Nat BY DEF Wants
<1>5. PICK g : g = [used |-> w.used, off |-> 0, cap |-> 0, n |-> Len(w.list)] OBVIOUS
<1>6. g \in Files /\ g.used = w.used /\ g.off = 0 /\ g.cap = 0 /\ g.n = Len(w.list)
  BY <1>4, <1>5 DEF Files
<1>7. file' \in [Inodes -> Files] /\ file'[i] = g /\ \A j \in Inodes : j # i => file'[j] = file[j]
  BY <1>0, <1>2, <1>3, <1>5, <1>6 DEF TypeOK
<1>8. file[i].cap = 0 /\ file[i].off \in Nat
  BY <1>0, <1>1, <1>2, <1>n, Parts DEF Inv, FilesOK, Kept
<1>9. Owned' = Owned /\ pool_used = Owned
  <2>1. Slice(i) = {} /\ Slice(i)' = {} BY <1>6, <1>7, <1>8, NoEntries DEF Slice
  <2>2. \A j \in Inodes : j # i => Slice(j)' = Slice(j) BY <1>7 DEF Slice
  <2> QED BY <2>1, <2>2 DEF Owned, Inv, MarksOK
<1>10. PlacesOK' BY <1>6, <1>7, PlacesKept DEF Inv
<1>11. pack = NoPack BY DEF Inv, CallOK
<1>12. CASE w.used
  <2>1. /\ call' \in Calls /\ call'.what = "mount" /\ call'.ino = i /\ call'.list = w.list
        /\ call'.off = 0
        /\ \/ call'.pc = "size" /\ call'.cap > 0
           \/ call'.pc = "data" /\ call'.cap = 0 /\ Len(w.list) = 0
    BY <1>12, <1>2, <1>3, <1>4, ReserveFields
  <2>2. TypeOK' BY <2>1, <1>0, <1>7 DEF TypeOK
  <2>3. CallOK'
    <3>1. /\ want'[i].used /\ call'.list = want'[i].list /\ file'[i].used
          /\ file'[i].n = Len(call'.list)
      BY <2>1, <1>3, <1>6, <1>7, <1>12
    <3>2. pack' = NoPack BY <1>11
    <3>3. call'.pc = "data" => Len(call'.list) <= call'.cap BY <2>1
    <3> HIDE DEF MountInode
    <3> QED BY <2>1, <3>1, <3>2, <3>3 DEF CallOK
  <2>4. FilesOK'
    <3>1. \A j \in Inodes : Kept(j)' <=> Kept(j) BY <2>1, <1>1, <1>2 DEF Kept
    <3>2. ~Kept(i) BY <1>1, <1>2, <1>n DEF Kept
    <3> QED BY <3>1, <3>2, <2>1, <1>1, <1>2, <1>6, <1>7, <1>n DEF Inv, FilesOK
  <2>5. ContentOK'
    <3>1. \A j \in Inodes : Kept(j)' => Kept(j) /\ j # i BY <2>1, <1>1, <1>2, <1>n DEF Kept
    <3>2. \A j \in Inodes : Kept(j) => From(j, 0) BY DEF Inv, ContentOK
    <3> QED BY <3>1, <3>2, <1>7 DEF ContentOK, From
  <2>6. MarksOK'
    <3>1. Entries(0, 0) = {} BY NoEntries
    <3> QED BY <3>1, <2>1, <1>9, PoolAssumption DEF MarksOK
  <2>7. PackOK' /\ CopyOK' BY <2>1 DEF PackOK, CopyOK
  <2> QED BY <2>2, <2>3, <2>4, <2>5, <2>6, <2>7, <1>10 DEF Inv
<1>13. CASE ~w.used
  <2>1. /\ call' \in Calls /\ call'.what = "mount" /\ call'.ino = i + 1 /\ call'.pc = "inode"
        /\ call' = AtInode(call'.ino)
    BY <1>13, <1>2, <1>3, <1>n, CallFields
  <2>2. TypeOK' BY <2>1, <1>0, <1>7 DEF TypeOK
  <2>3. CallOK' BY <2>1, <1>2, <1>11, <1>n DEF CallOK
  <2>4. \A j \in Inodes : Kept(j)' <=> Kept(j)
    <3> SUFFICES ASSUME NEW j \in Inodes PROVE Kept(j)' <=> Kept(j) OBVIOUS
    <3>1. j \in Nat BY PoolAssumption DEF Inodes
    <3> QED BY <3>1, <2>1, <1>1, <1>2, <1>3, <1>13, <1>n DEF Kept
  <2>5. FilesOK'
    <3> SUFFICES ASSUME NEW j \in Inodes
                 PROVE  IF Kept(j) THEN /\ file'[j].used
                                        /\ file'[j].n = Len(want[j].list) /\ file'[j].n <= file'[j].cap
                                   ELSE /\ file'[j].cap = 0
                                        /\ file'[j].used => i + 1 <= j
      BY <2>1, <2>4 DEF FilesOK
    <3>1. j \in Nat BY PoolAssumption DEF Inodes
    <3>2. CASE j = i BY <3>2, <1>3, <1>6, <1>7, <1>13 DEF Kept
    <3>3. CASE j # i BY <3>1, <3>3, <1>1, <1>2, <1>7, <1>n DEF Inv, FilesOK
    <3> QED BY <3>2, <3>3
  <2>6. ContentOK'
    <3>1. \A j \in Inodes : Kept(j) => j # i /\ From(j, 0)
      BY <1>3, <1>13 DEF Inv, ContentOK, Kept
    <3> QED BY <3>1, <2>4, <1>7 DEF ContentOK, From
  <2>7. MarksOK' BY <2>1, <1>9 DEF MarksOK
  <2>8. PackOK' /\ CopyOK' BY <2>1 DEF PackOK, CopyOK
  <2> QED BY <2>2, <2>3, <2>5, <2>6, <2>7, <2>8, <1>10 DEF Inv
<1> QED BY <1>4, <1>12, <1>13

\* A mount stores the list of an inode.
LEMMA MountSliceInv ==
  ASSUME Inv, MountSlice
  PROVE  Inv'
<1> USE DEF MountSlice
<1>0. TypeOK BY DEF Inv
<1>1. PICK i \in Inodes : i = call.ino BY DEF Inv, CallOK
<1>n. /\ call.off \in Nat /\ call.cap \in Nat /\ Len(call.list) \in Nat /\ i \in Nat
      /\ NInodes \in Nat
  BY <1>0, Parts, PoolAssumption DEF Inodes
<1>2. /\ want[i].used /\ want[i].list = call.list /\ file[i].used /\ file[i].n = Len(call.list)
      /\ Len(call.list) <= call.cap /\ pack = NoPack
  BY <1>1 DEF Inv, CallOK
<1>3. PICK g : g = [file[i] EXCEPT !.off = call.off, !.cap = call.cap] OBVIOUS
<1>4. /\ g \in Files /\ g.used = file[i].used /\ g.off = call.off /\ g.cap = call.cap
      /\ g.n = Len(call.list)
  <2>1. file[i] \in Files BY <1>0 DEF TypeOK
  <2> QED BY <2>1, <1>2, <1>3, <1>n DEF Files
<1>5. file' = [file EXCEPT ![i] = g] BY <1>0, <1>1, <1>3 DEF TypeOK
<1>6. file' \in [Inodes -> Files] /\ file'[i] = g /\ \A j \in Inodes : j # i => file'[j] = file[j]
  BY <1>0, <1>4, <1>5 DEF TypeOK
<1>7. /\ pool' \in [Pool -> Extents]
      /\ Owned' = (Owned \ Slice(i)) \cup Entries(call.off, call.cap)
      /\ PlacesOK'
      /\ From(i, 0)'
      /\ \A j \in Inodes : j # i /\ Kept(j) => From(j, 0)'
  BY <1>2, <1>4, <1>6, Stored
<1>8. file[i].cap = 0 /\ file[i].off \in Nat
  BY <1>0, <1>1, <1>n, Parts DEF Inv, FilesOK, Kept
<1>9. pool_used' = Owned'
  <2>1. Slice(i) = {} BY <1>8, NoEntries DEF Slice
  <2>2. pool_used = Owned \cup Entries(call.off, call.cap) BY DEF Inv, MarksOK
  <2> QED BY <2>1, <2>2, <1>7
<1>10. /\ call' \in Calls /\ call'.what = "mount" /\ call'.ino = i + 1 /\ call'.pc = "inode"
       /\ call' = AtInode(call'.ino)
  BY <1>1, <1>n, CallFields
<1>11. TypeOK' BY <1>0, <1>6, <1>7, <1>10 DEF TypeOK
<1>12. CallOK'
  <2>1. i + 1 <= NInodes BY <1>n DEF Inodes
  <2> QED BY <2>1, <1>2, <1>10 DEF CallOK
<1>13. \A j \in Inodes : Kept(j)' <=> (j = i \/ Kept(j))
  <2> SUFFICES ASSUME NEW j \in Inodes PROVE Kept(j)' <=> (j = i \/ Kept(j)) OBVIOUS
  <2>1. j \in Nat BY PoolAssumption DEF Inodes
  <2> QED BY <2>1, <1>1, <1>2, <1>10, <1>n DEF Kept
<1>14. FilesOK'
  <2> SUFFICES ASSUME NEW j \in Inodes
               PROVE  IF j = i \/ Kept(j)
                      THEN /\ file'[j].used
                           /\ file'[j].n = Len(want[j].list) /\ file'[j].n <= file'[j].cap
                      ELSE /\ file'[j].cap = 0
                           /\ file'[j].used => i + 1 <= j
    BY <1>10, <1>13 DEF FilesOK
  <2>1. j \in Nat BY PoolAssumption DEF Inodes
  <2>2. CASE j = i BY <2>2, <1>2, <1>4, <1>6
  <2>3. CASE j # i BY <2>1, <2>3, <1>1, <1>6, <1>n DEF Inv, FilesOK
  <2> QED BY <2>2, <2>3
<1>15. ContentOK' BY <1>7, <1>13 DEF ContentOK
<1>16. MarksOK' BY <1>9, <1>10 DEF MarksOK
<1>17. PackOK' /\ CopyOK' BY <1>10 DEF PackOK, CopyOK
<1> QED BY <1>7, <1>11, <1>12, <1>14, <1>15, <1>16, <1>17 DEF Inv

\* A mount fails, or the volume is unmounted, and nothing is served.
LEMMA DownInv ==
  ASSUME Inv, MountFails \/ Unmounted
  PROVE  Inv'
<1> USE DEF MountFails, Unmounted
<1>1. call' \in Calls /\ call' = Down /\ call'.pc = "down" BY CallFields
<1>2. TypeOK' BY <1>1 DEF Inv, TypeOK
<1>3. CallOK'
  <2>1. call.pc \notin {"pack", "copy"} BY CallFields
  <2> QED BY <2>1, <1>1 DEF Inv, CallOK
<1>4. PlacesOK' BY DEF Inv, PlacesOK, Apart
<1>5. FilesOK' /\ ContentOK' /\ MarksOK' /\ PackOK' /\ CopyOK'
  BY <1>1 DEF FilesOK, ContentOK, MarksOK, PackOK, CopyOK
<1> QED BY <1>2, <1>3, <1>4, <1>5 DEF Inv

\* A mount ends: every inode has been read.
LEMMA MountedInv ==
  ASSUME Inv, Mounted
  PROVE  Inv'
<1> USE DEF Mounted
<1>0. TypeOK BY DEF Inv
<1>1. call' \in Calls /\ call'.pc = "idle" /\ call'.what = "none" BY CallFields
<1>2. call.what = "mount" BY <1>0, Parts, CallFields DEF Inv, CallOK
<1>3. \A j \in Inodes : Kept(j)' <=> Kept(j)
  <2> SUFFICES ASSUME NEW j \in Inodes PROVE Kept(j)' <=> Kept(j) OBVIOUS
  <2>1. j < NInodes BY PoolAssumption DEF Inodes
  <2> QED BY <2>1, <1>1, <1>2 DEF Kept
<1>4. TypeOK' BY <1>0, <1>1 DEF TypeOK
<1>5. CallOK' BY <1>1 DEF Inv, CallOK
<1>6. FilesOK'
  <2>1. \A j \in Inodes : ~(NInodes <= j) BY PoolAssumption DEF Inodes
  <2> QED BY <2>1, <1>1, <1>3 DEF Inv, FilesOK
<1>7. PlacesOK' BY DEF Inv, PlacesOK, Apart
<1>8. ContentOK' BY <1>1, <1>3 DEF Inv, ContentOK, From
<1>9. MarksOK'
  <2>1. Owned' = Owned BY DEF Owned, Slice
  <2> QED BY <2>1, <1>1 DEF Inv, MarksOK
<1>10. PackOK' /\ CopyOK' BY <1>1 DEF PackOK, CopyOK
<1> QED BY <1>4, <1>5, <1>6, <1>7, <1>8, <1>9, <1>10 DEF Inv

\* Every step keeps the invariant.
LEMMA NextInv == Inv /\ [Next]_vars => Inv'
<1> SUFFICES ASSUME Inv, [Next]_vars PROVE Inv' OBVIOUS
<1>1. CASE UNCHANGED vars
  BY <1>1 DEF vars, Inv, TypeOK, CallOK, FilesOK, PlacesOK, ContentOK, MarksOK, PackOK, CopyOK,
              Kept, Apart, From, Owned, Slice, FirstOffset
<1>2. CASE pool_reserve BY <1>2, ReserveInv
<1>3. CASE \E i \in Inodes : Create(i) \/ Delete(i) \/ \E list \in Lists : Write(i, list)
  BY <1>3, CreateInv, DeleteInv, WriteInv
<1>4. CASE WriteInstall \/ WriteFails BY <1>4, InstallInv, WriteFailsInv
<1>5. CASE Format \/ Unmounted \/ MountInode \/ MountSlice \/ MountFails \/ Mounted
  BY <1>5, FormatInv, InodeInv, MountSliceInv, DownInv, MountedInv
<1>6. CASE \E d \in Disks \cup {want} : Mount(d) BY <1>6, MountInv
<1> QED BY <1>1, <1>2, <1>3, <1>4, <1>5, <1>6 DEF Next

\* The invariant holds throughout.
LEMMA AlwaysInv == Spec => []Inv
  BY InitInv, NextInv, PTL DEF Spec

-----------------------------------------------------------------------------
(* The theorems.                                                           *)

\* Whatever is written, deleted, refused, packed and mounted, in a pool of
\* any size: a file's list is found where its slice is (pool_compact, FEXT).
THEOREM ListsStayIntact == Spec => []ListsIntact
<1>1. Inv => ListsIntact
  <2> SUFFICES ASSUME Inv, Settled, NEW i \in Inodes
               PROVE  /\ file[i].used = want[i].used
                      /\ file[i].used =>
                           /\ file[i].n = Len(want[i].list) /\ file[i].n <= file[i].cap
                           /\ \A k \in 1 .. file[i].n :
                                 pool[file[i].off + k - 1] = want[i].list[k]
    BY DEF ListsIntact
  <2>0. TypeOK BY DEF Inv
  <2>1. /\ file[i].used \in BOOLEAN /\ want[i].used \in BOOLEAN /\ file[i].off \in Nat
        /\ file[i].n \in Nat
    BY <2>0, Parts
  <2>2. Kept(i) <=> want[i].used BY DEF Settled, Kept
  <2>3. IF Kept(i) THEN /\ file[i].used
                        /\ file[i].n = Len(want[i].list) /\ file[i].n <= file[i].cap
                   ELSE ~file[i].used
    BY DEF Settled, Inv, FilesOK
  <2>4. file[i].used = want[i].used BY <2>1, <2>2, <2>3
  <2>5. ASSUME file[i].used, NEW k \in 1 .. file[i].n
        PROVE  pool[file[i].off + k - 1] = want[i].list[k]
    <3>1. From(i, 0) BY <2>2, <2>4, <2>5 DEF Settled, Inv, ContentOK
    <3>2. PICK m \in Nat : m = k - 1 BY <2>1
    <3>3. 0 <= m /\ m < file[i].n /\ m + 1 = k /\ file[i].off + k - 1 = file[i].off + m
      BY <3>2, <2>1
    <3> QED BY <3>1, <3>3 DEF From
  <2> QED BY <2>2, <2>3, <2>4, <2>5
<1> QED BY <1>1, AlwaysInv, PTL

\* The bitmap marks exactly the slices, which share no entry (pool_mark,
\* pool_release, and the bitmap that pool_compact builds anew).
THEOREM SlicesStayExact == Spec => []SlicesExact
<1>1. Inv => SlicesExact
  <2> SUFFICES ASSUME Inv, Settled
               PROVE  /\ pool_used = Held \cup Entries(call.off, call.cap)
                      /\ \A i, j \in Inodes : i # j => Slice(i) \cap Slice(j) = {}
                      /\ \A i \in Inodes : Slice(i) \cap Entries(call.off, call.cap) = {}
    BY DEF SlicesExact
  <2>0. TypeOK /\ PlacesOK BY DEF Inv
  <2>1. Owned = Held BY <2>0, SliceInPool DEF Owned, Held
  <2>2. /\ pool_used = Owned \cup Entries(call.off, call.cap)
        /\ Owned \cap Entries(call.off, call.cap) = {}
    <3>1. CASE call.pc = "data" BY <3>1 DEF Inv, MarksOK
    <3>2. CASE call.pc = "idle"
      <4>1. call.off = 0 /\ call.cap = 0 BY <3>2 DEF Inv, CallOK, Idle, At
      <4>2. Entries(call.off, call.cap) = {} BY <4>1, NoEntries
      <4> QED BY <3>2, <4>2 DEF Inv, MarksOK
    <3> QED BY <3>1, <3>2 DEF Settled
  <2>3. \A i, j \in Inodes : i # j => Slice(i) \cap Slice(j) = {} BY <2>0, SlicesDisjoint
  <2>4. \A i \in Inodes : Slice(i) \cap Entries(call.off, call.cap) = {}
    <3>1. \A i \in Inodes : Slice(i) \subseteq Owned BY <2>0, SliceInPool
    <3> QED BY <3>1, <2>2
  <2>5. pool_used = Held \cup Entries(call.off, call.cap)
    BY <2>1, <2>2
  <2> QED BY <2>3, <2>4, <2>5
<1> QED BY <1>1, AlwaysInv, PTL

\* After a compaction a reservation is refused exactly when the slices leave
\* too little of the pool, never because of gaps (pool_reserve).
THEOREM NeverRefusedByGaps == Spec => []RefusedOnlyWhenFull
<1>1. Inv => RefusedOnlyWhenFull
  <2> SUFFICES ASSUME Inv, SecondSearch
               PROVE  (\E o \in Pool : Fits(o, call.cap))
                        <=> Cardinality(Held) + call.cap <= PoolExt
    BY DEF RefusedOnlyWhenFull
  <2>0. TypeOK /\ PlacesOK BY DEF Inv
  <2>1. Owned = Held BY <2>0, SliceInPool DEF Owned, Held
  <2>2. PICK c \in Nat : c = pack.cursor BY <2>0, Parts
  <2>3. pool_used = 0 .. (c - 1) /\ c <= PoolExt BY <2>2 DEF SecondSearch, Inv, PackOK
  <2>4. Owned = 0 .. (c - 1) BY <2>3, SearchMarks
  <2>5. Cardinality(0 .. (c - 1)) = c
    <3>1. Cardinality(0 .. (c - 1)) = IF 0 > c - 1 THEN 0 ELSE c - 1 - 0 + 1 BY FS_Interval
    <3> QED BY <3>1
  <2>n. call.cap \in Nat /\ call.cap > 0 /\ PoolExt \in Nat
    BY <2>0, Parts, PoolAssumption DEF SecondSearch, Inv, CallOK
  <2>6. ASSUME c + call.cap <= PoolExt PROVE c \in Pool /\ Fits(c, call.cap)
    BY <2>3, <2>6, <2>n DEF Pool, Fits, Entries
  <2>7. ASSUME NEW o \in Pool, Fits(o, call.cap) PROVE c + call.cap <= PoolExt
    <3>1. o \in Int /\ 0 <= o BY <2>n DEF Pool
    <3>2. o \in Entries(o, call.cap) /\ o + call.cap - 1 \in Entries(o, call.cap)
      BY <3>1, <2>n DEF Entries
    <3>3. o \notin 0 .. (c - 1) /\ o + call.cap - 1 \in Pool BY <3>2, <2>3, <2>7 DEF Fits
    <3> QED BY <3>1, <3>3, <2>n DEF Pool
  <2> QED BY <2>1, <2>4, <2>5, <2>6, <2>7
<1> QED BY <1>1, AlwaysInv, PTL
=============================================================================
