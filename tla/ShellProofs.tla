---------------------------- MODULE ShellProofs ----------------------------
(***************************************************************************)
(* For any volume, any images and lines of any depth: what the session     *)
(* goes back to after a nested command, and what the volume stands for     *)
(* while it is in service.                                                 *)
(***************************************************************************)
EXTENDS Shell, SequenceTheorems, TLAPS

Identities == {Xent, Sprusr}

-----------------------------------------------------------------------------
(* The identities.                                                         *)

\* The stack of identities ends in the account logged into at the prompt.
Nesting ==
    /\ saved \in Seq(Identities) /\ id \in Identities /\ login \in Identities
    /\ saved = <<>> => id = login
    /\ saved # <<>> => saved[1] = login
    /\ pc = "return" => saved # <<>>

\* The directives other than login, sprusr and its return leave the identities
\* alone, and go to "return" only under a sprusr.
LEMMA QuietStep ==
  ASSUME Next
  PROVE  \/ \E who \in Identities : Login(who)
         \/ OneShot
         \/ Return
         \/ UNCHANGED <<id, saved, login>> /\ (pc' = "return" /\ pc # "return" => saved # <<>>)
  BY DEF Next, Identities, stage_volumes, SystemDisk, Shown, cmd_locate, cmd_remove, cmd_write,
     cmd_form, cmd_install, InstallTurn, cmd_sync, Commit, cmd_mount, cmd_format, halt, Halted,
     Done, session, vars, Running

\* Going back one level keeps the bottom of the stack.
LEMMA FrontKeepsFirst ==
  ASSUME NEW s \in Seq(Identities), s # <<>>
  PROVE  /\ Front(s) \in Seq(Identities) /\ Last(s) \in Identities
         /\ Len(s) = 1 <=> Front(s) = <<>>
         /\ Front(s) = <<>> => Last(s) = s[1]
         /\ Front(s) # <<>> => Front(s)[1] = s[1]
<1> DEFINE n == Len(s) - 1
<1>1. Len(s) \in Nat /\ n \in Nat OBVIOUS
<1>2. \A i \in 1 .. n : s[i] \in Identities BY <1>1
<1>3. Front(s) = SubSeq(s, 1, n) BY DEF Front
<1>4. Last(s) = s[Len(s)] /\ Last(s) \in Identities BY <1>1 DEF Last
<1>5. Len(s) = n + 1 BY <1>1
<1> HIDE DEF n
<1>6. SubSeq(s, 1, n) \in Seq(Identities) BY <1>1, <1>2, SubSeqProperties
<1>7. Len(SubSeq(s, 1, n)) = n /\ \A i \in 1 .. n : SubSeq(s, 1, n)[i] = s[i] BY <1>1
<1>8. n = 0 <=> SubSeq(s, 1, n) = <<>> BY <1>1, <1>6, <1>7
<1> QED BY <1>1, <1>3, <1>4, <1>5, <1>6, <1>7, <1>8

\* Every step keeps the nesting.
LEMMA NestingStep == Nesting /\ [Next]_vars => Nesting'
<1> SUFFICES ASSUME Nesting, [Next]_vars PROVE Nesting' OBVIOUS
<1> USE DEF Nesting
<1>1. ASSUME NEW who \in Identities, Login(who) PROVE Nesting'
  BY <1>1 DEF Login, Running, Done
<1>2. CASE OneShot
  <2>1. id \in Identities /\ id' = Sprusr /\ saved' = Append(saved, id) /\ login' = login
        /\ pc' = "dispatch" /\ pc = "dispatch"
    BY <1>2 DEF OneShot, Caller, Running
  <2>2. saved' \in Seq(Identities) /\ saved' # <<>> /\ Sprusr \in Identities
    BY <2>1 DEF Identities
  <2>3. saved'[1] = login BY <2>1
  <2> QED BY <2>1, <2>2, <2>3
<1>3. CASE Return
  <2>1. saved # <<>> /\ saved \in Seq(Identities) BY <1>3 DEF Return
  <2> QED BY <1>3, <2>1, FrontKeepsFirst DEF Return
<1>4. CASE UNCHANGED <<id, saved, login>> /\ (pc' = "return" /\ pc # "return" => saved # <<>>)
  BY <1>4
<1>5. CASE UNCHANGED vars BY <1>5 DEF vars
<1> QED BY <1>1, <1>2, <1>3, <1>4, <1>5, QuietStep

\* For lines of any depth: at the prompt the session is the account last
\* logged into there, whatever was nested in between.
THEOREM SessionReturns == Spec => []OneShotReturns
<1>1. Init => Nesting BY DEF Init, Nesting, Identities
<1>2. Nesting => OneShotReturns BY DEF Nesting, OneShotReturns
<1> QED BY <1>1, <1>2, NestingStep, PTL DEF Spec

-----------------------------------------------------------------------------
(* The volume.                                                             *)

\* V is a record of the volume, and a mounted volume is a tree on a device; a
\* volume only breaks on a device that can fail.
VolumeOK ==
    /\ V = [dev |-> V.dev, home |-> V.home, files |-> V.files, gen |-> V.gen,
            mounted |-> V.mounted, broken |-> V.broken, dirty |-> V.dirty]
    /\ V.gen \in Nat
    /\ V.mounted \in BOOLEAN /\ V.broken \in BOOLEAN /\ V.dirty \in BOOLEAN
    /\ V.mounted => V.dev \in Devices /\ IsTree(V.files) /\ (V.broken => MayFail(V.dev))

\* Every device holds superblocks in the slots of their parity.
DisksOK ==
    /\ disk = [d \in Devices |-> disk[d]]
    /\ \A d \in Devices : IsDisk(disk[d])

Volume == VolumeOK /\ DisksOK /\ ServiceExact

\* A format leaves a volume with everything to commit.
LEMMA FormatVolume ==
  ASSUME Volume, NEW d \in Devices, FormatBegins(d), UNCHANGED disk
  PROVE  Volume' /\ exfs_is_mounted'
  BY ShellAssumption
  DEF Volume, VolumeOK, DisksOK, ServiceExact, FormatBegins, exfs_is_mounted

\* A format that fails at once names another device, and only of a volume
\* that is out of service: one that broke did so on the same device.
LEMMA FormatFailsVolume ==
  ASSUME Volume, NEW d \in Devices, ~exfs_is_mounted, FormatFails(d), UNCHANGED disk
  PROVE  Volume'
  BY DEF Volume, VolumeOK, DisksOK, ServiceExact, FormatFails, MayFail, exfs_is_mounted, Devices

\* The newest superblock lies in the slot of its generation.
LEMMA NewestPlace ==
  ASSUME DisksOK, NEW d \in Devices
  PROVE  /\ Newest(d) = [gen |-> Newest(d).gen, tree |-> Newest(d).tree]
         /\ Newest(d).gen \in Nat /\ IsTree(Newest(d).tree)
         /\ Newest(d).gen > 0 => disk[d][Newest(d).gen % 2] = Newest(d)
<1>1. Range(disk[d]) = {disk[d][0], disk[d][1]}
  BY DEF DisksOK, IsDisk, Range
<1>2. disk[d][0].gen \in Nat /\ disk[d][1].gen \in Nat
  BY DEF DisksOK, IsDisk, IsSb
<1>3. \E sb \in Range(disk[d]) : \A t \in Range(disk[d]) : sb.gen >= t.gen
  <2>1. CASE disk[d][0].gen >= disk[d][1].gen BY <1>1, <1>2, <2>1
  <2>2. CASE disk[d][1].gen >= disk[d][0].gen BY <1>1, <1>2, <2>2
  <2> QED BY <1>2, <2>1, <2>2
<1>4. Newest(d) \in Range(disk[d]) BY <1>3 DEF Newest
<1>5. PICK s \in {0, 1} : Newest(d) = disk[d][s] BY <1>1, <1>4
<1>6. IsSb(disk[d][s]) /\ (disk[d][s].gen > 0 => disk[d][s].gen % 2 = s)
  BY DEF DisksOK, IsDisk
<1> QED BY <1>5, <1>6 DEF IsSb

\* A mount, whole, refused or stopped half way.
LEMMA MountVolume ==
  ASSUME Volume, NEW d \in Devices, exfs_mount(d), UNCHANGED disk
  PROVE  Volume'
<1> USE DEF Volume, VolumeOK
<1>1. DisksOK' BY DEF DisksOK
<1>2. CASE Newest(d).gen > 0 /\ V' = Adopted(d, Newest(d))
  BY <1>1, <1>2, NewestPlace DEF Adopted, ServiceExact
<1>3. CASE V' = [V EXCEPT !.dev = d, !.mounted = FALSE]
  BY <1>1, <1>3 DEF ServiceExact
<1>4. ASSUME NEW fs, V' = [V EXCEPT !.dev = d, !.home = "none", !.files = fs, !.mounted = FALSE]
      PROVE  Volume'
  BY <1>1, <1>4 DEF ServiceExact
<1> QED BY <1>2, <1>3, <1>4 DEF exfs_mount

\* A change of the files is one to commit.
LEMMA ChangedVolume ==
  ASSUME Volume, exfs_is_mounted, NEW fs, IsTree(fs), V' = Changed(fs), UNCHANGED disk
  PROVE  Volume' /\ exfs_is_mounted'
  BY DEF Volume, VolumeOK, DisksOK, ServiceExact, Changed, exfs_is_mounted

\* The slot of the next generation takes a superblock of that parity.
LEMMA PutSlotDisks ==
  ASSUME VolumeOK, DisksOK, V.dev \in Devices,
         NEW sb, IsSb(sb), sb.gen > 0 => sb.gen % 2 = NextSlot
  PROVE  /\ PutSlot(sb) = [d \in Devices |-> PutSlot(sb)[d]]
         /\ \A d \in Devices : IsDisk(PutSlot(sb)[d])
         /\ PutSlot(sb)[V.dev][NextSlot] = sb
<1>1. NextSlot \in {0, 1} BY DEF NextSlot, VolumeOK
<1>2. IsDisk(disk[V.dev]) BY DEF DisksOK
<1> DEFINE new == [disk[V.dev] EXCEPT ![NextSlot] = sb]
<1>3. new = [s \in {0, 1} |-> IF s = NextSlot THEN sb ELSE disk[V.dev][s]]
  BY <1>1, <1>2 DEF IsDisk
<1>4. IsDisk(new) BY <1>1, <1>2, <1>3 DEF IsDisk
<1>5. new[NextSlot] = sb BY <1>1, <1>3
<1>6. PutSlot(sb) = [d \in Devices |-> IF d = V.dev THEN new ELSE disk[d]]
  BY DEF PutSlot, DisksOK
<1> HIDE DEF new
<1> QED BY <1>4, <1>5, <1>6 DEF DisksOK

\* The superblock of the commit, and the torn one that a failed one leaves.
LEMMA CommitSbs ==
  ASSUME VolumeOK, DisksOK, V.mounted
  PROVE  /\ IsSb(NewSb) /\ NewSb.gen % 2 = NextSlot
         /\ LET torn == [disk[V.dev][NextSlot] EXCEPT !.tree = Torn]
            IN  IsSb(torn) /\ (torn.gen > 0 => torn.gen % 2 = NextSlot)
<1>1. V.dev \in Devices /\ NextSlot \in {0, 1} BY DEF VolumeOK, NextSlot
<1>2. IsSb(NewSb) /\ NewSb.gen % 2 = NextSlot
  BY DEF NewSb, NextSlot, IsSb, VolumeOK
<1>3. IsTree(Torn)
  <2>1. Torn = [n \in DOMAIN Torn |-> Torn[n]] /\ DOMAIN Torn = {<<"bin">>} BY DEF Torn
  <2>a. "bin" \in Components BY ShellAssumption
  <2>b. \A S : \A x \in S : <<x>> \in Seq(S) /\ <<x>> # <<>> OBVIOUS
  <2>2. <<"bin">> \in Names BY <2>a, <2>b DEF Names, Root
  <2>3. Front(<<"bin">>) = Root BY DEF Front, Root
  <2> QED BY <2>1, <2>2, <2>3 DEF IsTree
<1>4. IsSb(disk[V.dev][NextSlot])
      /\ (disk[V.dev][NextSlot].gen > 0 => disk[V.dev][NextSlot].gen % 2 = NextSlot)
  BY <1>1 DEF DisksOK, IsDisk
<1> QED BY <1>2, <1>3, <1>4 DEF IsSb

\* Every outcome of a commit keeps the volume exact; one that succeeds left
\* the files on the device.
LEMMA CommitOutcome ==
  ASSUME Volume, exfs_is_mounted, NEW r \in exfs_commit
  PROVE  /\ r.v = [dev |-> V.dev, home |-> V.home, files |-> V.files, gen |-> r.v.gen,
                   mounted |-> TRUE, broken |-> r.v.broken, dirty |-> r.v.dirty]
         /\ r.v.gen \in Nat /\ r.v.broken \in BOOLEAN /\ r.v.dirty \in BOOLEAN
         /\ r.v.broken => MayFail(V.dev)
         /\ r.d = [d \in Devices |-> r.d[d]] /\ \A d \in Devices : IsDisk(r.d[d])
         /\ r.ok => ~r.v.broken /\ ~r.v.dirty
         /\ ~r.v.broken /\ ~r.v.dirty =>
              r.d[V.dev][r.v.gen % 2] = [gen |-> r.v.gen, tree |-> V.files]
<1> USE DEF Volume, exfs_is_mounted
<1>1. V.dev \in Devices /\ V.mounted = TRUE /\ V.broken = FALSE BY DEF VolumeOK
<1>2. CASE V.dirty /\ r \in Committed
  <2>1. r.ok = TRUE /\ r.v = [V EXCEPT !.gen = V.gen + 1, !.dirty = FALSE] /\ r.d = PutSlot(NewSb)
    BY <1>2 DEF Committed
  <2>2. r.v = [dev |-> V.dev, home |-> V.home, files |-> V.files, gen |-> V.gen + 1,
               mounted |-> TRUE, broken |-> FALSE, dirty |-> FALSE]
    BY <1>1, <2>1 DEF VolumeOK
  <2>3. NewSb = [gen |-> V.gen + 1, tree |-> V.files] /\ NextSlot = (V.gen + 1) % 2
    BY DEF NewSb, NextSlot
  <2>4. V.gen \in Nat BY DEF VolumeOK
  <2>5. IsSb(NewSb) /\ NewSb.gen % 2 = NextSlot BY <1>1, CommitSbs
  <2>6. /\ r.d = [d \in Devices |-> r.d[d]] /\ \A d \in Devices : IsDisk(r.d[d])
        /\ r.d[V.dev][NextSlot] = NewSb
    BY <1>1, <2>1, <2>5, PutSlotDisks
  <2>7. r.v.gen = V.gen + 1 /\ r.v.gen \in Nat /\ r.v.broken = FALSE /\ r.v.dirty = FALSE
    BY <2>2, <2>4
  <2>8. r.d[V.dev][r.v.gen % 2] = [gen |-> r.v.gen, tree |-> V.files]
    BY <2>3, <2>6, <2>7
  <2> QED BY <2>2, <2>6, <2>7, <2>8
<1>3. CASE (~V.dirty /\ r \in Committed) \/ r \in Refused
  <2>1. r.v = V /\ r.d = disk /\ (V.dirty => ~r.ok)
    BY <1>3 DEF Committed, Refused
  <2> QED BY <1>1, <2>1 DEF VolumeOK, DisksOK, ServiceExact
<1>4. CASE r \in Failed
  <2>1. MayFail(V.dev) /\ r.ok = FALSE /\ r.v = [V EXCEPT !.broken = TRUE]
        /\ r.d \in {disk, PutSlot([disk[V.dev][NextSlot] EXCEPT !.tree = Torn]), PutSlot(NewSb)}
    BY <1>4 DEF Failed
  <2>2. r.v = [dev |-> V.dev, home |-> V.home, files |-> V.files, gen |-> V.gen,
               mounted |-> TRUE, broken |-> TRUE, dirty |-> V.dirty]
    BY <1>1, <2>1 DEF VolumeOK
  <2>3. r.d = [d \in Devices |-> r.d[d]] /\ \A d \in Devices : IsDisk(r.d[d])
    <3>1. CASE r.d = disk BY <3>1 DEF DisksOK
    <3>2. CASE r.d = PutSlot([disk[V.dev][NextSlot] EXCEPT !.tree = Torn])
      BY <1>1, <3>2, PutSlotDisks, CommitSbs
    <3>3. CASE r.d = PutSlot(NewSb)
      BY <1>1, <3>3, PutSlotDisks, CommitSbs
    <3> QED BY <2>1, <3>1, <3>2, <3>3
  <2> QED BY <1>1, <2>1, <2>2, <2>3 DEF VolumeOK
<1> QED BY <1>2, <1>3, <1>4 DEF exfs_commit

\* The directory of a name is shorter than the name, and a prefix of it.
LEMMA FrontName ==
  ASSUME NEW n \in Names
  PROVE  Front(n) \in Seq(Components) /\ Front(n) # n /\ IsStrictPrefix(Front(n), n)
<1> DEFINE k == Len(n) - 1
<1>1. n \in Seq(Components) /\ Len(n) \in Nat /\ k \in Nat BY DEF Names, Root
<1>2. \A i \in 1 .. k : n[i] \in Components BY <1>1
<1>3. Front(n) = SubSeq(n, 1, k) /\ k + 1 = Len(n) BY <1>1 DEF Front
<1> HIDE DEF k
<1>4. Front(n) \in Seq(Components) /\ Len(Front(n)) = k BY <1>1, <1>2, <1>3, SubSeqProperties
<1>5. Front(n) # n BY <1>1, <1>3, <1>4
<1>6. SubSeq(Front(n), 1, k) = Front(n) BY <1>1, <1>4, SubSeqFull
<1>7. IsPrefix(Front(n), n) BY <1>1, <1>3, <1>4, <1>6 DEF IsPrefix
<1> QED BY <1>4, <1>5, <1>7 DEF IsStrictPrefix

\* What is made lies in a directory.
LEMMA WithTree ==
  ASSUME Volume, NEW n \in Seq(Components), Makeable(n), NEW type
  PROVE  IsTree(With(n, type))
<1>1. IsTree(V.files) BY DEF Volume, VolumeOK, Makeable, exfs_is_mounted
<1>2. n \in Names /\ exfs_stat(n) = "none" /\ exfs_stat(Front(n)) = "dir" BY DEF Makeable, Names
<1>3. Front(n) # Root => Front(n) \in DOMAIN V.files /\ V.files[Front(n)] = "dir"
  BY <1>2 DEF exfs_stat
<1>4. \A m \in DOMAIN V.files : V.files[m] = "dir" => m # n
  BY <1>2 DEF exfs_stat, Names
<1>5. Front(n) # n BY <1>2, FrontName
<1>6. /\ DOMAIN With(n, type) = DOMAIN V.files \cup {n}
      /\ \A m \in DOMAIN V.files \cup {n} : With(n, type)[m] = IF m = n THEN type ELSE V.files[m]
      /\ With(n, type) = [m \in DOMAIN With(n, type) |-> With(n, type)[m]]
  BY DEF With
<1> QED BY <1>1, <1>2, <1>3, <1>4, <1>5, <1>6 DEF IsTree

\* What is removed holds nothing.
LEMMA RemovedTree ==
  ASSUME Volume, NEW n, Deletable(n)
  PROVE  IsTree(Restrict(V.files, DOMAIN V.files \ {n}))
<1> DEFINE left == Restrict(V.files, DOMAIN V.files \ {n})
<1>1. IsTree(V.files) BY DEF Volume, VolumeOK, Deletable, exfs_is_mounted
<1>2. \A c \in DOMAIN V.files : Front(c) # n
  BY <1>1, FrontName DEF Deletable, IsTree
<1>3. /\ DOMAIN left = DOMAIN V.files \ {n}
      /\ \A m \in DOMAIN left : left[m] = V.files[m]
      /\ left = [m \in DOMAIN left |-> left[m]]
  BY DEF Restrict
<1> HIDE DEF left
<1>4. IsTree(left) BY <1>1, <1>2, <1>3 DEF IsTree
<1> QED BY <1>4 DEF left

-----------------------------------------------------------------------------
(* The session over the volume.                                            *)

\* No volume is mounted before the boot, a commit is under way on a volume in
\* service, an installation has an image in hand, and the working directory
\* is a path.
SessionOK ==
    /\ cwd \in Seq(Components)
    /\ pc = "boot" => ~V.mounted
    /\ pc = "commit" => exfs_is_mounted
    /\ pc = "install" => op = [name |-> op.name, image |-> op.image] /\ op.image \in 1 .. Len(Images)

\* The inductive invariant.
Inv == Volume /\ SessionOK

\* The paths of the operands.
LEMMA ResolvePath ==
  ASSUME Inv, NEW p \in Operands
  PROVE  Resolve(p) \in Seq(Components)
  BY ShellAssumption DEF Inv, SessionOK, Resolve

\* The initial states satisfy the invariant.
LEMMA InitInv == Init => Inv
<1> SUFFICES ASSUME Init PROVE Inv OBVIOUS
<1>1. IsTree(NoTree) BY DEF IsTree, NoTree
<1>2. IsDisk(Blank) BY <1>1 DEF IsDisk, IsSb, Blank, NoSb
<1>3. DisksOK BY <1>2, ShellAssumption DEF Init, DisksOK, Devices
<1>4. VolumeOK /\ ServiceExact BY DEF Init, VolumeOK, ServiceExact
<1>5. SessionOK BY DEF Init, SessionOK, Root
<1> QED BY <1>3, <1>4, <1>5 DEF Inv, Volume

\* A step that leaves the volume and the working directory alone, and begins
\* neither a commit nor an installation.
LEMMA IdleInv ==
  ASSUME Inv, UNCHANGED <<cwd, V, disk>>, pc' \notin {"boot", "commit", "install"}
  PROVE  Inv'
  BY DEF Inv, Volume, VolumeOK, DisksOK, ServiceExact, SessionOK

\* Directives that end at the prompt or under a sprusr.
LEMMA DoneElsewhere == Done => pc' \notin {"boot", "commit", "install"}
  BY DEF Done

\* The bootstrap.
LEMMA BootInv ==
  ASSUME Inv, stage_volumes \/ SystemDisk
  PROVE  Inv'
<1>1. CASE stage_volumes
  <2>1. Volume' /\ exfs_is_mounted'
    BY <1>1, FormatVolume DEF Inv, stage_volumes, Devices
  <2> QED BY <1>1, <2>1 DEF Inv, SessionOK, stage_volumes, session
<1>2. CASE SystemDisk
  BY <1>2, IdleInv DEF SystemDisk, session
<1> QED BY <1>1, <1>2

\* The directives that change the files.
LEMMA FilesInv ==
  ASSUME Inv, NEW p \in Operands,
         \/ cmd_remove(Resolve(p)) \/ cmd_write(Resolve(p))
         \/ \E type \in {"file", "dir"} : cmd_form(Resolve(p), type)
  PROVE  Inv'
<1> DEFINE n == Resolve(p)
<1>1. n \in Seq(Components) BY ResolvePath
<1>2. Volume /\ cwd \in Seq(Components) BY DEF Inv, SessionOK
<1>3. CASE cmd_remove(n)
  <2>1. Deletable(n) /\ exfs_is_mounted BY <1>3 DEF cmd_remove, Deletable
  <2>2. Volume' BY <1>2, <1>3, <2>1, RemovedTree, ChangedVolume DEF cmd_remove
  <2>3. IsTree(V.files) BY <2>1 DEF Inv, Volume, VolumeOK, exfs_is_mounted
  <2>4. n \in Names BY <2>1, <2>3 DEF Deletable, IsTree
  <2>5. cwd' \in Seq(Components)
    BY <1>2, <1>3, <2>4, FrontName DEF cmd_remove, CwdAfterRemove
  <2> QED BY <1>3, <2>2, <2>5, DoneElsewhere DEF Inv, SessionOK, cmd_remove
<1>4. CASE cmd_write(n)
  <2>1. exfs_is_mounted /\ V' = Changed(V.files) /\ UNCHANGED <<disk, cwd>>
    BY <1>4 DEF cmd_write, Writable, session
  <2>2. IsTree(V.files) BY <2>1 DEF Inv, Volume, VolumeOK, exfs_is_mounted
  <2>3. Volume' BY <1>2, <2>1, <2>2, ChangedVolume
  <2> QED BY <1>2, <1>4, <2>1, <2>3, DoneElsewhere DEF Inv, SessionOK, cmd_write
<1>5. ASSUME NEW type \in {"file", "dir"}, cmd_form(n, type) PROVE Inv'
  <2>1. Makeable(n) /\ exfs_is_mounted /\ V' = Changed(With(n, type)) /\ UNCHANGED <<disk, cwd>>
    BY <1>5 DEF cmd_form, Makeable, session
  <2>2. Volume' BY <1>1, <1>2, <2>1, WithTree, ChangedVolume
  <2> QED BY <1>2, <1>5, <2>1, <2>2, DoneElsewhere DEF Inv, SessionOK, cmd_form
<1> QED BY <1>3, <1>4, <1>5

\* The turns of install.
LEMMA InstallInv ==
  ASSUME Inv, cmd_install \/ InstallTurn
  PROVE  Inv'
<1> USE DEF Inv
<1>1. CASE cmd_install
  <2>1. 1 \in 1 .. Len(Images) BY ShellAssumption
  <2>2. op' = [name |-> "install", image |-> 1] /\ pc' = "install" /\ UNCHANGED <<cwd, V, disk>>
    BY <1>1 DEF cmd_install, Call, session
  <2>3. Volume' BY <2>2 DEF Volume, VolumeOK, DisksOK, ServiceExact
  <2> QED BY <2>1, <2>2, <2>3 DEF SessionOK
<1>2. CASE InstallTurn
  <2> DEFINE n == <<"bin", Images[op.image]>>
             there == exfs_stat(n) # "none"
  <2>1. pc = "install" /\ UNCHANGED <<cwd, disk>> BY <1>2 DEF InstallTurn, session
  <2>2. /\ op = [name |-> op.name, image |-> op.image] /\ op.image \in 1 .. Len(Images)
        /\ cwd' \in Seq(Components)
    BY <2>1 DEF SessionOK
  <2>3. n \in Seq(Components) BY <2>2, ShellAssumption
  <2>4. ASSUME Writable(n) \/ Makeable(n),
               V' = Changed(IF there THEN V.files ELSE With(n, "file"))
        PROVE  Volume' /\ exfs_is_mounted'
    <3>1. exfs_is_mounted BY <2>4 DEF Writable, Makeable
    <3>2. IsTree(V.files) BY <3>1 DEF Volume, VolumeOK, exfs_is_mounted
    <3>3. ~there => IsTree(With(n, "file")) BY <2>3, <2>4, WithTree DEF Writable
    <3> QED BY <2>1, <2>4, <3>1, <3>2, <3>3, ChangedVolume
  <2>5. CASE /\ Writable(n) \/ Makeable(n)
             /\ V' = Changed(IF there THEN V.files ELSE With(n, "file"))
             /\ IF op.image < Len(Images) THEN op' = [op EXCEPT !.image = @ + 1] /\ UNCHANGED pc
                                          ELSE op' = NoCall /\ Done
    <3>1. CASE op.image < Len(Images)
      <4>1. op' = [name |-> op.name, image |-> op.image + 1] BY <2>2, <2>5, <3>1
      <4>2. op.image + 1 \in 1 .. Len(Images) BY <2>2, <3>1, ShellAssumption
      <4> QED BY <2>1, <2>2, <2>4, <2>5, <3>1, <4>1, <4>2 DEF SessionOK
    <3>2. CASE ~(op.image < Len(Images))
      BY <2>2, <2>4, <2>5, <3>2, DoneElsewhere DEF SessionOK
    <3> QED BY <3>1, <3>2
  <2>6. CASE Done /\ UNCHANGED V
    BY <2>1, <2>6, IdleInv, DoneElsewhere
  <2>7. CASE Makeable(n) /\ V' = Changed(With(n, "file")) /\ Done
    <3>1. exfs_is_mounted BY <2>7 DEF Makeable
    <3>2. Volume' BY <2>1, <2>3, <2>7, <3>1, WithTree, ChangedVolume
    <3> QED BY <2>2, <2>7, <3>2, DoneElsewhere DEF SessionOK
  <2> QED BY <1>2, <2>5, <2>6, <2>7 DEF InstallTurn
<1> QED BY <1>1, <1>2

\* The directives that take a volume into service or begin a commit.
LEMMA VolumeInv ==
  ASSUME Inv,
         \/ \E call \in {"sync", "unmount"} : cmd_sync(call)
         \/ \E d \in Devices : cmd_mount(d) \/ cmd_format(d)
  PROVE  Inv'
<1> USE DEF Inv
<1>1. ASSUME NEW call \in {"sync", "unmount"}, cmd_sync(call) PROVE Inv'
  BY <1>1
  DEF cmd_sync, session, Volume, VolumeOK, DisksOK, ServiceExact, SessionOK, exfs_is_mounted
<1>2. ASSUME NEW d \in Devices, cmd_mount(d) PROVE Inv'
  BY <1>2, MountVolume, DoneElsewhere DEF cmd_mount, session, SessionOK
<1>3. ASSUME NEW d \in Devices, cmd_format(d) PROVE Inv'
  <2>1. ~exfs_is_mounted /\ UNCHANGED <<cwd, disk>> BY <1>3 DEF cmd_format, session
  <2>2. CASE FormatBegins(d) /\ pc' = "commit"
    BY <2>1, <2>2, FormatVolume DEF SessionOK
  <2>3. CASE FormatFails(d) /\ Done
    BY <2>1, <2>3, FormatFailsVolume, DoneElsewhere DEF SessionOK
  <2> QED BY <1>3, <2>2, <2>3 DEF cmd_format
<1> QED BY <1>1, <1>2, <1>3

\* The commit, with what its caller does then.
LEMMA CommitInv ==
  ASSUME Inv, Commit
  PROVE  Inv'
<1> USE DEF Inv
<1>1. exfs_is_mounted /\ Volume BY DEF Commit, SessionOK
<1>2. PICK r \in exfs_commit :
         /\ V' = IF Leaves(r.ok) THEN [r.v EXCEPT !.mounted = FALSE] ELSE r.v
         /\ disk' = r.d
         /\ IF op.name = "boot" THEN pc' = (IF r.ok THEN "open" ELSE "halted") ELSE Done
  BY DEF Commit
<1>3. pc' \notin {"boot", "commit", "install"} BY <1>2, DoneElsewhere
<1>4. /\ V.dev \in Devices /\ V.dev = V.home /\ IsTree(V.files)
  BY <1>1 DEF Volume, VolumeOK, ServiceExact, exfs_is_mounted
<1>5. DisksOK' BY <1>1, <1>2, CommitOutcome DEF DisksOK
<1>6. PICK g \in Nat, b \in BOOLEAN, y \in BOOLEAN :
        /\ r.v = [dev |-> V.dev, home |-> V.home, files |-> V.files, gen |-> g,
                  mounted |-> TRUE, broken |-> b, dirty |-> y]
        /\ b => MayFail(V.dev)
        /\ ~b /\ ~y => r.d[V.dev][g % 2] = [gen |-> g, tree |-> V.files]
  BY <1>1, CommitOutcome
<1>7. /\ V' = [dev |-> V'.dev, home |-> V'.home, files |-> V'.files, gen |-> V'.gen,
               mounted |-> V'.mounted, broken |-> V'.broken, dirty |-> V'.dirty]
      /\ V'.dev = V.dev /\ V'.home = V.home /\ V'.files = V.files /\ V'.gen = g
      /\ V'.mounted \in BOOLEAN /\ V'.broken = b /\ V'.dirty = y
  <2>1. CASE Leaves(r.ok)
    <3>1. V' = [r.v EXCEPT !.mounted = FALSE] BY <1>2, <2>1
    <3>2. r.v = [dev |-> r.v.dev, home |-> r.v.home, files |-> r.v.files, gen |-> r.v.gen,
                 mounted |-> r.v.mounted, broken |-> r.v.broken, dirty |-> r.v.dirty]
      BY <1>6
    <3>3. V' = [dev |-> V'.dev, home |-> V'.home, files |-> V'.files, gen |-> V'.gen,
                mounted |-> V'.mounted, broken |-> V'.broken, dirty |-> V'.dirty]
      BY <3>1, <3>2
    <3>4. /\ V'.dev = r.v.dev /\ V'.home = r.v.home /\ V'.files = r.v.files /\ V'.gen = r.v.gen
          /\ V'.mounted = FALSE /\ V'.broken = r.v.broken /\ V'.dirty = r.v.dirty
      BY <3>1, <3>2
    <3>5. /\ r.v.dev = V.dev /\ r.v.home = V.home /\ r.v.files = V.files /\ r.v.gen = g
          /\ r.v.broken = b /\ r.v.dirty = y
      BY <1>6
    <3> QED BY ONLY <3>3, <3>4, <3>5
  <2>2. CASE ~Leaves(r.ok) BY <1>2, <1>6, <2>2
  <2> QED BY <2>1, <2>2
<1>8. VolumeOK' BY <1>4, <1>6, <1>7 DEF VolumeOK
<1>9. ServiceExact' BY <1>2, <1>4, <1>6, <1>7 DEF ServiceExact
<1> QED BY <1>3, <1>5, <1>8, <1>9 DEF Commit, session, SessionOK, Volume

\* Every step keeps the invariant.
LEMMA NextInv == Inv /\ [Next]_vars => Inv'
<1> SUFFICES ASSUME Inv, [Next]_vars PROVE Inv' OBVIOUS
<1>1. CASE UNCHANGED vars
  BY <1>1 DEF vars, Inv, Volume, VolumeOK, DisksOK, ServiceExact, SessionOK, exfs_is_mounted
<1>2. CASE Shown \/ OneShot \/ Return \/ halt
  BY <1>2, IdleInv, DoneElsewhere DEF Shown, OneShot, Return, halt, Running, session
<1>3. ASSUME NEW who \in Identities, Login(who) PROVE Inv'
  BY <1>3, DoneElsewhere
  DEF Login, Inv, Volume, VolumeOK, DisksOK, ServiceExact, SessionOK, Root
<1>4. ASSUME NEW p \in Operands, cmd_locate(Resolve(p)) PROVE Inv'
  BY <1>4, ResolvePath, DoneElsewhere
  DEF cmd_locate, Inv, Volume, VolumeOK, DisksOK, ServiceExact, SessionOK
<1>5. CASE Halted BY <1>1, <1>5 DEF Halted
<1> QED
  BY <1>1, <1>2, <1>3, <1>4, <1>5, BootInv, FilesInv, InstallInv, VolumeInv, CommitInv
  DEF Next, Identities

\* The invariant holds throughout.
LEMMA AlwaysInv == Spec => []Inv
  BY InitInv, NextInv, PTL DEF Spec

\* For any trees, devices' contents and generations: while a volume is
\* mounted its files are those of the device it reads and writes, and without
\* a change to commit they are the generation it carries there.
THEOREM VolumeIsExact == Spec => []ServiceExact
  BY AlwaysInv, PTL DEF Inv, Volume

-----------------------------------------------------------------------------
(* What a step of the session may never do.                                *)

\* For any volume: it leaves service committed or broken, never with changes
\* dropped in silence.
THEOREM NoSilentLoss == Spec => NothingDropped
<1> DEFINE Kept == exfs_is_mounted /\ ~exfs_is_mounted' =>
                     \/ V'.broken
                     \/ disk'[V.dev][V'.gen % 2] = [gen |-> V'.gen, tree |-> V.files]
<1>1. ASSUME Inv, [Next]_vars PROVE Kept
  <2>1. CASE UNCHANGED V BY <2>1 DEF exfs_is_mounted
  <2>2. ASSUME NEW fs, V' = Changed(fs) PROVE Kept
    BY <1>1, <2>2 DEF Changed, exfs_is_mounted, Inv, Volume, VolumeOK
  <2>3. ASSUME NEW d, FormatBegins(d) PROVE Kept
    BY <2>3 DEF FormatBegins, exfs_is_mounted
  <2>4. CASE ~exfs_is_mounted BY <2>4
  <2>5. CASE Commit
    <3>1. Volume BY <1>1 DEF Inv
    <3>2. PICK r \in exfs_commit :
            /\ V' = IF Leaves(r.ok) THEN [r.v EXCEPT !.mounted = FALSE] ELSE r.v
            /\ disk' = r.d
      BY <2>5 DEF Commit
    <3>3. HAVE exfs_is_mounted /\ ~exfs_is_mounted'
    <3>4. PICK g \in Nat, b \in BOOLEAN, y \in BOOLEAN :
            /\ r.v = [dev |-> V.dev, home |-> V.home, files |-> V.files, gen |-> g,
                      mounted |-> TRUE, broken |-> b, dirty |-> y]
            /\ r.ok => ~b /\ ~y
            /\ ~b /\ ~y => r.d[V.dev][g % 2] = [gen |-> g, tree |-> V.files]
      BY <3>1, <3>3, CommitOutcome
    <3>5. CASE Leaves(r.ok)
      <4>1. r.ok BY <3>5 DEF Leaves
      <4>2. V'.gen = g BY <3>2, <3>4, <3>5
      <4> QED BY <3>2, <3>4, <4>1, <4>2
    <3>6. CASE ~Leaves(r.ok)
      BY <3>2, <3>3, <3>4, <3>6 DEF exfs_is_mounted
    <3> QED BY <3>5, <3>6
  <2>6. CASE InstallTurn
    BY <2>1, <2>2, <2>6 DEF InstallTurn
  <2> QED
    BY <1>1, <2>1, <2>2, <2>3, <2>4, <2>5, <2>6
    DEF Next, vars, stage_volumes, SystemDisk, Shown, OneShot, Return, Login, cmd_locate,
        cmd_remove, cmd_write, cmd_form, cmd_install, cmd_sync, cmd_mount, cmd_format, halt, Halted
<1> QED BY <1>1, AlwaysInv, PTL DEF Spec, NothingDropped

\* For any volume and any paths: while one volume stays in service, a working
\* directory that names a directory goes on naming one.
THEOREM CwdNeverDangles == Spec => CwdStands
<1> DEFINE Stands == exfs_is_mounted /\ CwdExists /\ exfs_is_mounted' => CwdExists'
<1>1. ASSUME Inv, [Next]_vars PROVE Stands
  <2> USE DEF CwdExists, exfs_stat
  <2>1. CASE UNCHANGED <<V, cwd>> BY <2>1
  <2>2. CASE cwd' = Root BY <2>2
  <2>3. CASE ~exfs_is_mounted BY <2>3
  <2>4. ASSUME NEW n, exfs_stat(n) = "dir", cwd' = n, UNCHANGED V PROVE Stands
    BY <2>4
  <2>5. ASSUME NEW n, NEW type, Makeable(n), V' = Changed(With(n, type)), UNCHANGED cwd
        PROVE  Stands
    BY <1>1, <2>5 DEF Makeable, Changed, With, Inv, Volume, VolumeOK
  <2>6. ASSUME V' = Changed(V.files), UNCHANGED cwd PROVE Stands
    BY <1>1, <2>6 DEF Changed, Inv, Volume, VolumeOK
  <2>7. ASSUME NEW n, cmd_remove(n) PROVE Stands
    <3>1. Deletable(n) /\ IsTree(V.files) /\ n \in DOMAIN V.files
      BY <1>1, <2>7 DEF cmd_remove, Deletable, exfs_is_mounted, Inv, Volume, VolumeOK
    <3>2. V'.files = Restrict(V.files, DOMAIN V.files \ {n})
      BY <1>1, <2>7 DEF cmd_remove, Changed, Inv, Volume, VolumeOK
    <3>3. \A m \in DOMAIN V.files : m # n => m \in DOMAIN V'.files /\ V'.files[m] = V.files[m]
      BY <3>2 DEF Restrict
    <3>4. CASE n = cwd
      <4>1. cwd' = Front(n) BY <2>7, <3>4 DEF cmd_remove, CwdAfterRemove
      <4>2. n \in Names BY <3>1 DEF IsTree
      <4>3. Front(n) # n BY <4>2, FrontName
      <4> QED BY <3>1, <3>3, <4>1, <4>3 DEF IsTree
    <3>5. CASE n # cwd
      <4>1. cwd' = cwd BY <2>7, <3>5 DEF cmd_remove, CwdAfterRemove
      <4> QED BY <3>3, <3>5, <4>1
    <3> QED BY <3>4, <3>5
  <2>8. CASE InstallTurn
    <3>1. UNCHANGED cwd BY <2>8 DEF InstallTurn, session
    <3>2. \/ UNCHANGED V
          \/ V' = Changed(V.files)
          \/ \E n : Makeable(n) /\ V' = Changed(With(n, "file"))
      BY <2>8 DEF InstallTurn, Writable
    <3> QED BY <3>1, <3>2, <2>1, <2>5, <2>6
  <2>9. CASE Commit
    <3>1. HAVE exfs_is_mounted /\ CwdExists /\ exfs_is_mounted'
    <3>2. PICK r \in exfs_commit :
            V' = IF Leaves(r.ok) THEN [r.v EXCEPT !.mounted = FALSE] ELSE r.v
      BY <2>9 DEF Commit
    <3>3. PICK g \in Nat, b \in BOOLEAN, y \in BOOLEAN :
            r.v = [dev |-> V.dev, home |-> V.home, files |-> V.files, gen |-> g,
                   mounted |-> TRUE, broken |-> b, dirty |-> y]
      BY <1>1, <3>1, CommitOutcome DEF Inv
    <3>4. V'.files = V.files /\ cwd' = cwd BY <2>9, <3>2, <3>3 DEF Commit, session
    <3> QED BY <3>1, <3>4
  <2>10. CASE stage_volumes
    BY <2>3, <2>10, <1>1 DEF stage_volumes, Inv, SessionOK, exfs_is_mounted
  <2> QED
    BY <1>1, <2>1, <2>2, <2>3, <2>4, <2>5, <2>6, <2>7, <2>8, <2>9, <2>10
    DEF Next, vars, session, SystemDisk, Shown, OneShot, Return, Login, cmd_locate,
        cmd_write, cmd_form, cmd_install, cmd_sync, cmd_mount, cmd_format, halt, Halted
<1> QED BY <1>1, AlwaysInv, PTL DEF Spec, CwdStands
=============================================================================
