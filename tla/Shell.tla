------------------------------- MODULE Shell -------------------------------
(***************************************************************************)
(* The session: the bootstrap's volumes, the shell's directives and the    *)
(* coreutils that mount, format, sync and fill a volume, over the one      *)
(* volume (V in exfs.c) and the two devices the bootstrap registers.       *)
(*                                                                         *)
(* EXFS is seen from outside: an operation is one step that happens or is  *)
(* refused (Exfs, by its refinement of ExfsAbs, says so), and a device     *)
(* holds two superblocks, each with a generation and the tree of names it  *)
(* stands for.  What matters here is what V and the session keep from one  *)
(* volume to the next.  File content, block maps and printing are left     *)
(* out.  One terminal, one shell: the steps are those of one thread.       *)
(***************************************************************************)
EXTENDS Integers, Sequences, SequencesExt, Functions, FiniteSets

CONSTANTS
    Components,     \* what a path can have between two bars
    Operands,       \* path operands: [abs |-> BOOLEAN, names |-> components]
    FormatNames,    \* the directories exfs_format makes
    Images,         \* names of the programs built into the system, in order
    EarlierDisks,   \* what an earlier session may have left on the disk
    NInodes,        \* nodes a volume can hold
    DevMax,         \* entries of the device registry
    MaxGen,         \* bound on the generations of a volume
    MaxOps,         \* bound on the nodes made or removed in a behaviour
    MaxDepth        \* bound on the "sprusr" prefixes of a line

Root == <<>>
Names == Seq(Components) \ {Root}

\* What a volume holds: a tree of names, each in the root or in a directory.
IsTree(tree) ==
    /\ tree = [n \in DOMAIN tree |-> tree[n]]
    /\ DOMAIN tree \subseteq Names
    /\ \A n \in DOMAIN tree :
         Front(n) # Root => Front(n) \in DOMAIN tree /\ tree[Front(n)] = "dir"

\* What a device holds: two superblocks, a generation in the slot of its parity.
IsSb(sb) == sb = [gen |-> sb.gen, tree |-> sb.tree] /\ sb.gen \in Nat /\ IsTree(sb.tree)
IsDisk(d) ==
    /\ d = [s \in {0, 1} |-> d[s]]
    /\ \A s \in {0, 1} : IsSb(d[s]) /\ (d[s].gen > 0 => d[s].gen % 2 = s)

ASSUME ShellAssumption ==
    /\ \A p \in Operands : p.names \in Seq(Components)
    /\ IsTree([n \in FormatNames |-> "dir"])
    /\ Cardinality(FormatNames) <= NInodes
    /\ <<"bin">> \in FormatNames
    /\ "bin" \in Components /\ Images \in Seq(Components) /\ Images # <<>>
    /\ \A d \in EarlierDisks : IsDisk(d)
    /\ DevMax \in Nat /\ MaxDepth \in Nat

VARIABLES
    pc,     \* where the session is; "dispatch" with nothing saved is the prompt
    op,     \* the call under way: exfs_commit for whom, the image of install
    id,     \* current_user and is_superuser
    saved,  \* the identities the nested sprusr directives will go back to
    login,  \* history: the account last logged into at the prompt
    cwd,    \* current_cwd, as its components; <<>> is the root "|"
    devs,   \* the device registry
    V,      \* the volume; V.home is the device V.files describes
    disk,   \* the superblocks of each device: a generation and its tree
    ops

vars == <<pc, op, id, saved, login, cwd, devs, V, disk, ops>>

Devices == {"rd0", "nd0"}
Xent == [user |-> "xent", super |-> FALSE]
Sprusr == [user |-> "sprusr", super |-> TRUE]

Call(name) == [name |-> name, image |-> 0]
NoCall == Call("none")

NoTree == <<>>
NoSb == [gen |-> 0, tree |-> NoTree]
Blank == [s \in {0, 1} |-> NoSb]
\* A table overwritten in part by a format that failed.
Torn == [n \in {<<"bin">>} |-> "torn"]

Init ==
    /\ pc = "boot" /\ op = NoCall /\ devs = <<>> /\ ops = 0
    /\ id = Xent /\ saved = <<>> /\ login = Xent /\ cwd = Root
    /\ V = [dev |-> "none", home |-> "none", files |-> NoTree, gen |-> 0,
            mounted |-> FALSE, broken |-> FALSE, dirty |-> FALSE]
    /\ \E d \in EarlierDisks : disk = [dev \in Devices |-> IF dev = "rd0" THEN Blank ELSE d]

---------------------------------------------------------------------------
(* EXFS as the coreutils call it.                                          *)

\* Mutant: a RAM disk that can fail.
AnyMayFail(d) == TRUE
\* The RAM disk copies memory and always answers BLK_OK.
MayFail(d) == d # "rd0"

exfs_is_mounted == V.mounted /\ ~V.broken

\* Needs no mounted volume: it looks into whatever V.files holds.
exfs_stat(n) ==
    IF n = Root THEN "dir" ELSE IF n \in DOMAIN V.files THEN V.files[n] ELSE "none"

Makeable(n) ==
    /\ exfs_is_mounted
    /\ n # Root
    /\ exfs_stat(n) = "none"
    /\ exfs_stat(Front(n)) = "dir"
    /\ Cardinality(DOMAIN V.files) < NInodes

Deletable(n) ==
    /\ exfs_is_mounted
    /\ n \in DOMAIN V.files
    /\ \A c \in DOMAIN V.files : ~IsStrictPrefix(n, c)

Writable(n) == exfs_is_mounted /\ exfs_stat(n) = "file"

With(n, type) == [m \in DOMAIN V.files \cup {n} |-> IF m = n THEN type ELSE V.files[m]]
Changed(files) == [V EXCEPT !.files = files, !.dirty = TRUE]

\* Where the tables and the superblock of the next generation go.
NextSlot == (V.gen + 1) % 2
PutSlot(sb) == [disk EXCEPT ![V.dev][NextSlot] = sb]

(***************************************************************************)
(* The outcomes of exfs_commit: what it returns, V and the devices then.   *)
(* A device error comes before the table, in it, or with a superblock that *)
(* was written all the same, and marks the volume broken.  A commit that   *)
(* lacks room is refused before anything changes (a volume being formatted *)
(* has no files, and so has room).                                         *)
(***************************************************************************)
NewSb == [gen |-> V.gen + 1, tree |-> V.files]

Committed ==
    {IF V.dirty
     THEN [ok |-> TRUE, v |-> [V EXCEPT !.gen = @ + 1, !.dirty = FALSE], d |-> PutSlot(NewSb)]
     ELSE [ok |-> TRUE, v |-> V, d |-> disk]}

Refused == IF V.dirty /\ V.gen > 0 THEN {[ok |-> FALSE, v |-> V, d |-> disk]} ELSE {}

Failed ==
    IF V.dirty /\ MayFail(V.dev)
    THEN [ok : {FALSE}, v : {[V EXCEPT !.broken = TRUE]},
          d : {disk, PutSlot([disk[V.dev][NextSlot] EXCEPT !.tree = Torn]), PutSlot(NewSb)}]
    ELSE {}

exfs_commit == Committed \cup Refused \cup Failed

\* exfs_format up to its commit.  Errors in the geometry or the map come after
\* V.dev was set and before anything else of V.
FormatBegins(d) ==
    V' = [dev |-> d, home |-> d, files |-> [n \in FormatNames |-> "dir"], gen |-> 0,
          mounted |-> TRUE, broken |-> FALSE, dirty |-> TRUE]
FormatFails(d) == MayFail(d) /\ V' = [V EXCEPT !.dev = d]

\* The newest superblock of a device, and the volume mounted from it.
Newest(d) == CHOOSE sb \in Range(disk[d]) : \A t \in Range(disk[d]) : sb.gen >= t.gen
Adopted(d, sb) ==
    [V EXCEPT !.dev = d, !.home = d, !.files = sb.tree, !.gen = sb.gen,
              !.mounted = TRUE, !.broken = FALSE, !.dirty = FALSE]

\* The files of a mount that stopped inside the table: some are the new
\* volume's, the others still those of the volume before.
PartlyRead(old, new) ==
    {[n \in (DOMAIN new \cap S) \cup (DOMAIN old \ S) |-> IF n \in S THEN new[n] ELSE old[n]] :
        S \in SUBSET (DOMAIN old \cup DOMAIN new)}

\* A torn table is the half-valid volume that a failed format leaves; it is
\* not followed further.  A superblock is read without errors.
exfs_mount(d) ==
    /\ Newest(d).tree # Torn
    /\ \/ Newest(d).gen > 0 /\ V' = Adopted(d, Newest(d))
       \/ (Newest(d).gen = 0 \/ MayFail(d)) /\ V' = [V EXCEPT !.dev = d, !.mounted = FALSE]
       \/ /\ Newest(d).gen > 0 /\ MayFail(d)
          /\ \E fs \in PartlyRead(V.files, Newest(d).tree) :
                V' = [V EXCEPT !.dev = d, !.home = "none", !.files = fs, !.mounted = FALSE]

---------------------------------------------------------------------------
(* The bootstrap (stage_volumes): the boot volume on the RAM disk, then    *)
(* the system disk if the storage driver finds one.                        *)

dev_register(d) ==
    devs' = IF d \in Range(devs) \/ Len(devs) = DevMax THEN devs ELSE Append(devs, d)
dev_lookup(d) == d \in Range(devs)

session == <<id, saved, login, cwd>>

stage_volumes ==
    /\ pc = "boot" /\ pc' = "commit" /\ op' = Call("boot")
    /\ dev_register("rd0")
    /\ FormatBegins("rd0")
    /\ UNCHANGED <<session, disk, ops>>

SystemDisk ==
    /\ pc = "open" /\ pc' = "dispatch"
    /\ dev_register("nd0") \/ UNCHANGED devs
    /\ UNCHANGED <<op, session, V, disk, ops>>

---------------------------------------------------------------------------
(* The directives.  One that is refused, or only shows something, changes  *)
(* nothing: at the prompt it is no step, under sprusr it is Shown.         *)

Running == pc = "dispatch"
\* dispatch returns to the prompt, or to the sprusr that called it.
Done == pc' = IF saved = <<>> THEN "dispatch" ELSE "return"

Resolve(p) == IF p.abs THEN p.names ELSE cwd \o p.names

Shown == Running /\ saved # <<>> /\ Done /\ UNCHANGED <<op, session, devs, V, disk, ops>>

Login(who) ==
    /\ Running /\ Done
    /\ id' = who /\ cwd' = Root
    /\ login' = IF saved = <<>> THEN who ELSE login
    /\ UNCHANGED <<op, saved, devs, V, disk, ops>>

\* Mutant: the caller is taken to be the default account.
SavedDefault == Xent
Caller == id

\* sprusr with a command: the rest of the line is dispatched as the superuser.
OneShot ==
    /\ Running /\ Len(saved) < MaxDepth
    /\ saved' = Append(saved, Caller) /\ id' = Sprusr
    /\ UNCHANGED <<pc, op, login, cwd, devs, V, disk, ops>>

\* The nested dispatch has returned.
Return ==
    /\ pc = "return"
    /\ id' = Last(saved) /\ saved' = Front(saved)
    /\ pc' = IF Len(saved) = 1 THEN "dispatch" ELSE pc
    /\ UNCHANGED <<op, login, cwd, devs, V, disk, ops>>

cmd_locate(n) ==
    /\ Running /\ Done
    /\ exfs_stat(n) = "dir"
    /\ cwd' = n
    /\ UNCHANGED <<op, id, saved, login, devs, V, disk, ops>>

cmd_form(n, type) ==
    /\ Running /\ Done /\ ops < MaxOps
    /\ Makeable(n)
    /\ V' = Changed(With(n, type))
    /\ ops' = ops + 1
    /\ UNCHANGED <<op, session, devs, disk>>

\* Mutant: the working directory is not looked at.
CwdKept(n) == cwd
CwdAfterRemove(n) == IF n = cwd THEN Front(n) ELSE cwd

cmd_remove(n) ==
    /\ Running /\ Done /\ ops < MaxOps
    /\ Deletable(n)
    /\ V' = Changed(Restrict(V.files, DOMAIN V.files \ {n}))
    /\ cwd' = CwdAfterRemove(n)
    /\ ops' = ops + 1
    /\ UNCHANGED <<op, id, saved, login, devs, disk>>

cmd_write(n) ==
    /\ Running /\ Done
    /\ Writable(n)
    /\ V' = Changed(V.files)
    /\ UNCHANGED <<op, session, devs, disk, ops>>

\* install: for each image, make the file if it is missing, then write it.
\* The first call that fails ends the directive.
cmd_install ==
    /\ Running /\ exfs_is_mounted
    /\ pc' = "install" /\ op' = [Call("install") EXCEPT !.image = 1]
    /\ UNCHANGED <<session, devs, V, disk, ops>>

InstallTurn ==
    LET n == <<"bin", Images[op.image]>>
        there == exfs_stat(n) # "none" IN
    /\ pc = "install"
    /\ \/ \* created if missing and written; then the next image
          /\ Writable(n) \/ Makeable(n)
          /\ V' = Changed(IF there THEN V.files ELSE With(n, "file"))
          /\ IF op.image < Len(Images) THEN op' = [op EXCEPT !.image = @ + 1] /\ UNCHANGED pc
                                       ELSE op' = NoCall /\ Done
       \/ \* cannot be created, or is there and cannot be written
          /\ there \/ ~Makeable(n)
          /\ op' = NoCall /\ Done /\ UNCHANGED V
       \/ \* created, and then not written
          /\ Makeable(n)
          /\ V' = Changed(With(n, "file"))
          /\ op' = NoCall /\ Done
    /\ UNCHANGED <<session, devs, disk, ops>>

\* sync and unmount begin with the commit, in the step Commit.
cmd_sync(call) ==
    /\ Running
    /\ exfs_is_mounted /\ (V.dirty => V.gen < MaxGen)
    /\ pc' = "commit" /\ op' = Call(call)
    /\ UNCHANGED <<session, devs, V, disk, ops>>

cmd_mount(d) ==
    /\ Running /\ Done
    /\ dev_lookup(d)
    /\ ~exfs_is_mounted
    /\ exfs_mount(d)
    /\ UNCHANGED <<op, session, devs, disk, ops>>

\* The device was named twice.
cmd_format(d) ==
    /\ Running
    /\ dev_lookup(d)
    /\ ~exfs_is_mounted
    /\ \/ FormatBegins(d) /\ pc' = "commit" /\ op' = Call("format")
       \/ FormatFails(d) /\ Done /\ UNCHANGED op
    /\ UNCHANGED <<session, devs, disk, ops>>

\* Mutant: the volume is given up whatever the commit returned.
LeaveAnyway(ok) == op.name = "unmount"
Leaves(ok) == op.name = "unmount" /\ ok

\* The call goes on after its commit.  A volume that could not be committed
\* stays mounted; a boot volume that could not be ends the boot.
Commit ==
    /\ pc = "commit" /\ op' = NoCall
    /\ \E r \in exfs_commit :
         /\ V' = IF Leaves(r.ok) THEN [r.v EXCEPT !.mounted = FALSE] ELSE r.v
         /\ disk' = r.d
         /\ IF op.name = "boot" THEN pc' = (IF r.ok THEN "open" ELSE "halted") ELSE Done
    /\ UNCHANGED <<session, devs, ops>>

halt == Running /\ pc' = "halted" /\ UNCHANGED <<op, session, devs, V, disk, ops>>
Halted == pc = "halted" /\ UNCHANGED vars

Next ==
    \/ stage_volumes \/ SystemDisk
    \/ Shown \/ OneShot \/ Return \/ Login(Sprusr) \/ Login(Xent)
    \/ \E p \in Operands :
         \/ cmd_locate(Resolve(p)) \/ cmd_remove(Resolve(p)) \/ cmd_write(Resolve(p))
         \/ \E type \in {"file", "dir"} : cmd_form(Resolve(p), type)
    \/ cmd_install \/ InstallTurn
    \/ cmd_sync("sync") \/ cmd_sync("unmount") \/ Commit
    \/ \E d \in Devices : cmd_mount(d) \/ cmd_format(d)
    \/ halt \/ Halted

Spec == Init /\ [][Next]_vars

---------------------------------------------------------------------------

\* "run one command as superuser, then return": at the prompt the session is
\* the account last logged into there, whatever was nested in between,
\* logins and refused directives included.
OneShotReturns == (Running /\ saved = <<>>) => id = login

CwdExists == exfs_stat(cwd) = "dir"

\* "never leave cwd dangling": as long as one volume stays in service, the
\* working directory, once it names a directory, goes on naming one: no
\* directive takes it away, and none swaps the volume under it.  After an
\* unmount nothing is said of it until a login or locate sets it again.
CwdStands ==
    [][exfs_is_mounted /\ CwdExists /\ exfs_is_mounted' => CwdExists']_vars

\* While a volume is mounted, even broken, V.files describe the device V
\* reads and writes; in service with nothing to commit, they are the tree of
\* the generation it carries, on that device.
ServiceExact ==
    V.mounted =>
        /\ V.dev = V.home
        /\ ~V.broken /\ ~V.dirty =>
             disk[V.dev][V.gen % 2] = [gen |-> V.gen, tree |-> V.files]

\* A volume leaves service committed, or broken by the device: mount, format
\* and unmount never drop changes in silence.
NothingDropped ==
    [][exfs_is_mounted /\ ~exfs_is_mounted' =>
         \/ V'.broken
         \/ disk'[V.dev][V'.gen % 2] = [gen |-> V'.gen, tree |-> V.files]]_vars
=============================================================================
