------------------------------ MODULE ExfsAbs ------------------------------
(***************************************************************************)
(* What EXFS promises (exfs.h): a tree of files and directories of which   *)
(* one version is durable and one, while a volume is mounted, is in        *)
(* memory.  Operations change the version in memory, each entirely or not  *)
(* at all; a commit makes it durable in one step; a crash, a failed commit *)
(* or an unmount forgets it; a mount starts from the durable one.          *)
(***************************************************************************)
EXTENDS Integers, Sequences, SequencesExt, Functions, TLC

CONSTANTS
    Names,          \* the valid names, each the sequence of its components
    FormatNames,    \* the directories exfs_format makes, in order
    WriteArgs,      \* the <<length, value>> pairs given to exfs_write
    WriteAtArgs     \* the <<offset, length, value>> triples given to exfs_write_at

VARIABLES ram, durable, up
vars == <<ram, durable, up>>

\* durable is the set of the one durable tree, or empty: no valid volume.
NoVolume == {}
EmptyTree == <<>>
Node(t, data) == [type |-> t, data |-> data]

Init == ram = EmptyTree /\ durable = NoVolume /\ up = FALSE

\* The parent of a name of one component is the root, which always exists.
ParentOK(tree, n) ==
    \/ Len(n) = 1
    \/ Front(n) \in DOMAIN tree /\ tree[Front(n)].type = "dir"

Make(n, t) ==
    /\ up
    /\ n \notin DOMAIN ram
    /\ ParentOK(ram, n)
    /\ ram' = ram @@ (n :> Node(t, <<>>))
    /\ UNCHANGED <<durable, up>>

\* A directory must be empty.
Delete(n) ==
    /\ up
    /\ n \in DOMAIN ram
    /\ \A c \in DOMAIN ram : ~IsStrictPrefix(n, c)
    /\ ram' = Restrict(ram, DOMAIN ram \ {n})
    /\ UNCHANGED <<durable, up>>

\* The content once the cells off+1 .. off+len hold v; a gap reads as zeros.
Overwrite(data, off, len, v) ==
    LET size == IF off + len > Len(data) THEN off + len ELSE Len(data) IN
    [i \in 1 .. size |-> IF off < i /\ i <= off + len THEN v
                         ELSE IF i <= Len(data) THEN data[i] ELSE 0]

SetData(n, data) ==
    /\ up
    /\ n \in DOMAIN ram /\ ram[n].type = "file"
    /\ ram' = [ram EXCEPT ![n] = Node("file", data)]
    /\ UNCHANGED <<durable, up>>

Write(n) == \E a \in WriteArgs : SetData(n, [i \in 1 .. a[1] |-> a[2]])
WriteAt(n) == \E a \in WriteAtArgs :
    n \in DOMAIN ram /\ SetData(n, Overwrite(ram[n].data, a[1], a[2], a[3]))

\* The commit point.  A device that reports an error for a write it has made
\* takes the volume down at the same time.
Commit ==
    /\ up
    /\ durable' = {ram}
    /\ \/ UNCHANGED <<ram, up>>
       \/ ram' = EmptyTree /\ up' = FALSE

Lose == up /\ ram' = EmptyTree /\ up' = FALSE /\ UNCHANGED durable

Mount ==
    /\ ~up
    /\ \E t \in durable : ram' = t
    /\ up' = TRUE
    /\ UNCHANGED durable

Format ==
    /\ ~up
    /\ ram' = [n \in ToSet(FormatNames) |-> Node("dir", <<>>)]
    /\ up' = TRUE
    /\ UNCHANGED durable

Next ==
    \/ \E n \in Names : Make(n, "file") \/ Make(n, "dir") \/ Delete(n)
                        \/ Write(n) \/ WriteAt(n)
    \/ Commit \/ Lose \/ Mount \/ Format

Spec == Init /\ [][Next]_vars
=============================================================================
