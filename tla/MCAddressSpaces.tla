--------------------------- MODULE MCAddressSpaces ---------------------------
(* Small instances of the address spaces for TLC.  Page tables have two    *)
(* entries: PML4[0] is the kernel's, PML4[1] the user's pages 8 .. 15, of  *)
(* which 15 is the guard page above the stack.                             *)
EXTENDS AddressSpaces, TLC

CONSTANTS o1, o2

\* Pages of two units; a file has a header of two, table entries of one.
Seg(vaddr, size, foff, fsz, flags) ==
    [vaddr |-> vaddr, mem |-> size, foff |-> foff, fsz |-> fsz, flags |-> flags, resv |-> 0]
File(size, entry, segs, caps, seg_off, cap_off) ==
    [size |-> size, head |-> "ok", entry |-> entry, segs |-> segs, caps |-> caps,
     seg_off |-> seg_off, cap_off |-> cap_off]
Cap(kind, optional, value) == [kind |-> kind, optional |-> optional, resv |-> 0, value |-> value]

Code == Seg(24, 2, 5, 1, {"R", "X"})
Data == Seg(20, 1, 6, 1, {"R", "W"})
StackCap == Cap("stack", FALSE, 2)
MCImages == {File(7, 24, <<Code>>, <<StackCap>>, 2, 3),
             File(7, 24, <<Code, Data>>, <<StackCap>>, 2, 4),
             File(7, 25, <<Code, Data>>, <<StackCap>>, 2, 4)}     \* entry in the .bss part

\* Segments at and around every boundary of the address range and the file.
MCSegs == {Seg(v, m, o, z, fl) : v \in {14, 16, 20, 21, 24, 26}, m \in {0, 1, 3}, o \in {0, 1, 5, 6},
                                 z \in {0, 1, 2}, fl \in {{"R"}, {"R", "X"}}}
FewSegs == {Seg(v, m, o, z, {"R", "X"}) : v \in {16, 18, 22}, m \in {2, 3}, o \in {4, 5, 6}, z \in {1, 2}}
FewCaps == {StackCap, Cap("stack", TRUE, 4), Cap("stack", FALSE, 0), Cap("stack", FALSE, 3),
            Cap("stack", FALSE, 6), Cap("heap", FALSE, 4), Cap("heap", FALSE, 5),
            Cap("tokens", FALSE, 4), Cap("new", TRUE, 9), Cap("new", FALSE, 0), Cap("zero", TRUE, 0),
            [StackCap EXCEPT !.resv = 1]}
MCRawImages ==
    MCImages
    \cup {File(7, e, <<s>>, <<>>, 2, 0) : s \in MCSegs, e \in {15, 16, 17, 24, 25}}
    \cup {File(7, 16, <<Seg(16, 2, 6, 1, fl)>>, <<>>, 2, 0) : fl \in SUBSET {"R", "W", "X", "?"}}
    \cup {File(8, 16, <<s, t>>, <<>>, 2, 0) : s, t \in FewSegs}
    \cup {File(9, 16, <<Seg(16, 2, 6, 1, {"R", "X"}), s, t>>, <<>>, 2, 0) : s, t \in FewSegs}
    \cup {File(7, 16, <<Seg(16, 2, f, 1, {"R", "X"})>>, <<StackCap>>, so, co) :
            f \in 1 .. 7, so \in 0 .. 6, co \in 0 .. 7}
    \cup {File(7, 16, <<Seg(16, 2, 6, 1, {"R", "X"})>>, <<c, d>>, 2, 3) : c, d \in FewCaps}
    \cup {File(n, 16, <<Seg(16, 2, 3, 1, {"R", "X"})>>, <<>>, 2, 0) : n \in 0 .. 11}
    \cup {[File(7, 16, <<Seg(16, 2, 3, 1, {"R", "X"})>>, <<>>, 2, 0) EXCEPT !.head = h] :
            h \in {"ok", "magic", "version", "header", "kind", "target", "size", "crc"}}
    \cup {File(10, 16, [i \in 1 .. n |-> Seg(14 + 2 * i, 1, 6, IF i = 1 THEN 1 ELSE 0, {"R", "X"})],
               <<>>, 2, 0) : n \in 0 .. 4}

MCFrames == 1 .. 14
MCSizes == {2}
MCRightSets == {{"READ", "MAP", "WRITE", "RELEASE"}}
MCPermSets == {{"R", "W"}, {"R", "X"}}
MCVas == {9, 13}
MCDefault == [frames |-> 5, tokens |-> 3]
MCQuotas == {[frames |-> 3, tokens |-> 2]}
MCSymmetry == Permutations({o1, o2})
=============================================================================
