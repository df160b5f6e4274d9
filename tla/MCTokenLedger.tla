---------------------------- MODULE MCTokenLedger ----------------------------
(* Small instances of the token ledger for TLC.                            *)
EXTENDS TokenLedger, TLC

CONSTANTS o1, o2, c1, c2, m1, m2

\* Five frames: frame 0 is the first MiB, the framebuffer is frame 4, an ACPI
\* region overlaps nothing usable, two descriptors overlap.
MCMemMap == {[type |-> "Conventional",     start |-> 0, pages |-> 2],
             [type |-> "LoaderData",       start |-> 1, pages |-> 2],
             [type |-> "BootServicesCode", start |-> 3, pages |-> 4]}
MCFb == [start |-> 4, pages |-> 1]
MCRightSets == {{"READ", "WRITE", "MAP", "RELEASE"}, {"READ", "MAP"}}
MCOneSize == {1}
MCSymmetry == Permutations({o1, o2}) \cup Permutations({c1, c2}) \cup Permutations({m1, m2})
=============================================================================
