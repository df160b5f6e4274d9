------------------------------- MODULE MCExfs -------------------------------
(* Small volumes for TLC.                                                  *)
EXTENDS Exfs

d == <<"d">>
f == <<"d", "f">>

MCOneFile == {f}
MCDirAndFile == {d, f}
MCFormatNames == <<d>>
\* Two cells to a block: 3 cells end inside their second block.
MCWriteArgs == {<<3, 1>>}
MCWriteAtArgs == {<<1, 1, 2>>, <<4, 2, 2>>}
=============================================================================
