---------------------------- MODULE MCExtentPool ----------------------------
(* Three files and a pool of six entries.  The other device has more than   *)
(* the pool can hold: a kernel with a larger one wrote it.                  *)
EXTENDS ExtentPool

MCLists == {<<>>, <<"a">>, <<"b", "c">>, <<"d", "e", "f">>}
MCExtents == {"zero", "a", "b", "c", "d", "e", "f"}

File(list) == [used |-> TRUE, list |-> list]
MCDisks == {[i \in Inodes |-> IF i = 1 THEN Nothing ELSE File(<<"d", "e", "f">>)]}
=============================================================================
