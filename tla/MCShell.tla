------------------------------ MODULE MCShell ------------------------------
(* A session over short paths, absolute and relative, on a blank disk or    *)
(* one that an earlier session left with two generations.                   *)
EXTENDS Shell

Abs(names) == [abs |-> TRUE, names |-> names]
Rel(names) == [abs |-> FALSE, names |-> names]
MCComponents == {"bin", "a", "p", "q"}
MCOperands == {Abs(<<"bin">>), Abs(<<"a">>), Abs(<<"a", "a">>), Rel(<<"a">>)}

MCFormatNames == {<<"bin">>}
MCImages == <<"p", "q">>

Formatted == <<"bin">> :> "dir"
WithA == Formatted @@ (<<"a">> :> "dir")
Earlier == 0 :> [gen |-> 2, tree |-> WithA] @@ 1 :> [gen |-> 1, tree |-> Formatted]
MCEarlierDisks == {Blank, Earlier}
=============================================================================
