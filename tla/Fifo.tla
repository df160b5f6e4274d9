-------------------------------- MODULE Fifo --------------------------------
(***************************************************************************)
(* What an XQUEUE channel promises its two ends: a bounded first-in        *)
(* first-out queue of whole commands.                                      *)
(***************************************************************************)
EXTENDS Naturals, Sequences

CONSTANTS
    Commands,
    Capacity

VARIABLES queue, sent, got
vars == <<queue, sent, got>>

Init == queue = <<>> /\ sent = <<>> /\ got = <<>>

Submit(cmd) ==
    /\ Len(queue) < Capacity
    /\ queue' = Append(queue, cmd)
    /\ sent' = Append(sent, cmd)
    /\ UNCHANGED got

Take ==
    /\ queue # <<>>
    /\ queue' = Tail(queue)
    /\ got' = Append(got, Head(queue))
    /\ UNCHANGED sent

Next == (\E cmd \in Commands : Submit(cmd)) \/ Take

Spec == Init /\ [][Next]_vars
=============================================================================
