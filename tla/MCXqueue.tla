------------------------------ MODULE MCXqueue ------------------------------
(* A ring of four slots that is filled, drained and wraps around.          *)
EXTENDS Xqueue

CONSTANTS v1, v2

MCValues == {v1, v2}
\* A command half of one and half of the other is neither.
MCCommands == {<<v1, v1>>, <<v2, v2>>}
=============================================================================
