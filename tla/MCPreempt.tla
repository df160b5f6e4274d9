------------------------------ MODULE MCPreempt ------------------------------
(* Two programs that interleave on the CPU.                                *)
EXTENDS Preempt

CONSTANTS p1, p2
MCPrograms == {p1, p2}
=============================================================================
