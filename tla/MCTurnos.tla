------------------------------ MODULE MCTurnos ------------------------------
(* The planner and the CPU with two processes. *)
EXTENDS Turnos, TLC

CONSTANTS p1, p2

MCProcesos == {p1, p2}

Simetria == Permutations(Procesos)
=============================================================================
