------------------------------ MODULE MCDialFS ------------------------------
(* Instances of DialFS for TLC: three files over four blocks. *)
EXTENDS DialFS, TLC

CONSTANTS fa, fb, fc

Simetria == Permutations(Archivos)

=============================================================================
