----------------------------- MODULE MCRecursos -----------------------------
(* Instances of Recursos for TLC: few processes and units, so that lists   *)
(* of two blocked processes, self-blocking, units created by SIGNAL and    *)
(* kills at every point all happen.                                        *)
EXTENDS Recursos, TLC

CONSTANTS p1, p2, p3, ra, rb

Simetria == Permutations({p1, p2, p3})

(* One resource with one unit (RA, RC of kernel.config). *)
UnaInstancia == [r \in {ra} |-> 1]

(* Two resources, one with one unit and one with none left to give. *)
DosRecursos == [r \in {ra, rb} |-> IF r = ra THEN 1 ELSE 0]

=============================================================================
