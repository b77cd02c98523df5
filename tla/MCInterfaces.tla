---------------------------- MODULE MCInterfaces ----------------------------
(* An instance of Interfaces: two connections of different names. *)
EXTENDS Interfaces, TLC

CONSTANTS p1, p2, c1, c2, i1, i2

DosNombres == c1 :> i1 @@ c2 :> i2

=============================================================================
