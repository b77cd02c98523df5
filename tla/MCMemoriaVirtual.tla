-------------------------- MODULE MCMemoriaVirtual --------------------------
(* Instances of MemoriaVirtual. *)
EXTENDS MemoriaVirtual
CONSTANTS p1, p2

MCPids == {p1, p2}
=============================================================================
