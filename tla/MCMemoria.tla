------------------------------ MODULE MCMemoria ------------------------------
(* The two sides of a translation, each one alone: the page tables, with   *)
(* three processes, and the TLB, whatever the memory answers to it.        *)
(* MemoriaVirtual puts them together.                                      *)
EXTENDS MemoriaPaginas, Tlb

CONSTANTS p1, p2, p3

InitPartes == Init /\ InitTlb

(* The first step decides which one moves. *)
NextPartes ==
  \/ Next /\ UNCHANGED tlb /\ accedida = <<>> /\ ALGORITMO_TLB = "FIFO"
  \/ NextTlb /\ UNCHANGED vars /\ procesos \cup terminados = {}

SpecPartes == InitPartes /\ [][NextPartes]_<<vars, tlb>> /\ WF_vars(PasoResize)

MCPaginas == 0..1
MCFrames == {0}
=============================================================================
