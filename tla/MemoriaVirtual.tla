---------------------------- MODULE MemoriaVirtual ----------------------------
(***************************************************************************)
(* The translation of addresses: the TLB of the CPU (mmu.c) over the page  *)
(* tables of the memory (memoria_utils.c).  The CPU asks the TLB first and *)
(* the memory on a miss; nothing tells the TLB that a RESIZE took a page   *)
(* away or that a process ended.                                           *)
(*                                                                         *)
(* A program is assumed to use only pages it has: for another one the      *)
(* memory dereferences a NULL page.                                        *)
(***************************************************************************)
EXTENDS MemoriaPaginas

CONSTANTS
  CantidadEntradas, MaxTiempo  \* see Tlb

VARIABLES
  ALGORITMO_TLB, entradas, tiempo_actual, reemplazar_fifo, accedida  \* see Tlb

TLB == INSTANCE Tlb WITH Procesos <- Pids, Paginas <- 0..MaxPaginas - 1, Frames <- 0..NumMarcos

tlb == <<ALGORITMO_TLB, entradas, tiempo_actual, reemplazar_fifo, accedida>>
varsVirtual == <<vars, tlb>>

InitVirtual == Init /\ TLB!InitTlb

(* obtener_frame: the CPU translates an address of p's page pag; the       *)
(* memory answers a FRAME with the page table.                             *)
obtener_frame(p, pag) ==
  /\ linea = "lista" /\ ~esperando
  /\ p \in procesos \ sinMemoria
  /\ pag + 1 \in DOMAIN tabla[p]
  /\ TLB!obtener_frame(p, pag, tabla[p][pag + 1])
  /\ UNCHANGED vars

NextVirtual ==
  \/ Next /\ UNCHANGED tlb   \* a step of the memory: the TLB is not told
  \/ \E p \in Pids, pag \in 0..MaxPaginas - 1 : obtener_frame(p, pag)

SpecVirtual == InitVirtual /\ [][NextVirtual]_varsVirtual

-----------------------------------------------------------------------------

(* Enunciado, page 19: a TLB hit must return the frame that corresponds to *)
(* the page, so the two copies of the translation of a page that a live    *)
(* process has must agree.  The TLB is told of nothing: a page that was    *)
(* given back with RESIZE and taken again has another frame.               *)
HitCorrecto ==
  \A i \in DOMAIN entradas :
    LET e == entradas[i] IN
    e.pid \in procesos /\ e.pagina + 1 \in DOMAIN tabla[e.pid] =>
      e.frame = tabla[e.pid][e.pagina + 1]

=============================================================================
