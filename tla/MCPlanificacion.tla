--------------------------- MODULE MCPlanificacion ---------------------------
(* Instances of Planificacion for TLC. *)
EXTENDS Planificacion, TLC

CONSTANTS p1, p2, p3

Simetria == Permutations(Pids)

(* Neither reductions nor pauses: only processes created and killed. *)
MatarSinReducir ==
  {"INICIAR_PROCESO", "INICIAR_PLANIFICACION", "FINALIZAR_PROCESO"}

(* All the commands but FINALIZAR_PROCESO. *)
SinFinalizar ==
  {"INICIAR_PROCESO", "INICIAR_PLANIFICACION", "DETENER_PLANIFICACION",
   "MULTIPROGRAMACION"}

(* The commands that never wait for a unit of the degree. *)
ArranqueYParada ==
  {"INICIAR_PROCESO", "INICIAR_PLANIFICACION", "DETENER_PLANIFICACION"}

TodosLosComandos == SinFinalizar \cup {"FINALIZAR_PROCESO"}

(* Reasons that leave EXEC for good: no WAIT or SIGNAL that goes on. *)
MotivosQueReplanifican == {"SUCCESS", "INTERRUPT_QUANTUM", "IO"}

(* Every reason but the quantum: it ends, blocks, or maybe goes on in EXEC. *)
MotivosDeVida == {"SUCCESS", "IO", "COP_WAIT", "COP_SIGNAL"}

=============================================================================
