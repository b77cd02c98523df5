----------------------------- MODULE CicloDeVida -----------------------------
(***************************************************************************)
(* What the kernel promises about one process: the diagram of states that  *)
(* t_nombre_estado (kernel_gestor.h) names, with a single CPU.  Module     *)
(* Planificacion, where four kinds of threads, nine semaphores and five    *)
(* lists bring these moves about, is checked to implement it.              *)
(***************************************************************************)
CONSTANT Pids

VARIABLE fase   \* the state of each process

Vivas == {"NEW", "READY", "EXEC", "BLOCKED"}

Fases == Vivas \cup {"SIN_CREAR", "EXIT", "LIBERADO"}

TypeOK == fase \in [Pids -> Fases]

Init == fase = [p \in Pids |-> "SIN_CREAR"]

Pasar(p, desde, hasta) ==
  /\ fase[p] \in desde
  /\ fase' = [fase EXCEPT ![p] = hasta]

Crear(p)     == Pasar(p, {"SIN_CREAR"}, "NEW")
Admitir(p)   == Pasar(p, {"NEW"}, "READY")
Despachar(p) == /\ \A q \in Pids : fase[q] # "EXEC"
                /\ Pasar(p, {"READY"}, "EXEC")
Replanificar(p) == Pasar(p, {"EXEC"}, "READY")
Bloquear(p)     == Pasar(p, {"EXEC"}, "BLOCKED")
Desbloquear(p)  == Pasar(p, {"BLOCKED"}, "READY")
Salir(p)        == Pasar(p, Vivas, "EXIT")
Liberar(p)      == Pasar(p, {"EXIT"}, "LIBERADO")

Next ==
  \E p \in Pids :
    \/ Crear(p) \/ Admitir(p) \/ Despachar(p) \/ Replanificar(p)
    \/ Bloquear(p) \/ Desbloquear(p) \/ Salir(p) \/ Liberar(p)

Spec == Init /\ [][Next]_fase

=============================================================================
