------------------------------ MODULE Recursos ------------------------------
(***************************************************************************)
(* The kernel's management of shared resources (kernel_recursos.c and the  *)
(* WAIT / SIGNAL / release paths of kernel_planificadores.c).              *)
(*                                                                         *)
(* Each resource keeps a signed counter `instancias` and a FIFO list of    *)
(* blocked processes; each PCB keeps a dictionary with the units it uses   *)
(* and the name of the resource that blocks it.  Three threads touch that  *)
(* state: the short-term scheduler (WAIT, SIGNAL and the other reasons for *)
(* leaving EXEC), the console (FINALIZAR_PROCESO) and the thread that      *)
(* frees the processes in EXIT, which gives units back one SIGNAL at a     *)
(* time.  Every action below is one critical section of `mutex_recurso`,   *)
(* or of the planning semaphores that keep FINALIZAR_PROCESO apart from    *)
(* the others; module Planificacion models those semaphores one by one.    *)
(***************************************************************************)
EXTENDS Integers, Sequences, FiniteSets

CONSTANTS
  Pids,              \* process identifiers
  NombresRecursos,   \* the resource names of the configuration (RECURSOS)
  Instancias,        \* the units of each one (INSTANCIAS_RECURSOS)
  Ninguno,           \* no process, or the empty resource name ""
  MaxUsos,           \* bound: units of one resource a process may use
  MaxCreadas         \* bound: units of one resource created by SIGNAL

ASSUME RecursosAssumption ==
  /\ IsFiniteSet(Pids)
  /\ Instancias \in [NombresRecursos -> Nat]
  /\ Ninguno \notin Pids
  /\ Ninguno \notin NombresRecursos
  /\ MaxUsos \in Nat
  /\ MaxCreadas \in Nat

VARIABLES
  estado,        \* pcb->estado, extended with "FUERA" and "LIBERADO"
  usados,        \* pcb->diccionario_recursos_usados (0: no entry)
  causa,         \* pcb->nombre_recurso_causa_bloqueo
  instancias,    \* recurso->instancias
  bloqueados,    \* recurso->lista_procesos_bloqueados
  aFinalizar,    \* diccionario_procesos_a_finalizar
  colaExit,      \* the list of estado_exit
  liberando,     \* the PCB held by the thread liberar_procesos_exit
  creadas        \* history: units made by SIGNALs of processes that held none

vars == <<estado, usados, causa, instancias, bloqueados, aFinalizar,
          colaExit, liberando, creadas>>

(* "FUERA": not admitted yet (no PCB, or still in NEW); "LIBERADO": PCB freed. *)
Estados == {"FUERA", "READY", "EXEC", "BLOCKED", "EXIT", "LIBERADO"}

TypeOK ==
  /\ estado \in [Pids -> Estados]
  /\ usados \in [Pids -> [NombresRecursos -> 0..MaxUsos]]
  /\ causa \in [Pids -> NombresRecursos \cup {Ninguno}]
  /\ instancias \in [NombresRecursos -> Int]
  /\ bloqueados \in [NombresRecursos -> Seq(Pids)]
  /\ aFinalizar \in SUBSET Pids
  /\ colaExit \in Seq(Pids)
  /\ liberando \in Pids \cup {Ninguno}
  /\ creadas \in [NombresRecursos -> Nat]

Init ==
  /\ estado = [p \in Pids |-> "FUERA"]
  /\ usados = [p \in Pids |-> [r \in NombresRecursos |-> 0]]
  /\ causa = [p \in Pids |-> Ninguno]
  /\ instancias = Instancias
  /\ bloqueados = [r \in NombresRecursos |-> <<>>]
  /\ aFinalizar = {}
  /\ colaExit = <<>>
  /\ liberando = Ninguno
  /\ creadas = [r \in NombresRecursos |-> 0]

-----------------------------------------------------------------------------
(* Helpers.                                                                *)

(* The list s without its i-th element. *)
SinIndice(s, i) ==
  [j \in 1..(Len(s) - 1) |-> IF j < i THEN s[j] ELSE s[j + 1]]

(* The evicted process p is handled as what the CPU says: console did not  *)
(* kill it meanwhile.                                                      *)
EnManejo(p) == estado[p] = "EXEC" /\ p \notin aFinalizar

mut_bloquear_tarde(inst) == inst < -1

recurso_debe_bloquear_proceso(inst) == inst < 0

recurso_debe_desbloquear_proceso(lista, inst) == lista # <<>> /\ inst = 0

(* Wrong variants (mut_...) of the definitions they precede: none of them  *)
(* is used by the specification; the runs are expected to refute each one. *)

(* pcb_usa_recurso is not asked. *)
mut_signal_sin_preguntar(p, r) ==
  /\ instancias' = [instancias EXCEPT ![r] = @ + 1]
  /\ usados' = [usados EXCEPT ![p][r] = @ - 1]
  /\ UNCHANGED <<creadas, bloqueados, causa, estado>>

(* The process that blocked last is the one woken. *)
mut_signal_al_ultimo(p, r) ==
  LET inst == instancias[r] + 1
      n == Len(bloqueados[r])
  IN
  /\ instancias' = [instancias EXCEPT ![r] = inst]
  /\ IF usados[p][r] > 0
       THEN usados' = [usados EXCEPT ![p][r] = @ - 1] /\ UNCHANGED creadas
       ELSE creadas' = [creadas EXCEPT ![r] = @ + 1] /\ UNCHANGED usados
  /\ IF recurso_debe_desbloquear_proceso(bloqueados[r], inst)
       THEN /\ bloqueados' = [bloqueados EXCEPT ![r] = SubSeq(@, 1, n - 1)]
            /\ causa' = [causa EXCEPT ![bloqueados[r][n]] = Ninguno]
            /\ estado' = [estado EXCEPT ![bloqueados[r][n]] = "READY"]
       ELSE UNCHANGED <<bloqueados, causa, estado>>

(* One SIGNAL of process p on resource r: the counter goes up, p gives up  *)
(* a unit if it uses one (otherwise the SIGNAL creates a unit), and the    *)
(* first blocked process goes to READY if the test above asks for it.      *)
ejecutar_instruccion_signal(p, r) ==
  LET inst == instancias[r] + 1
      primero == Head(bloqueados[r])
  IN
  /\ instancias' = [instancias EXCEPT ![r] = inst]
  /\ IF usados[p][r] > 0
       THEN /\ usados' = [usados EXCEPT ![p][r] = @ - 1]
            /\ UNCHANGED creadas
       ELSE /\ creadas' = [creadas EXCEPT ![r] = @ + 1]
            /\ UNCHANGED usados
  /\ IF recurso_debe_desbloquear_proceso(bloqueados[r], inst)
       THEN /\ bloqueados' = [bloqueados EXCEPT ![r] = Tail(@)]
            /\ causa' = [causa EXCEPT ![primero] = Ninguno]
            /\ estado' = [estado EXCEPT ![primero] = "READY"]
       ELSE UNCHANGED <<bloqueados, causa, estado>>

proceso_a_exit(p) ==
  /\ estado' = [estado EXCEPT ![p] = "EXIT"]
  /\ colaExit' = Append(colaExit, p)

-----------------------------------------------------------------------------
(* The long-term and short-term schedulers.                                *)

(* NEW to READY once memory has confirmed the process. *)
Admitir(p) ==
  /\ estado[p] = "FUERA"
  /\ estado' = [estado EXCEPT ![p] = "READY"]
  /\ UNCHANGED <<usados, causa, instancias, bloqueados, aFinalizar, colaExit,
                 liberando, creadas>>

(* READY to EXEC; there is one CPU and one thread that dispatches to it. *)
Despachar(p) ==
  /\ estado[p] = "READY"
  /\ \A q \in Pids : estado[q] # "EXEC"
  /\ estado' = [estado EXCEPT ![p] = "EXEC"]
  /\ UNCHANGED <<usados, causa, instancias, bloqueados, aFinalizar, colaExit,
                 liberando, creadas>>

(* End of quantum: EXEC to READY. *)
FinQuantum(p) ==
  /\ EnManejo(p)
  /\ estado' = [estado EXCEPT ![p] = "READY"]
  /\ UNCHANGED <<usados, causa, instancias, bloqueados, aFinalizar, colaExit,
                 liberando, creadas>>

(* A WAIT that blocks is not recorded in the PCB. *)
mut_wait_sin_anotar(p, r) ==
  LET inst == instancias[r] - 1 IN
  /\ EnManejo(p)
  /\ usados[p][r] < MaxUsos
  /\ instancias' = [instancias EXCEPT ![r] = inst]
  /\ IF recurso_debe_bloquear_proceso(inst)
       THEN /\ bloqueados' = [bloqueados EXCEPT ![r] = Append(@, p)]
            /\ causa' = [causa EXCEPT ![p] = r]
            /\ estado' = [estado EXCEPT ![p] = "BLOCKED"]
            /\ UNCHANGED usados
       ELSE /\ usados' = [usados EXCEPT ![p][r] = @ + 1]
            /\ UNCHANGED <<bloqueados, causa, estado>>
  /\ UNCHANGED <<aFinalizar, colaExit, liberando, creadas>>

(* WAIT on an existing resource.  A process that is not blocked stays in   *)
(* EXEC: it is dispatched again at once (or FinQuantum follows).           *)
EjecutarWait(p, r) ==
  LET inst == instancias[r] - 1 IN
  /\ EnManejo(p)
  /\ usados[p][r] < MaxUsos
  /\ instancias' = [instancias EXCEPT ![r] = inst]
  /\ usados' = [usados EXCEPT ![p][r] = @ + 1]
  /\ IF recurso_debe_bloquear_proceso(inst)
       THEN /\ bloqueados' = [bloqueados EXCEPT ![r] = Append(@, p)]
            /\ causa' = [causa EXCEPT ![p] = r]
            /\ estado' = [estado EXCEPT ![p] = "BLOCKED"]
       ELSE UNCHANGED <<bloqueados, causa, estado>>
  /\ UNCHANGED <<aFinalizar, colaExit, liberando, creadas>>

(* SIGNAL on an existing resource: p goes on executing. *)
EjecutarSignal(p, r) ==
  /\ EnManejo(p)
  /\ usados[p][r] > 0 \/ creadas[r] < MaxCreadas
  /\ ejecutar_instruccion_signal(p, r)
  /\ UNCHANGED <<aFinalizar, colaExit, liberando>>

(* An accepted I/O request blocks the process for no resource ... *)
BloquearPorIO(p) ==
  /\ EnManejo(p)
  /\ estado' = [estado EXCEPT ![p] = "BLOCKED"]
  /\ UNCHANGED <<usados, causa, instancias, bloqueados, aFinalizar, colaExit,
                 liberando, creadas>>

(* ... until the interface answers. *)
FinIO(p) ==
  /\ estado[p] = "BLOCKED"
  /\ causa[p] = Ninguno
  /\ estado' = [estado EXCEPT ![p] = "READY"]
  /\ UNCHANGED <<usados, causa, instancias, bloqueados, aFinalizar, colaExit,
                 liberando, creadas>>

(* EXEC to EXIT: the program ended, ran out of memory, named a resource or *)
(* an interface that does not exist, or was killed while it executed.      *)
SalirDeExec(p) ==
  /\ estado[p] = "EXEC"
  /\ proceso_a_exit(p)
  /\ UNCHANGED <<usados, causa, instancias, bloqueados, aFinalizar,
                 liberando, creadas>>

-----------------------------------------------------------------------------
(* FINALIZAR_PROCESO from the console, with the planning stopped.          *)

FinalizarListo(p) ==
  /\ estado[p] = "READY"
  /\ aFinalizar' = aFinalizar \cup {p}
  /\ proceso_a_exit(p)
  /\ UNCHANGED <<usados, causa, instancias, bloqueados, liberando, creadas>>

(* The process stays in the list of the resource. *)
mut_finalizar_sin_desencolar(p) ==
  /\ estado[p] = "BLOCKED"
  /\ aFinalizar' = aFinalizar \cup {p}
  /\ proceso_a_exit(p)
  /\ UNCHANGED <<usados, causa, instancias, bloqueados, liberando, creadas>>

(* A process blocked by a resource also leaves that resource's list; its   *)
(* causa stays, and the unit it was waiting for still counts as used.      *)
FinalizarBloqueado(p) ==
  /\ estado[p] = "BLOCKED"
  /\ aFinalizar' = aFinalizar \cup {p}
  /\ proceso_a_exit(p)
  /\ \/ /\ causa[p] = Ninguno
        /\ UNCHANGED bloqueados
     \/ \E r \in NombresRecursos : \E i \in DOMAIN bloqueados[r] :
          /\ causa[p] = r
          /\ bloqueados[r][i] = p
          /\ bloqueados' = [bloqueados EXCEPT ![r] = SinIndice(@, i)]
  /\ UNCHANGED <<usados, causa, instancias, liberando, creadas>>

(* The CPU is interrupted; whatever evicts p, it will go to EXIT. *)
FinalizarEnExec(p) ==
  /\ EnManejo(p)
  /\ aFinalizar' = aFinalizar \cup {p}
  /\ UNCHANGED <<estado, usados, causa, instancias, bloqueados, colaExit,
                 liberando, creadas>>

-----------------------------------------------------------------------------
(* The thread liberar_procesos_exit.                                       *)

(* The first process of EXIT is looked at and not removed. *)
mut_exit_sin_sacar ==
  /\ liberando = Ninguno
  /\ colaExit # <<>>
  /\ liberando' = Head(colaExit)
  /\ UNCHANGED <<estado, usados, causa, instancias, bloqueados, aFinalizar,
                 colaExit, creadas>>

TomarDeExit ==
  /\ liberando = Ninguno
  /\ colaExit # <<>>
  /\ liberando' = Head(colaExit)
  /\ colaExit' = Tail(colaExit)
  /\ UNCHANGED <<estado, usados, causa, instancias, bloqueados, aFinalizar,
                 creadas>>

(* One iteration of liberar_recurso, for any resource still in the         *)
(* dictionary of the PCB: the order of dictionary_keys is left open.       *)
LiberarInstancia(p, r) ==
  /\ liberando = p
  /\ usados[p][r] > 0
  /\ ejecutar_instruccion_signal(p, r)
  /\ UNCHANGED <<aFinalizar, colaExit, liberando>>

(* The PCB is freed without liberar_recursos_usados. *)
mut_liberar_con_deuda(p) ==
  /\ liberando = p
  /\ estado' = [estado EXCEPT ![p] = "LIBERADO"]
  /\ aFinalizar' = aFinalizar \ {p}
  /\ liberando' = Ninguno
  /\ UNCHANGED <<usados, causa, instancias, bloqueados, colaExit, creadas>>

LiberarPCB(p) ==
  /\ liberando = p
  /\ \A r \in NombresRecursos : usados[p][r] = 0
  /\ estado' = [estado EXCEPT ![p] = "LIBERADO"]
  /\ aFinalizar' = aFinalizar \ {p}
  /\ liberando' = Ninguno
  /\ UNCHANGED <<usados, causa, instancias, bloqueados, colaExit, creadas>>

-----------------------------------------------------------------------------

Next ==
  \/ TomarDeExit
  \/ \E p \in Pids :
       \/ Admitir(p) \/ Despachar(p) \/ FinQuantum(p)
       \/ BloquearPorIO(p) \/ FinIO(p) \/ SalirDeExec(p)
       \/ FinalizarListo(p) \/ FinalizarBloqueado(p) \/ FinalizarEnExec(p)
       \/ LiberarPCB(p)
  \/ \E p \in Pids, r \in NombresRecursos :
       EjecutarWait(p, r) \/ EjecutarSignal(p, r) \/ LiberarInstancia(p, r)

Spec == Init /\ [][Next]_vars

-----------------------------------------------------------------------------
(* What the counters and the lists mean.                                   *)

(* The units of r that the PCBs record as used, one pair per unit.         *)
Tomadas(r) == {u \in Pids \X (1..MaxUsos) : u[2] <= usados[u[1]][r]}

(* The processes whose last WAIT on r was never granted: the blocked ones, *)
(* and those killed while blocked that still have to give that unit back.  *)
Esperando(r) == {p \in Pids : causa[p] = r /\ usados[p][r] > 0}

(* The units of r that some process really holds. *)
Concedidas(r) ==
  Tomadas(r) \ {<<p, usados[p][r]>> : p \in Esperando(r)}

Capacidad(r) == Instancias[r] + creadas[r]

(* The accounting of ejecutar_instruccion_wait and _signal: the counter of *)
(* a resource and the dictionaries of all PCBs always add up to the units  *)
(* of the configuration plus those created by SIGNALs without a WAIT.      *)
Conservacion ==
  \A r \in NombresRecursos :
    instancias[r] + Cardinality(Tomadas(r)) = Capacidad(r)

(* Mutual exclusion, what WAIT and SIGNAL are for: the processes never     *)
(* hold more units of a resource than it has, even when blocked processes  *)
(* are killed and their units come back while others wait.                 *)
Exclusion ==
  \A r \in NombresRecursos : Cardinality(Concedidas(r)) <= Capacidad(r)

(* Every list holds blocked processes of its resource, once each, and they *)
(* count the unit they wait for.                                           *)
ListasCoherentes ==
  \A r \in NombresRecursos : \A i \in DOMAIN bloqueados[r] :
    LET p == bloqueados[r][i] IN
    /\ estado[p] = "BLOCKED"
    /\ causa[p] = r
    /\ usados[p][r] > 0
    /\ \A j \in DOMAIN bloqueados[r] : bloqueados[r][j] = p => i = j

(* A process that a resource blocks can be found in the resource's list. *)
BloqueadosEnLista ==
  \A p \in Pids : estado[p] = "BLOCKED" /\ causa[p] # Ninguno =>
    \E i \in DOMAIN bloqueados[causa[p]] : bloqueados[causa[p]][i] = p

(* A process that can run waits for no resource. *)
SinCausa ==
  \A p \in Pids : estado[p] \in {"FUERA", "READY", "EXEC"} => causa[p] = Ninguno

(* The three records of a blocked process agree (its state, its cause and  *)
(* the list of that resource), so that a SIGNAL wakes a live process and a *)
(* kill finds every list it has to clean: nothing in EXIT, freed or about  *)
(* to run is left behind among the blocked.                                *)
ColasCoherentes == ListasCoherentes /\ BloqueadosEnLista /\ SinCausa

(* Processes blocked by the same resource are woken in the order they      *)
(* blocked: whoever is ahead of a process that leaves the list alive has   *)
(* left it too, and those that stay keep their order.                      *)
SinAdelantamiento ==
  [][\A r \in NombresRecursos : \A i, j \in DOMAIN bloqueados[r] :
       LET p == bloqueados[r][i]
           q == bloqueados[r][j]
       IN  i < j =>
           \A k \in DOMAIN bloqueados'[r] : bloqueados'[r][k] = p =>
             \/ estado'[q] = "EXIT"
             \/ \E l \in DOMAIN bloqueados'[r] : k < l /\ bloqueados'[r][l] = q
    ]_vars

(* What a step may do to p once it is in EXIT. *)
PasoDeSalida(p) ==
  estado[p] \in {"EXIT", "LIBERADO"} =>
    /\ estado'[p] \in {"EXIT", "LIBERADO"}
    /\ \A r \in NombresRecursos : usados'[p][r] <= usados[p][r]
    /\ estado'[p] = "LIBERADO" => \A r \in NombresRecursos : usados'[p][r] = 0

(* A process gives back everything before its PCB is freed, and a freed or *)
(* exiting process never runs again: once it is in EXIT its units only go  *)
(* down, and it leaves EXIT only with none.                                *)
SalidaOrdenada == [][\A p \in Pids : PasoDeSalida(p)]_vars

(* What makes Exclusion inductive: a counter is never further below zero   *)
(* than the processes whose WAIT is pending.                               *)
DeudaCubierta ==
  \A r \in NombresRecursos : instancias[r] + Cardinality(Esperando(r)) >= 0

(* What makes ColasCoherentes inductive: the processes queued for, or held *)
(* by, the thread that frees them are in EXIT, each of them once.          *)
SalidaCoherente ==
  /\ \A i \in DOMAIN colaExit :
       /\ estado[colaExit[i]] = "EXIT"
       /\ colaExit[i] # liberando
       /\ \A j \in DOMAIN colaExit : colaExit[i] = colaExit[j] => i = j
  /\ liberando # Ninguno => estado[liberando] = "EXIT"

(* The inductive invariant of the proofs. *)
InvInductivo ==
  TypeOK /\ Conservacion /\ DeudaCubierta /\ ColasCoherentes /\ SalidaCoherente

-----------------------------------------------------------------------------
(* What the documents say and the code does not do.                        *)

(* Enunciado, page 11: a SIGNAL, where it applies, unblocks the first      *)
(* process of the list.  So when nobody is being freed, processes wait for *)
(* r only if all its units are held.  The test of SIGNAL looks for a       *)
(* counter of exactly 0, so with two processes waiting it wakes nobody.    *)
NadieEsperaConInstanciasLibres ==
  (\A p \in Pids : estado[p] # "EXIT") =>
    \A r \in NombresRecursos :
      bloqueados[r] # <<>> => Cardinality(Concedidas(r)) = Capacidad(r)

(* Comment of recurso_debe_desbloquear_proceso: if the counter reaches 0   *)
(* in a SIGNAL, the list of blocked processes cannot be empty.             *)
CeroImplicaBloqueados ==
  [][\A r \in NombresRecursos :
       instancias'[r] = instancias[r] + 1 /\ instancias'[r] = 0
         => bloqueados[r] # <<>>]_vars

=============================================================================
