---------------------------- MODULE Planificacion ----------------------------
(***************************************************************************)
(* The planners of the kernel (kernel_planificadores.c, kernel_estados.c)  *)
(* and the console that stops, starts and kills (consola.c), thread by     *)
(* thread and semaphore by semaphore, for the algorithms FIFO and RR.      *)
(*                                                                         *)
(* Threads: "consola" (the interactive console), "largo" (NEW to READY),   *)
(* "corto" (READY to EXEC and manejar_motivo_desalojo), "exit"             *)
(* (liberar_procesos_exit) and the threads of the interfaces, of which     *)
(* only the end of an I/O matters here.  linea[h] is where thread h stands: *)
(* mostly the name of the semaphore it is about to wait for.               *)
(*                                                                         *)
(* A wait is a step of its own; a list operation and the sem_post that     *)
(* follows it are one step, as is a critical section that waits for        *)
(* nothing else inside.  Counters of resources are in module Recursos:     *)
(* here a WAIT may or may not block and a SIGNAL may or may not wake.      *)
(***************************************************************************)
EXTENDS Integers, Sequences, FiniteSets, SequencesExt

CONSTANTS
  Pids,          \* the processes INICIAR_PROCESO creates
  Ninguno,       \* no process
  GradoInicial,  \* GRADO_MULTIPROGRAMACION of the configuration
  Grados,        \* the values given to MULTIPROGRAMACION
  Comandos,      \* the console commands in use
  Motivos,       \* the reasons why the CPU returns a process
  MaxPosts       \* bound: posts of exec_to by one process that goes on

ASSUME PlanificacionAssumption ==
  /\ IsFiniteSet(Pids)
  /\ Ninguno \notin Pids
  /\ GradoInicial \in Nat
  /\ Grados \subseteq Nat
  /\ MaxPosts \in Nat

Colas == {"NEW", "READY", "EXEC", "BLOCKED", "EXIT"}

(* The sem_estado_planificacion_* semaphores. *)
Transiciones ==
  {"new_to_ready", "ready_to_exec", "blocked_to_ready_recurso",
   "blocked_to_ready_interfaz", "exec_to_exec_or_ready_or_blocked"}

(* The order in which estado_rastrear_y_desencolar_pcb_por_pid looks. *)
Rastreo == <<"NEW", "READY", "BLOCKED", "EXEC">>

VARIABLES
  estado,       \* pcb->estado, with "SIN_CREAR" and "LIBERADO"
  cola,         \* lista_procesos of each t_estado
  semEstado,    \* sem_estado of each t_estado
  plan,         \* the semaphores of Transiciones
  activa,       \* estado_planificacion = ACTIVA
  grado,        \* GRADO_MULTIPROGRAMACION
  semGrado,     \* sem_grado_multiprogramacion
  aFinalizar,   \* diccionario_procesos_a_finalizar
  porRecurso,   \* the processes in the list of some resource
  conRecursos,  \* the processes that use some unit of a resource
  linea,        \* where each thread stands
  pcb,          \* the process each thread works on
  motivo,       \* corto: motivo_desalojo
  marcos,       \* corto: nested calls of manejar_motivo_desalojo
  pendientes,   \* consola: semaphores detener_planificacion has yet to take
  paso,         \* consola: index in Rastreo
  cuantos,      \* consola: waits left of a reduction of the degree
  admitidos,    \* history: processes that took a unit of the degree
  deMas         \* history: units given back by processes that took none

colas == <<estado, cola, semEstado>>
grados == <<grado, semGrado, admitidos, deMas>>
recursos == <<porRecurso, conRecursos>>
hiloCorto == <<motivo, marcos>>
hiloConsola == <<pendientes, paso, cuantos>>
vars == <<colas, plan, activa, grados, aFinalizar, recursos, linea, pcb,
          hiloCorto, hiloConsola>>

Hilos == {"consola", "largo", "corto", "exit"}

(* iniciar_planificadores starts the planning before there is a console. *)
Init ==
  /\ estado = [p \in Pids |-> "SIN_CREAR"]
  /\ cola = [c \in Colas |-> <<>>]
  /\ semEstado = [c \in Colas |-> 0]
  /\ plan = [t \in Transiciones |-> 1]
  /\ activa = TRUE
  /\ grado = GradoInicial
  /\ semGrado = GradoInicial
  /\ aFinalizar = {}
  /\ porRecurso = {}
  /\ conRecursos = {}
  /\ linea = [h \in Hilos |->
                CASE h = "consola" -> "lista"
                  [] h = "largo"   -> "control"
                  [] h = "corto"   -> "READY"
                  [] h = "exit"    -> "EXIT"]
  /\ pcb = [h \in Hilos |-> Ninguno]
  /\ motivo = "SUCCESS"
  /\ marcos = 0
  /\ pendientes = {}
  /\ paso = 1
  /\ cuantos = 0
  /\ admitidos = {}
  /\ deMas = 0

-----------------------------------------------------------------------------
(* Helpers.                                                                *)

En(h, l) == linea[h] = l

Ir(h, l) == linea' = [linea EXCEPT ![h] = l]

Contiene(s, p) == \E i \in DOMAIN s : s[i] = p

(* list_remove_element: the process is taken out of the list, if there. *)
Sin(s, p) ==
  IF Contiene(s, p) THEN RemoveAt(s, CHOOSE i \in DOMAIN s : s[i] = p) ELSE s

(* proceso_a_ready, _exec, _blocked and _exit: state, list and post. *)
proceso_a(p, c) ==
  /\ estado' = [estado EXCEPT ![p] = c]
  /\ cola' = [cola EXCEPT ![c] = Append(@, p)]
  /\ semEstado' = [semEstado EXCEPT ![c] = @ + 1]

(* The same for a process taken from the list `de`, wherever it is in it;  *)
(* the token of that list is taken too when the code waits for it here.    *)
mover(p, de, c, token) ==
  /\ semEstado[de] >= token
  /\ estado' = [estado EXCEPT ![p] = c]
  /\ cola' = [cola EXCEPT ![de] = Sin(@, p), ![c] = Append(@, p)]
  /\ semEstado' = [semEstado EXCEPT ![de] = @ - token, ![c] = @ + 1]

(* The end of ejecutar_instruccion_signal: nobody wakes, or one process    *)
(* blocked by a resource goes to READY.                                    *)
desbloquear_si_corresponde ==
  \/ UNCHANGED <<colas, porRecurso>>
  \/ \E w \in porRecurso :
       /\ mover(w, "BLOCKED", "READY", 1)
       /\ porRecurso' = porRecurso \ {w}

(* The mutex of diccionario_procesos_a_finalizar is held while             *)
(* manejar_motivo_desalojo waits for the semaphore of EXEC.                *)
MutexAFinalizarLibre == linea["corto"] # "EXEC"

postear_todas == [t \in Transiciones |-> plan[t] + 1]

-----------------------------------------------------------------------------
(* The console: processes, degree, start and stop.                         *)

iniciar_proceso(p) ==
  /\ "INICIAR_PROCESO" \in Comandos
  /\ En("consola", "lista")
  /\ estado[p] = "SIN_CREAR"
  /\ proceso_a(p, "NEW")
  /\ UNCHANGED <<plan, activa, grados, aFinalizar, recursos, linea, pcb,
                 hiloCorto, hiloConsola>>

iniciar_planificacion ==
  /\ "INICIAR_PLANIFICACION" \in Comandos
  /\ En("consola", "lista")
  /\ ~activa
  /\ activa' = TRUE
  /\ plan' = postear_todas
  /\ UNCHANGED <<colas, grados, aFinalizar, recursos, linea, pcb, hiloCorto,
                 hiloConsola>>

(* DETENER_PLANIFICACION (p is Ninguno) or the first call of               *)
(* finalizar_proceso (p is the process to kill).                           *)
detener_planificacion(p) ==
  /\ En("consola", "lista")
  /\ activa \/ p # Ninguno
  /\ activa' = FALSE
  /\ pendientes' = IF activa THEN Transiciones ELSE {}
  /\ Ir("consola", "deteniendo")
  /\ pcb' = [pcb EXCEPT !["consola"] = p]
  /\ UNCHANGED <<colas, plan, grados, aFinalizar, recursos, hiloCorto, paso,
                 cuantos>>

DETENER_PLANIFICACION ==
  "DETENER_PLANIFICACION" \in Comandos /\ detener_planificacion(Ninguno)

FINALIZAR_PROCESO(p) ==
  "FINALIZAR_PROCESO" \in Comandos /\ detener_planificacion(p)

(* One of the five helper threads gets its semaphore ... *)
TomarTransicion(t) ==
  /\ En("consola", "deteniendo")
  /\ t \in pendientes
  /\ plan[t] > 0
  /\ plan' = [plan EXCEPT ![t] = @ - 1]
  /\ pendientes' = pendientes \ {t}
  /\ UNCHANGED <<colas, activa, grados, aFinalizar, recursos, linea, pcb,
                 hiloCorto, paso, cuantos>>

(* Wrong variants (mut_...) of the definitions they precede: none of them  *)
(* is used by the specification; the runs are expected to refute each one. *)

(* The helper threads are not joined. *)
mut_detener_sin_join ==
  /\ En("consola", "deteniendo")
  /\ Ir("consola", IF pcb["consola"] = Ninguno THEN "lista" ELSE "mira")
  /\ paso' = 1
  /\ UNCHANGED <<colas, plan, activa, grados, aFinalizar, recursos, pcb,
                 hiloCorto, pendientes, cuantos>>

(* ... and the console goes on when all of them have been joined. *)
FinDetener ==
  /\ En("consola", "deteniendo")
  /\ pendientes = {}
  /\ Ir("consola", IF pcb["consola"] = Ninguno THEN "lista" ELSE "mira")
  /\ paso' = 1
  /\ UNCHANGED <<colas, plan, activa, grados, aFinalizar, recursos, pcb,
                 hiloCorto, pendientes, cuantos>>

(* cambiar_grado_multiprogramacion_a: posts at once, or waits one by one   *)
(* with sem_control_cambio_grado_multiprogramacion taken.                  *)
cambiar_grado_multiprogramacion_a(n) ==
  /\ "MULTIPROGRAMACION" \in Comandos
  /\ En("consola", "lista")
  /\ n # grado
  /\ grado' = n
  /\ \/ /\ n > grado
        /\ semGrado' = semGrado + (n - grado)
        /\ UNCHANGED <<linea, cuantos>>
     \/ /\ n < grado
        /\ cuantos' = grado - n
        /\ Ir("consola", "reduciendo")
        /\ UNCHANGED semGrado
  /\ UNCHANGED <<colas, plan, activa, aFinalizar, recursos, pcb, hiloCorto,
                 pendientes, paso, admitidos, deMas>>

(* One wait too many. *)
mut_reducir_de_mas ==
  /\ En("consola", "reduciendo")
  /\ semGrado > 0
  /\ semGrado' = semGrado - 1
  /\ cuantos' = cuantos - 1
  /\ IF cuantos = 0 THEN Ir("consola", "lista") ELSE UNCHANGED linea
  /\ UNCHANGED <<colas, plan, activa, aFinalizar, recursos, pcb, hiloCorto,
                 pendientes, paso, grado, admitidos, deMas>>

ReducirGrado ==
  /\ En("consola", "reduciendo")
  /\ semGrado > 0
  /\ semGrado' = semGrado - 1
  /\ cuantos' = cuantos - 1
  /\ IF cuantos = 1 THEN Ir("consola", "lista") ELSE UNCHANGED linea
  /\ UNCHANGED <<colas, plan, activa, aFinalizar, recursos, pcb, hiloCorto,
                 pendientes, paso, grado, admitidos, deMas>>

-----------------------------------------------------------------------------
(* The console: the rest of finalizar_proceso.                             *)

(* The next list to search, or the end of the search. *)
SeguirRastreo ==
  IF paso < Len(Rastreo)
    THEN paso' = paso + 1 /\ Ir("consola", "mira")
    ELSE Ir("consola", "reanuda") /\ UNCHANGED paso

(* estado_contiene_pcbs, without waiting. *)
MirarCola ==
  /\ En("consola", "mira")
  /\ IF cola[Rastreo[paso]] # <<>>
       THEN Ir("consola", "espera") /\ UNCHANGED paso
       ELSE SeguirRastreo
  /\ UNCHANGED <<colas, plan, activa, grados, aFinalizar, recursos, pcb,
                 hiloCorto, pendientes, cuantos>>

(* The token of a process that is found goes back too. *)
mut_desencolar_y_postear ==
  LET c == Rastreo[paso]
      p == pcb["consola"]
  IN
  /\ En("consola", "espera")
  /\ semEstado[c] > 0
  /\ IF Contiene(cola[c], p)
       THEN /\ cola' = [cola EXCEPT ![c] = Sin(@, p)]
            /\ Ir("consola", "agrega")
            /\ UNCHANGED paso
       ELSE SeguirRastreo /\ UNCHANGED cola
  /\ UNCHANGED <<estado, semEstado, plan, activa, grados, aFinalizar, recursos,
                 pcb, hiloCorto, pendientes, cuantos>>

(* The process is found but stays in the list. *)
mut_rastrear_sin_desencolar ==
  LET c == Rastreo[paso]
      p == pcb["consola"]
  IN
  /\ En("consola", "espera")
  /\ semEstado[c] > 0
  /\ IF Contiene(cola[c], p)
       THEN Ir("consola", "agrega") /\ UNCHANGED paso
       ELSE SeguirRastreo
  /\ UNCHANGED <<colas, plan, activa, grados, aFinalizar, recursos, pcb,
                 hiloCorto, pendientes, cuantos>>

(* sem_wait of the list; the token goes back when the pid is not there. *)
DesencolarPorPid ==
  LET c == Rastreo[paso]
      p == pcb["consola"]
  IN
  /\ En("consola", "espera")
  /\ semEstado[c] > 0
  /\ IF Contiene(cola[c], p)
       THEN /\ cola' = [cola EXCEPT ![c] = Sin(@, p)]
            /\ semEstado' = [semEstado EXCEPT ![c] = @ - 1]
            /\ Ir("consola", "agrega")
            /\ UNCHANGED paso
       ELSE SeguirRastreo /\ UNCHANGED <<cola, semEstado>>
  /\ UNCHANGED <<estado, plan, activa, grados, aFinalizar, recursos, pcb,
                 hiloCorto, pendientes, cuantos>>

(* The process is pending to finalize.  One in EXEC is left to the short-  *)
(* term planner (an interrupt is sent to the CPU); any other goes to EXIT, *)
(* and out of the list of the resource that blocks it.                     *)
AgregarAFinalizar ==
  LET p == pcb["consola"] IN
  /\ En("consola", "agrega")
  /\ MutexAFinalizarLibre
  /\ aFinalizar' = aFinalizar \cup {p}
  /\ IF estado[p] = "EXEC" THEN UNCHANGED colas ELSE proceso_a(p, "EXIT")
  /\ porRecurso' = porRecurso \ {p}
  /\ Ir("consola", "reanuda")
  /\ UNCHANGED <<plan, activa, grados, conRecursos, pcb, hiloCorto, hiloConsola>>

(* finalizar_proceso always ends with iniciar_planificacion. *)
Reanudar ==
  /\ En("consola", "reanuda")
  /\ activa' = TRUE
  /\ plan' = postear_todas
  /\ Ir("consola", "lista")
  /\ pcb' = [pcb EXCEPT !["consola"] = Ninguno]
  /\ UNCHANGED <<colas, grados, aFinalizar, recursos, hiloCorto, hiloConsola>>

-----------------------------------------------------------------------------
(* planificador_largo_plazo.                                               *)

(* sem_control is free unless the console is reducing the degree. *)
EsperarControl ==
  /\ En("largo", "control")
  /\ ~En("consola", "reduciendo")
  /\ Ir("largo", "grado")
  /\ UNCHANGED <<colas, plan, activa, grados, aFinalizar, recursos, pcb,
                 hiloCorto, hiloConsola>>

EsperarGrado ==
  /\ En("largo", "grado")
  /\ semGrado > 0
  /\ semGrado' = semGrado - 1
  /\ Ir("largo", "NEW")
  /\ UNCHANGED <<colas, plan, activa, grado, admitidos, deMas, aFinalizar,
                 recursos, pcb, hiloCorto, hiloConsola>>

EsperarNew ==
  /\ En("largo", "NEW")
  /\ semEstado["NEW"] > 0
  /\ semEstado' = [semEstado EXCEPT !["NEW"] = @ - 1]
  /\ Ir("largo", "new_to_ready")
  /\ UNCHANGED <<estado, cola, plan, activa, grados, aFinalizar, recursos, pcb,
                 hiloCorto, hiloConsola>>

(* The process is asked of memory while it is in no list. *)
TomarDeNew ==
  LET p == Head(cola["NEW"]) IN
  /\ En("largo", "new_to_ready")
  /\ plan["new_to_ready"] > 0
  /\ cola["NEW"] # <<>>
  /\ plan' = [plan EXCEPT !["new_to_ready"] = @ - 1]
  /\ cola' = [cola EXCEPT !["NEW"] = Tail(@)]
  /\ pcb' = [pcb EXCEPT !["largo"] = p]
  /\ admitidos' = admitidos \cup {p}
  /\ Ir("largo", "memoria")
  /\ UNCHANGED <<estado, semEstado, activa, grado, semGrado, deMas, aFinalizar,
                 recursos, hiloCorto, hiloConsola>>

(* sem_estado_planificacion_new_to_ready is not given back. *)
mut_memoria_sin_post ==
  /\ En("largo", "memoria")
  /\ \E c \in {"READY", "EXIT"} : proceso_a(pcb["largo"], c)
  /\ pcb' = [pcb EXCEPT !["largo"] = Ninguno]
  /\ Ir("largo", "control")
  /\ UNCHANGED <<plan, activa, grados, aFinalizar, recursos, hiloCorto,
                 hiloConsola>>

RespuestaMemoria ==
  /\ En("largo", "memoria")
  /\ \E c \in {"READY", "EXIT"} : proceso_a(pcb["largo"], c)
  /\ plan' = [plan EXCEPT !["new_to_ready"] = @ + 1]
  /\ pcb' = [pcb EXCEPT !["largo"] = Ninguno]
  /\ Ir("largo", "control")
  /\ UNCHANGED <<activa, grados, aFinalizar, recursos, hiloCorto, hiloConsola>>

-----------------------------------------------------------------------------
(* planificador_corto_plazo_fifo and _rr, and manejar_motivo_desalojo.     *)

EsperarReady ==
  /\ En("corto", "READY")
  /\ semEstado["READY"] > 0
  /\ semEstado' = [semEstado EXCEPT !["READY"] = @ - 1]
  /\ Ir("corto", "ready_to_exec")
  /\ UNCHANGED <<estado, cola, plan, activa, grados, aFinalizar, recursos, pcb,
                 hiloCorto, hiloConsola>>

(* The short-term planner does not look at the planning semaphore. *)
mut_despachar_sin_semaforo ==
  LET p == Head(cola["READY"]) IN
  /\ En("corto", "ready_to_exec")
  /\ cola["READY"] # <<>>
  /\ mover(p, "READY", "EXEC", 0)
  /\ pcb' = [pcb EXCEPT !["corto"] = p]
  /\ Ir("corto", "cpu")
  /\ UNCHANGED <<plan, activa, grados, aFinalizar, recursos, hiloCorto,
                 hiloConsola>>

(* sem_estado_planificacion_ready_to_exec is not given back. *)
mut_despachar_sin_devolver ==
  LET p == Head(cola["READY"]) IN
  /\ En("corto", "ready_to_exec")
  /\ plan["ready_to_exec"] > 0
  /\ cola["READY"] # <<>>
  /\ plan' = [plan EXCEPT !["ready_to_exec"] = @ - 1]
  /\ mover(p, "READY", "EXEC", 0)
  /\ pcb' = [pcb EXCEPT !["corto"] = p]
  /\ Ir("corto", "cpu")
  /\ UNCHANGED <<activa, grados, aFinalizar, recursos, hiloCorto, hiloConsola>>

(* The semaphore is given back in the same step: nothing waits inside. *)
Despachar ==
  LET p == Head(cola["READY"]) IN
  /\ En("corto", "ready_to_exec")
  /\ plan["ready_to_exec"] > 0
  /\ cola["READY"] # <<>>
  /\ mover(p, "READY", "EXEC", 0)
  /\ pcb' = [pcb EXCEPT !["corto"] = p]
  /\ Ir("corto", "cpu")
  /\ UNCHANGED <<plan, activa, grados, aFinalizar, recursos, hiloCorto,
                 hiloConsola>>

(* The CPU returns the context by Dispatch. *)
Desalojo(m) ==
  /\ En("corto", "cpu")
  /\ m \in {"COP_WAIT", "COP_SIGNAL"} =>
       plan["exec_to_exec_or_ready_or_blocked"] + marcos < MaxPosts
  /\ motivo' = m
  /\ Ir("corto", "exec_to")
  /\ UNCHANGED <<colas, plan, activa, grados, aFinalizar, recursos, pcb, marcos,
                 hiloConsola>>

EsperarExecTo ==
  LET t == "exec_to_exec_or_ready_or_blocked" IN
  /\ En("corto", "exec_to")
  /\ plan[t] > 0
  /\ plan' = [plan EXCEPT ![t] = @ - 1]
  /\ Ir("corto", "consulta")
  /\ UNCHANGED <<colas, activa, grados, aFinalizar, recursos, pcb, hiloCorto,
                 hiloConsola>>

(* Was it killed while it executed?  Otherwise it must be taken out of     *)
(* EXEC, waiting for its semaphore with the mutex of the dictionary held.  *)
ConsultarPendiente ==
  /\ En("corto", "consulta")
  /\ IF pcb["corto"] \in aFinalizar
       THEN motivo' = "INTERRUPT_USER" /\ Ir("corto", "maneja")
       ELSE UNCHANGED motivo /\ Ir("corto", "EXEC")
  /\ UNCHANGED <<colas, plan, activa, grados, aFinalizar, recursos, pcb, marcos,
                 hiloConsola>>

TomarDeExec ==
  /\ En("corto", "EXEC")
  /\ semEstado["EXEC"] > 0
  /\ cola["EXEC"] # <<>>
  /\ semEstado' = [semEstado EXCEPT !["EXEC"] = @ - 1]
  /\ cola' = [cola EXCEPT !["EXEC"] = Tail(@)]
  /\ pcb' = [pcb EXCEPT !["corto"] = Head(cola["EXEC"])]
  /\ Ir("corto", "maneja")
  /\ UNCHANGED <<estado, plan, activa, grados, aFinalizar, recursos, hiloCorto,
                 hiloConsola>>

(* The end of manejar_motivo_desalojo: every nested call posts once. *)
FinManejo ==
  /\ plan' = [plan EXCEPT !["exec_to_exec_or_ready_or_blocked"] = @ + 1 + marcos]
  /\ marcos' = 0
  /\ pcb' = [pcb EXCEPT !["corto"] = Ninguno]
  /\ Ir("corto", "READY")

(* The process is put in the list of EXIT without a post. *)
mut_salida_sin_post ==
  LET p == pcb["corto"] IN
  /\ En("corto", "maneja")
  /\ motivo # "INTERRUPT_QUANTUM"
  /\ estado' = [estado EXCEPT ![p] = "EXIT"]
  /\ cola' = [cola EXCEPT !["EXIT"] = Append(@, p)]
  /\ FinManejo
  /\ UNCHANGED <<semEstado, activa, grados, aFinalizar, recursos, motivo,
                 hiloConsola>>

(* SUCCESS, killed, out of memory, or an operation on a resource or an     *)
(* interface that does not exist or does not accept it.                    *)
ManejarSalida ==
  /\ En("corto", "maneja")
  /\ motivo # "INTERRUPT_QUANTUM"
  /\ proceso_a(pcb["corto"], "EXIT")
  /\ FinManejo
  /\ UNCHANGED <<activa, grados, aFinalizar, recursos, motivo, hiloConsola>>

ManejarFinQuantum ==
  /\ \/ En("corto", "maneja") /\ motivo = "INTERRUPT_QUANTUM"
     \/ En("corto", "sigue") /\ "INTERRUPT_QUANTUM" \in Motivos
  /\ proceso_a(pcb["corto"], "READY")
  /\ FinManejo
  /\ UNCHANGED <<activa, grados, aFinalizar, recursos, motivo, hiloConsola>>

ManejarIO ==
  /\ En("corto", "maneja")
  /\ motivo = "IO"
  /\ proceso_a(pcb["corto"], "BLOCKED")
  /\ FinManejo
  /\ UNCHANGED <<activa, grados, aFinalizar, recursos, motivo, hiloConsola>>

(* A WAIT that does not block does not go back to executing. *)
mut_wait_sin_seguir ==
  LET p == pcb["corto"] IN
  /\ En("corto", "maneja")
  /\ motivo = "COP_WAIT"
  /\ conRecursos' = conRecursos \cup {p}
  /\ FinManejo
  /\ \/ proceso_a(p, "BLOCKED") /\ porRecurso' = porRecurso \cup {p}
     \/ UNCHANGED <<colas, porRecurso>>
  /\ UNCHANGED <<activa, grados, aFinalizar, motivo, hiloConsola>>

ManejarWait ==
  LET p == pcb["corto"] IN
  /\ En("corto", "maneja")
  /\ motivo = "COP_WAIT"
  /\ conRecursos' = conRecursos \cup {p}
  /\ \/ /\ proceso_a(p, "BLOCKED")
        /\ porRecurso' = porRecurso \cup {p}
        /\ FinManejo
     \/ /\ Ir("corto", "sigue")
        /\ UNCHANGED <<colas, plan, pcb, marcos, porRecurso>>
  /\ UNCHANGED <<activa, grados, aFinalizar, motivo, hiloConsola>>

ManejarSignal ==
  LET p == pcb["corto"] IN
  /\ En("corto", "maneja")
  /\ motivo = "COP_SIGNAL"
  /\ conRecursos' \in {conRecursos, conRecursos \ {p}}
  /\ desbloquear_si_corresponde
  /\ Ir("corto", "sigue")
  /\ UNCHANGED <<plan, activa, grados, aFinalizar, pcb, hiloCorto, hiloConsola>>

(* After a WAIT that did not block, or a SIGNAL: back to EXEC, a post, and *)
(* a nested call when the CPU returns it again.  ManejarFinQuantum is the  *)
(* other branch, for a process of RR with no quantum left.                 *)
SeguirEjecutando ==
  LET t == "exec_to_exec_or_ready_or_blocked" IN
  /\ En("corto", "sigue")
  /\ proceso_a(pcb["corto"], "EXEC")
  /\ plan' = [plan EXCEPT ![t] = @ + 1]
  /\ marcos' = marcos + 1
  /\ Ir("corto", "cpu")
  /\ UNCHANGED <<activa, grados, aFinalizar, recursos, pcb, motivo, hiloConsola>>

-----------------------------------------------------------------------------
(* The end of an I/O in the thread of an interface (atender_kernel_interfaz). *)
FinIO(p) ==
  /\ estado[p] = "BLOCKED"
  /\ p \notin porRecurso
  /\ p \notin aFinalizar
  /\ plan["blocked_to_ready_interfaz"] > 0
  /\ mover(p, "BLOCKED", "READY", 1)
  /\ UNCHANGED <<plan, activa, grados, aFinalizar, recursos, linea, pcb,
                 hiloCorto, hiloConsola>>

-----------------------------------------------------------------------------
(* liberar_procesos_exit.                                                  *)

TomarDeExit ==
  /\ En("exit", "EXIT")
  /\ semEstado["EXIT"] > 0
  /\ cola["EXIT"] # <<>>
  /\ semEstado' = [semEstado EXCEPT !["EXIT"] = @ - 1]
  /\ cola' = [cola EXCEPT !["EXIT"] = Tail(@)]
  /\ pcb' = [pcb EXCEPT !["exit"] = Head(cola["EXIT"])]
  /\ Ir("exit", "libera")
  /\ UNCHANGED <<estado, plan, activa, grados, aFinalizar, recursos, hiloCorto,
                 hiloConsola>>

(* One SIGNAL of liberar_recurso; maybe the last one. *)
liberar_recurso ==
  /\ En("exit", "libera")
  /\ pcb["exit"] \in conRecursos
  /\ plan["blocked_to_ready_recurso"] > 0
  /\ desbloquear_si_corresponde
  /\ conRecursos' \in {conRecursos, conRecursos \ {pcb["exit"]}}
  /\ UNCHANGED <<plan, activa, grados, aFinalizar, linea, pcb, hiloCorto,
                 hiloConsola>>

(* The degree does not get its unit back. *)
mut_eliminar_sin_post ==
  LET p == pcb["exit"] IN
  /\ En("exit", "libera")
  /\ p \notin conRecursos
  /\ MutexAFinalizarLibre
  /\ aFinalizar' = aFinalizar \ {p}
  /\ estado' = [estado EXCEPT ![p] = "LIBERADO"]
  /\ admitidos' = admitidos \ {p}
  /\ deMas' = IF p \in admitidos THEN deMas ELSE deMas + 1
  /\ pcb' = [pcb EXCEPT !["exit"] = Ninguno]
  /\ Ir("exit", "EXIT")
  /\ UNCHANGED <<cola, semEstado, plan, activa, grado, semGrado, recursos,
                 hiloCorto, hiloConsola>>

(* The process leaves the dictionary, its PCB is freed and the degree gets *)
(* a unit back, whether or not this process had ever taken one.            *)
eliminar_pcb ==
  LET p == pcb["exit"] IN
  /\ En("exit", "libera")
  /\ p \notin conRecursos
  /\ MutexAFinalizarLibre
  /\ aFinalizar' = aFinalizar \ {p}
  /\ estado' = [estado EXCEPT ![p] = "LIBERADO"]
  /\ semGrado' = semGrado + 1
  /\ admitidos' = admitidos \ {p}
  /\ deMas' = IF p \in admitidos THEN deMas ELSE deMas + 1
  /\ pcb' = [pcb EXCEPT !["exit"] = Ninguno]
  /\ Ir("exit", "EXIT")
  /\ UNCHANGED <<cola, semEstado, plan, activa, grado, recursos, hiloCorto,
                 hiloConsola>>

-----------------------------------------------------------------------------

PasoConsola ==
  \/ \E p \in Pids : iniciar_proceso(p) \/ FINALIZAR_PROCESO(p)
  \/ iniciar_planificacion \/ DETENER_PLANIFICACION
  \/ \E t \in Transiciones : TomarTransicion(t)
  \/ FinDetener
  \/ \E n \in Grados : cambiar_grado_multiprogramacion_a(n)
  \/ ReducirGrado
  \/ MirarCola \/ DesencolarPorPid \/ AgregarAFinalizar \/ Reanudar

PasoLargo ==
  EsperarControl \/ EsperarGrado \/ EsperarNew \/ TomarDeNew \/ RespuestaMemoria

PasoCorto ==
  \/ EsperarReady \/ Despachar
  \/ \E m \in Motivos : Desalojo(m)
  \/ EsperarExecTo \/ ConsultarPendiente \/ TomarDeExec
  \/ ManejarSalida \/ ManejarFinQuantum \/ ManejarIO
  \/ ManejarWait \/ ManejarSignal \/ SeguirEjecutando

PasoInterfaz == \E p \in Pids : FinIO(p)

PasoExit == TomarDeExit \/ liberar_recurso \/ eliminar_pcb

Next == PasoConsola \/ PasoLargo \/ PasoCorto \/ PasoInterfaz \/ PasoExit

Spec == Init /\ [][Next]_vars

(* Fairness: every thread that can go on does so, and one that waits for a *)
(* semaphore or a mutex that is given back again and again gets it in the  *)
(* end.  The CPU returns every process it runs, memory answers,            *)
(* an I/O ends, the units a process holds are finite.  What the user types *)
(* is never owed: only the steps inside a command are fair.                *)
PasoDelComando ==
  \/ \E t \in Transiciones : TomarTransicion(t)
  \/ FinDetener \/ ReducirGrado
  \/ MirarCola \/ DesencolarPorPid \/ AgregarAFinalizar \/ Reanudar

Justicia ==
  /\ SF_vars(\E t \in Transiciones : TomarTransicion(t))
  /\ SF_vars(AgregarAFinalizar) /\ SF_vars(eliminar_pcb)
  /\ WF_vars(PasoDelComando)
  /\ WF_vars(PasoLargo) /\ WF_vars(PasoCorto) /\ WF_vars(PasoExit)
  /\ WF_vars(liberar_recurso /\ pcb["exit"] \notin conRecursos')
  /\ \A p \in Pids : WF_vars(FinIO(p))

SpecJusta == Spec /\ Justicia

-----------------------------------------------------------------------------
(* Safety.                                                                 *)

TypeOK ==
  /\ estado \in [Pids -> Colas \cup {"SIN_CREAR", "LIBERADO"}]
  /\ \A c \in Colas : cola[c] \in Seq(Pids) /\ semEstado[c] \in Nat
  /\ plan \in [Transiciones -> Nat]
  /\ activa \in BOOLEAN
  /\ grado \in Nat /\ semGrado \in Nat /\ cuantos \in Nat /\ deMas \in Nat
  /\ aFinalizar \subseteq Pids /\ admitidos \subseteq Pids
  /\ porRecurso \subseteq Pids /\ conRecursos \subseteq Pids
  /\ pcb \in [Hilos -> Pids \cup {Ninguno}]
  /\ pendientes \subseteq Transiciones
  /\ paso \in DOMAIN Rastreo
  /\ marcos \in 0..MaxPosts + 1

(* How many elements of a list were promised to a thread that already took *)
(* a token of its semaphore and waits for the planning one.                *)
Prometidos(c) ==
  IF \/ c = "NEW" /\ En("largo", "new_to_ready")
     \/ c = "READY" /\ En("corto", "ready_to_exec")
    THEN 1 ELSE 0

(* Semaphores and lists count the same: no thread ever removes from an     *)
(* empty list (list_remove would give NULL and the kernel would crash),    *)
(* even when the console took the element away meanwhile.                  *)
SemaforosCoherentes ==
  \A c \in Colas : Len(cola[c]) = semEstado[c] + Prometidos(c)

(* A thread has taken p out of the list of its state, or the console has   *)
(* left it, while it executes, to the short-term planner.                  *)
EnManos(p) ==
  \/ En("largo", "memoria") /\ pcb["largo"] = p
  \/ linea["corto"] \in {"maneja", "sigue"} /\ pcb["corto"] = p
  \/ En("exit", "libera") /\ pcb["exit"] = p
  \/ En("consola", "agrega") /\ pcb["consola"] = p
  \/ estado[p] = "EXEC" /\ p \in aFinalizar

(* A process is in one place: in one list, that of its state and once, or  *)
(* in the hands of one thread that took it out of that list.               *)
UnSoloLugar ==
  \A p \in Pids :
    LET lugares == {l \in Colas \X (1..Cardinality(Pids)) :
                      l[2] \in DOMAIN cola[l[1]] /\ cola[l[1]][l[2]] = p}
    IN
    IF estado[p] \in {"SIN_CREAR", "LIBERADO"} \/ EnManos(p)
      THEN lugares = {}
      ELSE Cardinality(lugares) = 1 /\ \A l \in lugares : l[1] = estado[p]

(* Every unit of the degree of multiprogramming is somewhere: free, held   *)
(* by a process that is in the system, held by the long-term planner, or   *)
(* owed to a reduction under way.  The only ones too many are those posted *)
(* for processes killed in NEW.                                            *)
CuposConservados ==
  semGrado + Cardinality(admitidos)
    + (IF linea["largo"] \in {"NEW", "new_to_ready"} THEN 1 ELSE 0)
    = grado + cuantos + deMas

(* The planning is stopped and the console has joined the helper threads. *)
Detenida == ~activa /\ pendientes = {}

(* With the planning stopped nothing changes state but what the console    *)
(* itself does: processes may only be created, and those in EXIT freed.    *)
DetenidaNoMueve ==
  [][Detenida /\ linea'["consola"] = linea["consola"] =>
       \A p \in Pids :
         estado'[p] # estado[p] => estado[p] \in {"SIN_CREAR", "EXIT"}]_vars

(* While finalizar_proceso searches, a live process is ahead of the search *)
(* or already pending to finalize, so that the process asked for is found: *)
(* nobody carries it between two lists and no list is skipped.             *)
RastreoCompleto ==
  \A p \in Pids :
    (/\ linea["consola"] \in {"mira", "espera"}
     /\ pcb["consola"] = p
     /\ p \notin aFinalizar
     /\ estado[p] \in {"NEW", "READY", "BLOCKED", "EXEC"})
    => \E k \in paso..Len(Rastreo) : Contiene(cola[Rastreo[k]], p)

(* What the threads do to each process follows the diagram of states. *)
Ciclo == INSTANCE CicloDeVida WITH fase <- estado

ImplementaCiclo == Ciclo!Spec

(* The processes in the system are never more than the degree, but while   *)
(* the degree is being reduced.                                            *)
GradoRespetado ==
  ~En("consola", "reduciendo") => Cardinality(admitidos) <= grado

(* While the console reduces the degree, the units that are given back go  *)
(* to it and not to the planner.                                           *)
ReduccionPrimero ==
  [][En("consola", "reduciendo") => ~EsperarGrado]_vars

-----------------------------------------------------------------------------
(* Liveness.                                                               *)

(* Every command of the console ends. *)
ConsolaResponde == ~En("consola", "lista") ~> En("consola", "lista")

(* If the user lets the planning run, what is killed or ends is freed, and *)
(* what is ready is dispatched (or killed).                                *)
SalidaLibera ==
  \A p \in Pids : <>[]activa => (estado[p] = "EXIT" ~> estado[p] = "LIBERADO")

ListoEjecuta ==
  \A p \in Pids :
    <>[]activa => (estado[p] = "READY" ~> estado[p] \in {"EXEC", "EXIT", "LIBERADO"})

=============================================================================
