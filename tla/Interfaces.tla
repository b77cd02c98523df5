----------------------------- MODULE Interfaces -----------------------------
(***************************************************************************)
(* The I/O interfaces seen by the kernel (kernel_entradasalida.c, the case *)
(* IO of manejar_motivo_desalojo, aceptar_conexiones_entradasalida).       *)
(*                                                                         *)
(* Every connection has its t_interfaz and a thread.  The planner takes    *)
(* the interface under mutex_diccionario_interfaces and marks it as used   *)
(* with sem_control_uso_interfaz; the thread of an interface that is gone  *)
(* waits for that semaphore before it takes the interface out of the       *)
(* dictionary, by its name, and destroys it.                               *)
(*                                                                         *)
(* The planning is always running here: stops and the semaphores of the    *)
(* transitions are the matter of Planificacion.  What the kill of a        *)
(* process does is done for the processes that are blocked.                *)
(***************************************************************************)
EXTENDS Integers, Sequences, FiniteSets, SequencesExt

CONSTANTS
  Pids,
  Nombres,      \* names of interfaces
  Conexiones,   \* the connections there may be: bounds the reconnections
  nombre,       \* the name each connection announces
  Ninguno       \* no process, no connection

ASSUME InterfacesAssumption ==
  /\ nombre \in [Conexiones -> Nombres]
  /\ Ninguno \notin Pids \cup Conexiones
  /\ "libre" \notin Conexiones /\ "planificador" \notin Conexiones

VARIABLES
  estado,      \* READY, EXEC, BLOCKED, EXIT or LIBERADO, for every PCB
  bloqueados,  \* the list of estado_blocked
  colaExit,    \* the list of estado_exit
  aFinalizar,  \* diccionario_procesos_a_finalizar
  dic,         \* diccionario_interfaces: the connection of each name
  mutex,       \* who has mutex_diccionario_interfaces
  solicitudes, \* lista_solicitudes_io of each t_interfaz
  control,     \* sem_control_uso_interfaz of each t_interfaz
  conexion,    \* the socket of each connection: "sin", "abierta", "cortada"
  destruidas,  \* the t_interfaz that were destroyed
  hilo,        \* what the thread of each connection does
  interfaz,    \* the t_interfaz that the thread found
  pcb,         \* the process of the request it attends
  planif,      \* what the planner does with an IO
  pid_io,      \* the process of that IO
  interfaz_io  \* the t_interfaz of that IO

procesos == <<estado, bloqueados, colaExit, aFinalizar>>
diccionario == <<dic, mutex>>
interfaces == <<solicitudes, control, destruidas>>
hilos == <<hilo, interfaz, pcb>>
planificador == <<planif, pid_io, interfaz_io>>
vars == <<procesos, diccionario, interfaces, conexion, hilos, planificador>>

Init ==
  /\ estado = [p \in Pids |-> "READY"]
  /\ bloqueados = {} /\ colaExit = <<>> /\ aFinalizar = {}
  /\ dic = [n \in Nombres |-> Ninguno]
  /\ mutex = "libre"
  /\ solicitudes = [c \in Conexiones |-> <<>>]
  /\ control = [c \in Conexiones |-> 1]
  /\ destruidas = {}
  /\ conexion = [c \in Conexiones |-> "sin"]
  /\ hilo = [c \in Conexiones |-> "sin"]
  /\ interfaz = [c \in Conexiones |-> Ninguno]
  /\ pcb = [c \in Conexiones |-> Ninguno]
  /\ planif = "libre" /\ pid_io = Ninguno /\ interfaz_io = Ninguno

(* proceso_a_exit for each of the processes of s. *)
procesos_a_exit(s) ==
  /\ estado' = [p \in Pids |-> IF p \in ToSet(s) THEN "EXIT" ELSE estado[p]]
  /\ colaExit' = colaExit \o s

(* What `pcb != NULL && !..._pendiente_de_finalizar` says.  The pointer is *)
(* never NULL; of a PCB that was freed it may say anything.                *)
sigue_vivo(p) ==
  IF estado[p] = "LIBERADO" THEN {TRUE, FALSE} ELSE {p \notin aFinalizar}

-----------------------------------------------------------------------------
(* Connections.                                                            *)

(* aceptar_conexiones_entradasalida *)
Conectar(c) ==
  /\ conexion[c] = "sin"
  /\ mutex = "libre"
  /\ conexion' = [conexion EXCEPT ![c] = "abierta"]
  /\ dic' = [dic EXCEPT ![nombre[c]] = c]
  /\ hilo' = [hilo EXCEPT ![c] = "inicio"]
  /\ UNCHANGED <<procesos, mutex, interfaces, interfaz, pcb, planificador>>

Desconectar(c) ==
  /\ conexion[c] = "abierta"
  /\ conexion' = [conexion EXCEPT ![c] = "cortada"]
  /\ UNCHANGED <<procesos, diccionario, interfaces, hilos, planificador>>

-----------------------------------------------------------------------------
(* The thread of a connection: atender_kernel_interfaz.                    *)

pasa(c, de, a) == hilo[c] = de /\ hilo' = [hilo EXCEPT ![c] = a]

(* The interface is looked up by its name. *)
IniciarHilo(c) ==
  /\ pasa(c, "inicio", "espera")
  /\ mutex = "libre"
  /\ dic[nombre[c]] # Ninguno
  /\ interfaz' = [interfaz EXCEPT ![c] = dic[nombre[c]]]
  /\ UNCHANGED <<procesos, diccionario, interfaces, conexion, pcb, planificador>>

(* Wrong variants (mut_...) of the definitions they precede: none of them  *)
(* is used by the specification; the runs are expected to refute each one. *)

(* The request stays in the list. *)
mut_desencolar_sin_sacar(c) ==
  LET i == interfaz[c] IN
  /\ pasa(c, "espera", "consulta")
  /\ i \notin destruidas
  /\ solicitudes[i] # <<>>
  /\ pcb' = [pcb EXCEPT ![c] = Head(solicitudes[i])]
  /\ UNCHANGED <<procesos, diccionario, interfaces, conexion, interfaz, planificador>>

interfaz_desencolar_primera_solicitud_io(c) ==
  LET i == interfaz[c] IN
  /\ pasa(c, "espera", "consulta")
  /\ i \notin destruidas
  /\ solicitudes[i] # <<>>
  /\ pcb' = [pcb EXCEPT ![c] = Head(solicitudes[i])]
  /\ solicitudes' = [solicitudes EXCEPT ![i] = Tail(@)]
  /\ UNCHANGED <<procesos, diccionario, control, destruidas, conexion, interfaz, planificador>>

Consultar(c) ==
  /\ hilo[c] = "consulta"
  /\ \E v \in sigue_vivo(pcb[c]) : pasa(c, "consulta", IF v THEN "envio" ELSE "espera")
  /\ UNCHANGED <<procesos, diccionario, interfaces, conexion, interfaz, pcb, planificador>>

(* The send may still succeed on a socket that was just cut. *)
Enviar(c) ==
  /\ \/ pasa(c, "envio", "recibe")
     \/ conexion[c] = "cortada" /\ pasa(c, "envio", "caida")
  /\ UNCHANGED <<procesos, diccionario, interfaces, conexion, interfaz, pcb, planificador>>

(* The interface ends the operation: IO_FIN_OPERACION is on its way. *)
Responder(c) ==
  /\ conexion[c] = "abierta"
  /\ pasa(c, "recibe", "fin")
  /\ UNCHANGED <<procesos, diccionario, interfaces, conexion, interfaz, pcb, planificador>>

RecibirCorte(c) ==
  /\ conexion[c] = "cortada"
  /\ pasa(c, "recibe", "caida")
  /\ UNCHANGED <<procesos, diccionario, interfaces, conexion, interfaz, pcb, planificador>>

(* IO_FIN_OPERACION: back to READY, if it is not being finished. *)
FinOperacion(c) ==
  /\ pasa(c, "fin", "espera")
  /\ \E v \in sigue_vivo(pcb[c]) :
       IF v THEN /\ bloqueados' = bloqueados \ {pcb[c]}
                 /\ estado' = [estado EXCEPT ![pcb[c]] = "READY"]
            ELSE UNCHANGED <<bloqueados, estado>>
  /\ UNCHANGED <<colaExit, aFinalizar, diccionario, interfaces, conexion, interfaz, pcb,
                 planificador>>

(* The interface is gone: is the process it attended being finished? *)
ConsultarCaida(c) ==
  /\ hilo[c] = "caida"
  /\ \E v \in sigue_vivo(pcb[c]) : pasa(c, "caida", IF v THEN "manda" ELSE "baja")
  /\ UNCHANGED <<procesos, diccionario, interfaces, conexion, interfaz, pcb, planificador>>

(* Nothing is done with the process that waited for the interface. *)
mut_caida_sin_exit(c) ==
  /\ pasa(c, "manda", "baja")
  /\ UNCHANGED <<procesos, diccionario, interfaces, conexion, interfaz, pcb, planificador>>

(* It goes to EXIT, although it may have been killed since it was asked.   *)
(* It is not taken out of estado_blocked.                                  *)
MandarAExit(c) ==
  /\ pasa(c, "manda", "baja")
  /\ procesos_a_exit(<<pcb[c]>>)
  /\ UNCHANGED <<bloqueados, aFinalizar, diccionario, interfaces, conexion, interfaz, pcb,
                 planificador>>

TomarDiccionario(c) ==
  /\ pasa(c, "baja", "control")
  /\ mutex = "libre"
  /\ mutex' = c
  /\ UNCHANGED <<procesos, dic, interfaces, conexion, interfaz, pcb, planificador>>

(* The thread does not wait for whoever uses the interface. *)
mut_tomar_control_sin_esperar(c) ==
  /\ pasa(c, "control", "elimina")
  /\ control' = [control EXCEPT ![interfaz[c]] = 0]
  /\ UNCHANGED <<procesos, diccionario, solicitudes, destruidas, conexion, interfaz, pcb,
                 planificador>>

TomarControl(c) ==
  /\ pasa(c, "control", "elimina")
  /\ control[interfaz[c]] > 0
  /\ control' = [control EXCEPT ![interfaz[c]] = @ - 1]
  /\ UNCHANGED <<procesos, diccionario, solicitudes, destruidas, conexion, interfaz, pcb,
                 planificador>>

(* The requests that wait are thrown away with the list. *)
mut_eliminar_sin_vaciar(c) ==
  LET i == dic[nombre[c]] IN
  /\ pasa(c, "elimina", "terminado")
  /\ dic' = [dic EXCEPT ![nombre[c]] = Ninguno]
  /\ mutex' = "libre"
  /\ destruidas' = destruidas \cup {i}
  /\ solicitudes' = [solicitudes EXCEPT ![i] = <<>>]
  /\ UNCHANGED <<procesos, control, conexion, interfaz, pcb, planificador>>

(* diccionario_interfaces_eliminar_interfaz: what has the name now is      *)
(* destroyed, and the processes of its requests go to EXIT, all of them.   *)
eliminar_interfaz(c) ==
  LET i == dic[nombre[c]] IN
  /\ pasa(c, "elimina", "terminado")
  /\ dic' = [dic EXCEPT ![nombre[c]] = Ninguno]
  /\ mutex' = "libre"
  /\ IF i = Ninguno
       THEN UNCHANGED <<estado, colaExit, destruidas, solicitudes>>
       ELSE /\ procesos_a_exit(solicitudes[i])
            /\ destruidas' = destruidas \cup {i}
            /\ solicitudes' = [solicitudes EXCEPT ![i] = <<>>]
  /\ UNCHANGED <<bloqueados, aFinalizar, control, conexion, interfaz, pcb, planificador>>

-----------------------------------------------------------------------------
(* The planner: the case IO of manejar_motivo_desalojo.                    *)

Despachar(p) ==
  /\ planif = "libre"
  /\ estado[p] = "READY"
  /\ \A q \in Pids : estado[q] # "EXEC"
  /\ estado' = [estado EXCEPT ![p] = "EXEC"]
  /\ UNCHANGED <<bloqueados, colaExit, aFinalizar, diccionario, interfaces, conexion, hilos,
                 planificador>>

Terminar(p) ==
  /\ planif = "libre"
  /\ estado[p] = "EXEC"
  /\ procesos_a_exit(<<p>>)
  /\ UNCHANGED <<bloqueados, aFinalizar, diccionario, interfaces, conexion, hilos, planificador>>

(* A name that is not in the dictionary ends the process. *)
PedirIO(p, n) ==
  /\ planif = "libre"
  /\ estado[p] = "EXEC"
  /\ mutex = "libre"
  /\ IF dic[n] = Ninguno
       THEN procesos_a_exit(<<p>>) /\ UNCHANGED <<mutex, planificador>>
       ELSE /\ mutex' = "planificador"
            /\ planif' = "control" /\ pid_io' = p /\ interfaz_io' = dic[n]
            /\ UNCHANGED <<estado, colaExit>>
  /\ UNCHANGED <<bloqueados, aFinalizar, dic, interfaces, conexion, hilos>>

TomarInterfaz ==
  /\ planif = "control"
  /\ control[interfaz_io] > 0
  /\ control' = [control EXCEPT ![interfaz_io] = @ - 1]
  /\ mutex' = "libre"
  /\ planif' = "operacion"
  /\ UNCHANGED <<procesos, dic, solicitudes, destruidas, conexion, hilos, pid_io, interfaz_io>>

(* The operation is not one of the type of the interface. *)
OperacionInvalida ==
  /\ planif = "operacion"
  /\ planif' = "soltar"
  /\ procesos_a_exit(<<pid_io>>)
  /\ UNCHANGED <<bloqueados, aFinalizar, diccionario, interfaces, conexion, hilos, pid_io,
                 interfaz_io>>

proceso_a_blocked ==
  /\ planif = "operacion"
  /\ planif' = "encolar"
  /\ estado' = [estado EXCEPT ![pid_io] = "BLOCKED"]
  /\ bloqueados' = bloqueados \cup {pid_io}
  /\ UNCHANGED <<colaExit, aFinalizar, diccionario, interfaces, conexion, hilos, pid_io,
                 interfaz_io>>

interfaz_encolar_solicitud_io ==
  /\ planif = "encolar"
  /\ planif' = "soltar"
  /\ solicitudes' = [solicitudes EXCEPT ![interfaz_io] = Append(@, pid_io)]
  /\ UNCHANGED <<procesos, diccionario, control, destruidas, conexion, hilos, pid_io,
                 interfaz_io>>

(* An error path that also posts the semaphore. *)
mut_soltar_dos_veces ==
  /\ planif = "soltar"
  /\ planif' = "libre" /\ pid_io' = Ninguno /\ interfaz_io' = Ninguno
  /\ control' = [control EXCEPT ![interfaz_io] = @ + 2]
  /\ UNCHANGED <<procesos, diccionario, solicitudes, destruidas, conexion, hilos>>

SoltarInterfaz ==
  /\ planif = "soltar"
  /\ planif' = "libre" /\ pid_io' = Ninguno /\ interfaz_io' = Ninguno
  /\ control' = [control EXCEPT ![interfaz_io] = @ + 1]
  /\ UNCHANGED <<procesos, diccionario, solicitudes, destruidas, conexion, hilos>>

-----------------------------------------------------------------------------

(* FINALIZAR_PROCESO of a process found in the list of blocked ones, with  *)
(* the planning stopped: no handler is half way.  One that is there in     *)
(* state EXIT is only taken out and noted down.                            *)
finalizar_proceso(p) ==
  /\ planif = "libre"
  /\ p \in bloqueados /\ estado[p] \in {"BLOCKED", "EXIT"}
  /\ bloqueados' = bloqueados \ {p}
  /\ aFinalizar' = aFinalizar \cup {p}
  /\ procesos_a_exit(IF estado[p] = "BLOCKED" THEN <<p>> ELSE <<>>)
  /\ UNCHANGED <<diccionario, interfaces, conexion, hilos, planificador>>

(* liberar_procesos_exit frees the PCB. *)
liberar_procesos_exit ==
  /\ colaExit # <<>>
  /\ colaExit' = Tail(colaExit)
  /\ estado' = [estado EXCEPT ![Head(colaExit)] = "LIBERADO"]
  /\ aFinalizar' = aFinalizar \ {Head(colaExit)}
  /\ UNCHANGED <<bloqueados, diccionario, interfaces, conexion, hilos, planificador>>

PasoHilo(c) ==
  \/ IniciarHilo(c) \/ interfaz_desencolar_primera_solicitud_io(c) \/ Consultar(c)
  \/ Enviar(c) \/ RecibirCorte(c) \/ FinOperacion(c) \/ ConsultarCaida(c)
  \/ MandarAExit(c) \/ TomarDiccionario(c) \/ TomarControl(c) \/ eliminar_interfaz(c)

PasoPlanificador ==
  \/ TomarInterfaz \/ OperacionInvalida \/ proceso_a_blocked
  \/ interfaz_encolar_solicitud_io \/ SoltarInterfaz

Next ==
  \/ \E c \in Conexiones : Conectar(c) \/ Desconectar(c) \/ PasoHilo(c) \/ Responder(c)
  \/ PasoPlanificador
  \/ \E p \in Pids :
       \/ Despachar(p) \/ Terminar(p) \/ finalizar_proceso(p)
       \/ \E n \in Nombres : PedirIO(p, n)
  \/ liberar_procesos_exit

Spec == Init /\ [][Next]_vars

(* Threads run, and an interface that is connected ends its operations. A  *)
(* thread that waits for the mutex gets it: the planner takes and leaves   *)
(* it again and again, so this has to be strong fairness.                  *)
SpecJusta ==
  /\ Spec
  /\ \A c \in Conexiones : WF_vars(PasoHilo(c)) /\ WF_vars(Responder(c))
  /\ \A c \in Conexiones : SF_vars(IniciarHilo(c)) /\ SF_vars(TomarDiccionario(c))
  /\ WF_vars(PasoPlanificador)

-----------------------------------------------------------------------------
(* Safety.                                                                 *)

TypeOK ==
  /\ estado \in [Pids -> {"READY", "EXEC", "BLOCKED", "EXIT", "LIBERADO"}]
  /\ bloqueados \subseteq Pids /\ aFinalizar \subseteq Pids
  /\ colaExit \in Seq(Pids)
  /\ dic \in [Nombres -> Conexiones \cup {Ninguno}]
  /\ mutex \in {"libre", "planificador"} \cup Conexiones
  /\ solicitudes \in [Conexiones -> Seq(Pids)]
  /\ control \in [Conexiones -> {0, 1}]
  /\ destruidas \subseteq Conexiones
  /\ interfaz \in [Conexiones -> Conexiones \cup {Ninguno}]
  /\ pcb \in [Conexiones -> Pids \cup {Ninguno}]
  /\ pid_io \in Pids \cup {Ninguno} /\ interfaz_io \in Conexiones \cup {Ninguno}

Atendiendo == {"consulta", "envio", "recibe", "fin", "caida", "manda"}

(* Where the request of a blocked process may be: the planner is about to  *)
(* queue it, it waits in an interface that the dictionary has, or a thread *)
(* attends it.                                                             *)
EnPlanificador(p) == planif = "encolar" /\ pid_io = p
EnEspera(p) == \E n \in Nombres : dic[n] # Ninguno /\ p \in ToSet(solicitudes[dic[n]])
EnAtencion(p) == \E c \in Conexiones : hilo[c] \in Atendiendo /\ pcb[c] = p

(* A process that is blocked for I/O is never forgotten, although its      *)
(* interface may be taken out of the dictionary between the moment the     *)
(* planner found it there and the moment it queues the request.            *)
BloqueadoTienePedido ==
  \A p \in Pids :
    estado[p] = "BLOCKED" => EnPlanificador(p) \/ EnEspera(p) \/ EnAtencion(p)

(* ... and in one of those places only, so that it is not attended twice   *)
(* nor sent to READY and to EXIT.                                          *)
PedidoUnico ==
  \A p \in Pids :
    LET enListas == UNION {{<<c, k>> : k \in {k \in DOMAIN solicitudes[c] :
                                               solicitudes[c][k] = p}} : c \in Conexiones}
        enHilos == {c \in Conexiones : hilo[c] \in Atendiendo /\ pcb[c] = p}
    IN Cardinality(enListas) + Cardinality(enHilos)
         + (IF EnPlanificador(p) THEN 1 ELSE 0) <= 1

(* The interface that the planner uses, from sem_wait to sem_post of its   *)
(* semaphore, is not destroyed meanwhile.                                  *)
EnUsoViva == planif # "libre" => interfaz_io \notin destruidas

-----------------------------------------------------------------------------
(* Liveness.                                                               *)

(* A process that waits for an interface gets out of BLOCKED, to READY if  *)
(* the interface answers and to EXIT if it disconnects.                    *)
EsperaTermina == \A p \in Pids : estado[p] = "BLOCKED" ~> estado[p] # "BLOCKED"

-----------------------------------------------------------------------------
(* What the documents say and the code does not do.                        *)

(* Enunciado, page 13: PROCESO_ESTADO lists the processes by state.  After *)
(* a disconnection the list of BLOCKED keeps processes that are in EXIT,   *)
(* and pointers to PCBs that were freed.                                   *)
ListadoPorEstado == \A p \in bloqueados : estado[p] = "BLOCKED"

(* kernel_entradasalida.c:49: a process goes to EXIT on a disconnection    *)
(* only if it was not finished yet.  eliminar_interfaz does not ask.       *)
ExitUnaVez ==
  [][\A p \in Pids : estado[p] = "EXIT" =>
       Len(SelectSeq(colaExit', LAMBDA q : q = p))
         <= Len(SelectSeq(colaExit, LAMBDA q : q = p))]_vars

(* kernel_entradasalida.c:14: the request of a process that was finished   *)
(* is discarded.  Once its PCB is freed the test reads freed memory.       *)
DescartaFinalizados ==
  [][\A c \in Conexiones :
       hilo[c] = "consulta" /\ hilo'[c] = "envio" => estado[pcb[c]] # "LIBERADO"]_vars

(* kernel_entradasalida.c:54: the interface is taken out of the dictionary *)
(* as long as nobody uses it.  When it connects again in the meantime, the *)
(* one destroyed is the new one, whose thread goes on using it.            *)
EliminaSinUso ==
  \A c \in Conexiones :
    hilo[c] \notin {"sin", "inicio", "terminado"} => interfaz[c] \notin destruidas

=============================================================================
