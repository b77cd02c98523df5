--------------------------- MODULE InterfacesProofs ---------------------------
(***************************************************************************)
(* Proofs about Interfaces, for every set of processes, of connections and *)
(* of names.                                                               *)
(***************************************************************************)
EXTENDS Interfaces, SecuenciasProofs, FiniteSetTheorems, TLAPS

-----------------------------------------------------------------------------
(* The inductive invariant.                                                *)

Puntos ==
  {"sin", "inicio", "espera", "consulta", "envio", "recibe", "fin", "caida", "manda",
   "baja", "control", "elimina", "terminado"}

(* The planner has the semaphore of the interface. *)
ConControl == {"operacion", "encolar", "soltar"}

(* Where the threads and the planner are, and what they work on. *)
Turnos ==
  /\ hilo \in [Conexiones -> Puntos]
  /\ conexion \in [Conexiones -> {"sin", "abierta", "cortada"}]
  /\ planif \in {"libre", "control"} \cup ConControl
  /\ planif # "libre" => pid_io \in Pids /\ interfaz_io \in Conexiones
  /\ planif \in ConControl => control[interfaz_io] = 0
  /\ \A c \in Conexiones :
       /\ conexion[c] = "sin" => hilo[c] = "sin"
       /\ hilo[c] \notin {"sin", "inicio"} => interfaz[c] \in Conexiones
       /\ hilo[c] \in Atendiendo => pcb[c] \in Pids

(* The requests in the list of the interface c, and the one that its       *)
(* thread attends (which may have taken it from the list of another one).  *)
Atendido(c) == IF hilo[c] \in Atendiendo THEN {pcb[c]} ELSE {}
Pedidos(c) == ToSet(solicitudes[c]) \cup Atendido(c)

(* A request is in one place. *)
SinRepetir ==
  /\ \A c \in Conexiones :
       /\ Distintos(solicitudes[c])
       /\ Atendido(c) \cap ToSet(solicitudes[c]) = {}
       /\ planif \in {"control", "operacion", "encolar"} => pid_io \notin Pedidos(c)
  /\ \A c, d \in Conexiones : c # d => Pedidos(c) \cap Pedidos(d) = {}

(* A process with a request neither is ready nor runs, and it is in the    *)
(* list of EXIT only if it was killed, once.                               *)
Quietos ==
  /\ \A c \in Conexiones : \A p \in Pedidos(c) :
       /\ estado[p] \in {"BLOCKED", "EXIT", "LIBERADO"}
       /\ p \in ToSet(colaExit) =>
            estado[p] = "EXIT" /\ p \in aFinalizar /\ UnaVez(colaExit, p)
  /\ planif \in {"control", "operacion"} => estado[pid_io] = "EXEC"
  /\ planif = "encolar" => estado[pid_io] = "BLOCKED"
  /\ \A p \in ToSet(colaExit) : estado[p] \in {"EXIT", "LIBERADO"}
  /\ \A p \in aFinalizar : estado[p] = "EXIT"

InvInterfaces == TypeOK /\ Turnos /\ SinRepetir /\ Quietos

-----------------------------------------------------------------------------
(* Lists of processes.                                                     *)

(* A list of one process, and the empty one. *)
LEMMA ListasCortas ==
  /\ <<>> \in Seq(Pids) /\ ToSet(<<>>) = {}
  /\ \A p \in Pids : <<p>> \in Seq(Pids) /\ ToSet(<<p>>) = {p}
<1>1. <<>> \in Seq(Pids) /\ ToSet(<<>>) = {}
  BY DEF ToSet
<1>2. ASSUME NEW p \in Pids
      PROVE  <<p>> \in Seq(Pids) /\ ToSet(<<p>>) = {p}
  BY DEF ToSet
<1>3. QED
  BY <1>1, <1>2

(* The processes of s go to EXIT. *)
LEMMA TrasExit ==
  ASSUME TypeOK, NEW s \in Seq(Pids), procesos_a_exit(s)
  PROVE  /\ estado' \in [Pids -> {"READY", "EXEC", "BLOCKED", "EXIT", "LIBERADO"}]
         /\ colaExit' \in Seq(Pids)
         /\ \A p \in Pids : estado'[p] = IF p \in ToSet(s) THEN "EXIT" ELSE estado[p]
         /\ \A p : p \in ToSet(colaExit') <=> p \in ToSet(colaExit) \/ p \in ToSet(s)
         /\ \A p : UnaVez(colaExit, p) /\ p \notin ToSet(s) => UnaVez(colaExit', p)
         /\ \A p : p \notin ToSet(colaExit) /\ UnaVez(s, p) => UnaVez(colaExit', p)
<1>1. colaExit \in Seq(Pids) /\ colaExit' = colaExit \o s
  BY DEF TypeOK, procesos_a_exit
<1>2. /\ colaExit' \in Seq(Pids)
      /\ ToSet(colaExit') = ToSet(colaExit) \cup ToSet(s)
      /\ \A p : UnaVez(colaExit, p) /\ p \notin ToSet(s) => UnaVez(colaExit', p)
      /\ \A p : p \notin ToSet(colaExit) /\ UnaVez(s, p) => UnaVez(colaExit', p)
  BY <1>1, ElementosDeDos
<1>3. /\ estado' \in [Pids -> {"READY", "EXEC", "BLOCKED", "EXIT", "LIBERADO"}]
      /\ \A p \in Pids : estado'[p] = IF p \in ToSet(s) THEN "EXIT" ELSE estado[p]
  BY DEF TypeOK, procesos_a_exit
<1>4. QED
  BY <1>2, <1>3

-----------------------------------------------------------------------------
(* Every step preserves each part of the invariant.                        *)

(* The types. *)
LEMMA TypeOKPaso ==
  ASSUME TypeOK, Turnos, [Next]_vars
  PROVE  TypeOK'
<1>1. ASSUME NEW c \in Conexiones, Conectar(c)
      PROVE  TypeOK'
  BY <1>1, InterfacesAssumption DEF Conectar, TypeOK, Turnos, Atendiendo, ConControl,
     procesos, interfaces, planificador
<1>2. ASSUME NEW c \in Conexiones, IniciarHilo(c)
      PROVE  TypeOK'
  BY <1>2, InterfacesAssumption DEF IniciarHilo, pasa, TypeOK, Turnos, Atendiendo,
     ConControl, procesos, diccionario, interfaces, planificador
<1>3. ASSUME NEW c \in Conexiones, interfaz_desencolar_primera_solicitud_io(c)
      PROVE  TypeOK'
  <2>1. interfaz[c] \in Conexiones /\ solicitudes[interfaz[c]] \in Seq(Pids)
    BY <1>3 DEF interfaz_desencolar_primera_solicitud_io, pasa, TypeOK, Turnos
  <2>2. /\ Head(solicitudes[interfaz[c]]) \in Pids
        /\ Tail(solicitudes[interfaz[c]]) \in Seq(Pids)
    BY <1>3, <2>1, ElementosSinElPrimero DEF interfaz_desencolar_primera_solicitud_io
  <2>3. QED
    BY <1>3, <2>1, <2>2 DEF interfaz_desencolar_primera_solicitud_io, TypeOK, procesos,
       diccionario, planificador
<1>4. ASSUME NEW c \in Conexiones, FinOperacion(c)
      PROVE  TypeOK'
  BY <1>4, InterfacesAssumption DEF FinOperacion, pasa, TypeOK, Turnos, Atendiendo,
     ConControl, diccionario, interfaces, planificador
<1>5. ASSUME NEW c \in Conexiones, MandarAExit(c)
      PROVE  TypeOK'
  <2>1. PICK s \in Seq(Pids) : procesos_a_exit(s)
    BY <1>5, ListasCortas DEF MandarAExit, pasa, TypeOK, Turnos, Atendiendo, ConControl
  <2>2. QED
    BY <1>5, <2>1, TrasExit DEF MandarAExit, pasa, TypeOK, diccionario, interfaces, planificador
<1>6. ASSUME NEW c \in Conexiones, TomarDiccionario(c)
      PROVE  TypeOK'
  BY <1>6, InterfacesAssumption DEF TomarDiccionario, pasa, TypeOK, Turnos, Atendiendo,
     ConControl, procesos, interfaces, planificador
<1>7. ASSUME NEW c \in Conexiones, TomarControl(c)
      PROVE  TypeOK'
  <2>0. interfaz[c] \in Conexiones
    BY <1>7 DEF TomarControl, pasa, Turnos
  <2>1. control[interfaz[c]] \in {0, 1} /\ control[interfaz[c]] > 0
    BY <1>7, <2>0 DEF TomarControl, TypeOK
  <2>2. control' = [control EXCEPT ![interfaz[c]] = 0]
    <3>1. control[interfaz[c]] - 1 = 0
      BY <2>1
    <3>2. control' = [control EXCEPT ![interfaz[c]] = control[interfaz[c]] - 1]
      BY <1>7 DEF TomarControl
    <3>3. QED
      BY <3>1, <3>2
  <2>3. QED
    BY <1>7, <2>0, <2>1, <2>2 DEF TomarControl, pasa, TypeOK, procesos, diccionario,
       planificador
<1>8. ASSUME NEW c \in Conexiones, eliminar_interfaz(c)
      PROVE  TypeOK'
  <2>1. CASE dic[nombre[c]] = Ninguno
    BY <1>8, <2>1 DEF eliminar_interfaz, TypeOK, planificador
  <2>2. CASE dic[nombre[c]] # Ninguno
    <3>1. nombre[c] \in Nombres /\ dic[nombre[c]] \in Conexiones
      BY <2>2, InterfacesAssumption DEF TypeOK
    <3>2. solicitudes[dic[nombre[c]]] \in Seq(Pids) /\
            procesos_a_exit(solicitudes[dic[nombre[c]]])
      BY <1>8, <2>2, <3>1 DEF eliminar_interfaz, TypeOK
    <3>3. /\ estado' \in [Pids -> {"READY", "EXEC", "BLOCKED", "EXIT", "LIBERADO"}]
          /\ colaExit' \in Seq(Pids)
      BY <3>2, TrasExit
    <3>4. /\ solicitudes' = [solicitudes EXCEPT ![dic[nombre[c]]] = <<>>]
          /\ destruidas' = destruidas \cup {dic[nombre[c]]}
      BY <1>8, <2>2 DEF eliminar_interfaz
    <3>5. solicitudes' \in [Conexiones -> Seq(Pids)] /\ destruidas' \subseteq Conexiones
      BY <3>1, <3>4, ListasCortas DEF TypeOK
    <3>6. QED
      BY <1>8, <3>3, <3>5 DEF eliminar_interfaz, TypeOK, planificador
  <2>3. QED
    BY <2>1, <2>2
<1>9. CASE TomarInterfaz
  BY <1>9, InterfacesAssumption DEF TomarInterfaz, TypeOK, Turnos, Atendiendo, ConControl,
     procesos, hilos
<1>10. CASE OperacionInvalida
  <2>1. PICK s \in Seq(Pids) : procesos_a_exit(s)
    BY <1>10, ListasCortas DEF OperacionInvalida, TypeOK, Turnos, Atendiendo, ConControl
  <2>2. QED
    BY <1>10, <2>1, TrasExit DEF OperacionInvalida, TypeOK, diccionario, interfaces, hilos
<1>11. CASE proceso_a_blocked
  BY <1>11, InterfacesAssumption DEF proceso_a_blocked, TypeOK, Turnos, Atendiendo,
     ConControl, diccionario, interfaces, hilos
<1>12. CASE interfaz_encolar_solicitud_io
  <2>1. interfaz_io \in Conexiones /\ Append(solicitudes[interfaz_io], pid_io) \in Seq(Pids)
    BY <1>12, ElementosConUnoMas DEF interfaz_encolar_solicitud_io, TypeOK, Turnos
  <2>2. QED
    BY <1>12, <2>1 DEF interfaz_encolar_solicitud_io, TypeOK, procesos, diccionario, hilos
<1>13. CASE SoltarInterfaz
  BY <1>13, InterfacesAssumption DEF SoltarInterfaz, TypeOK, Turnos, Atendiendo, ConControl,
     procesos, diccionario, hilos
<1>14. ASSUME NEW p \in Pids, Despachar(p)
      PROVE  TypeOK'
  BY <1>14, InterfacesAssumption DEF Despachar, TypeOK, Turnos, Atendiendo, ConControl,
     diccionario, interfaces, hilos, planificador
<1>15. ASSUME NEW p \in Pids, Terminar(p)
      PROVE  TypeOK'
  <2>1. PICK s \in Seq(Pids) : procesos_a_exit(s)
    BY <1>15, ListasCortas DEF Terminar, TypeOK, Turnos, Atendiendo, ConControl
  <2>2. QED
    BY <1>15, <2>1, TrasExit DEF Terminar, TypeOK, diccionario, interfaces, hilos, planificador
<1>16. ASSUME NEW p \in Pids, finalizar_proceso(p)
      PROVE  TypeOK'
  <2>1. PICK s \in Seq(Pids) : procesos_a_exit(s)
    BY <1>16, ListasCortas DEF finalizar_proceso, TypeOK, Turnos, Atendiendo, ConControl
  <2>2. QED
    BY <1>16, <2>1, TrasExit DEF finalizar_proceso, TypeOK, diccionario, interfaces, hilos,
       planificador
<1>17. ASSUME NEW p \in Pids, NEW n \in Nombres, PedirIO(p, n)
      PROVE  TypeOK'
  <2>1. CASE dic[n] = Ninguno
    BY <1>17, <2>1, TrasExit, ListasCortas DEF PedirIO, TypeOK, interfaces, hilos, planificador
  <2>2. CASE dic[n] # Ninguno
    BY <1>17, <2>2 DEF PedirIO, TypeOK, interfaces, hilos
  <2>3. QED
    BY <2>1, <2>2
<1>18. CASE liberar_procesos_exit
  <2>1. Head(colaExit) \in Pids /\ Tail(colaExit) \in Seq(Pids)
    BY <1>18, ElementosSinElPrimero DEF liberar_procesos_exit, TypeOK
  <2>2. QED
    BY <1>18, <2>1 DEF liberar_procesos_exit, TypeOK, diccionario, interfaces, hilos, planificador
<1>19. CASE (\E c \in Conexiones : Desconectar(c) \/ Consultar(c) \/ Enviar(c) \/
           Responder(c) \/ RecibirCorte(c) \/ ConsultarCaida(c)) \/ UNCHANGED vars
  BY <1>19, InterfacesAssumption DEF vars, Desconectar, Consultar, pasa, Enviar, Responder,
     RecibirCorte, ConsultarCaida, TypeOK, Turnos, Atendiendo, ConControl, diccionario, hilos,
     interfaces, planificador, procesos
<1>20. QED
  BY <1>1, <1>2, <1>3, <1>4, <1>5, <1>6, <1>7, <1>8, <1>9, <1>10, <1>11, <1>12, <1>13,
     <1>14, <1>15, <1>16, <1>17, <1>18, <1>19 DEF Next, PasoHilo, PasoPlanificador

(* The threads and the planner. *)
LEMMA TurnosPaso ==
  ASSUME TypeOK, Turnos, [Next]_vars
  PROVE  Turnos'
<1>1. ASSUME NEW c \in Conexiones, Conectar(c)
      PROVE  Turnos'
  BY <1>1, InterfacesAssumption DEF Conectar, TypeOK, Turnos, Atendiendo, ConControl,
     Puntos, procesos, interfaces, planificador
<1>2. ASSUME NEW c \in Conexiones, Desconectar(c)
      PROVE  Turnos'
  BY <1>2, InterfacesAssumption DEF Desconectar, TypeOK, Turnos, Atendiendo, ConControl,
     Puntos, procesos, diccionario, interfaces, hilos, planificador
<1>3. ASSUME NEW c \in Conexiones, IniciarHilo(c)
      PROVE  Turnos'
  BY <1>3, InterfacesAssumption DEF IniciarHilo, pasa, TypeOK, Turnos, Atendiendo,
     ConControl, Puntos, procesos, diccionario, interfaces, planificador
<1>4. ASSUME NEW c \in Conexiones, interfaz_desencolar_primera_solicitud_io(c)
      PROVE  Turnos'
  <2>1. interfaz[c] \in Conexiones /\ solicitudes[interfaz[c]] \in Seq(Pids)
    BY <1>4 DEF interfaz_desencolar_primera_solicitud_io, pasa, TypeOK, Turnos
  <2>2. /\ Head(solicitudes[interfaz[c]]) \in Pids
        /\ Tail(solicitudes[interfaz[c]]) \in Seq(Pids)
    BY <1>4, <2>1, ElementosSinElPrimero DEF interfaz_desencolar_primera_solicitud_io
  <2>3. QED
    BY <1>4, <2>1, <2>2 DEF interfaz_desencolar_primera_solicitud_io, pasa, TypeOK, Turnos,
       Atendiendo, Puntos, ConControl, procesos, diccionario, planificador
<1>5. ASSUME NEW c \in Conexiones, Consultar(c)
      PROVE  Turnos'
  BY <1>5, InterfacesAssumption DEF Consultar, pasa, TypeOK, Turnos, Atendiendo, ConControl,
     Puntos, procesos, diccionario, interfaces, planificador
<1>6. ASSUME NEW c \in Conexiones, Enviar(c)
      PROVE  Turnos'
  <2>1. PICK l \in {"recibe", "caida"} : pasa(c, "envio", l)
    BY <1>6 DEF Enviar
  <2>2. QED
    BY <1>6, <2>1 DEF Enviar, pasa, TypeOK, Turnos, Atendiendo, Puntos, procesos, diccionario,
       interfaces, planificador
<1>7. ASSUME NEW c \in Conexiones, Responder(c)
      PROVE  Turnos'
  BY <1>7, InterfacesAssumption DEF Responder, pasa, TypeOK, Turnos, Atendiendo, ConControl,
     Puntos, procesos, diccionario, interfaces, planificador
<1>8. ASSUME NEW c \in Conexiones, RecibirCorte(c)
      PROVE  Turnos'
  BY <1>8, InterfacesAssumption DEF RecibirCorte, pasa, TypeOK, Turnos, Atendiendo,
     ConControl, Puntos, procesos, diccionario, interfaces, planificador
<1>9. ASSUME NEW c \in Conexiones, FinOperacion(c)
      PROVE  Turnos'
  BY <1>9, InterfacesAssumption DEF FinOperacion, pasa, TypeOK, Turnos, Atendiendo,
     ConControl, Puntos, diccionario, interfaces, planificador
<1>10. ASSUME NEW c \in Conexiones, MandarAExit(c)
      PROVE  Turnos'
  BY <1>10, InterfacesAssumption DEF MandarAExit, pasa, TypeOK, Turnos, Atendiendo,
     ConControl, Puntos, diccionario, interfaces, planificador
<1>11. ASSUME NEW c \in Conexiones, TomarDiccionario(c)
      PROVE  Turnos'
  BY <1>11, InterfacesAssumption DEF TomarDiccionario, pasa, TypeOK, Turnos, Atendiendo,
     ConControl, Puntos, procesos, interfaces, planificador
<1>12. ASSUME NEW c \in Conexiones, TomarControl(c)
      PROVE  Turnos'
  <2>0. interfaz[c] \in Conexiones
    BY <1>12 DEF TomarControl, pasa, Turnos
  <2>1. control[interfaz[c]] \in {0, 1} /\ control[interfaz[c]] > 0
    BY <1>12, <2>0 DEF TomarControl, TypeOK
  <2>2. control' = [control EXCEPT ![interfaz[c]] = 0]
    <3>1. control[interfaz[c]] - 1 = 0
      BY <2>1
    <3>2. control' = [control EXCEPT ![interfaz[c]] = control[interfaz[c]] - 1]
      BY <1>12 DEF TomarControl
    <3>3. QED
      BY <3>1, <3>2
  <2>3. QED
    BY <1>12, <2>0, <2>1, <2>2 DEF TomarControl, pasa, TypeOK, procesos, diccionario,
       planificador, Turnos, Atendiendo, ConControl, Puntos
<1>13. ASSUME NEW c \in Conexiones, eliminar_interfaz(c)
      PROVE  Turnos'
  BY <1>13, InterfacesAssumption DEF eliminar_interfaz, pasa, TypeOK, Turnos, Atendiendo,
     ConControl, Puntos, planificador
<1>14. CASE TomarInterfaz
  BY <1>14, InterfacesAssumption DEF TomarInterfaz, TypeOK, Turnos, Atendiendo, ConControl,
     Puntos, procesos, hilos
<1>15. CASE OperacionInvalida
  BY <1>15, InterfacesAssumption DEF OperacionInvalida, TypeOK, Turnos, Atendiendo,
     ConControl, Puntos, diccionario, interfaces, hilos
<1>16. CASE proceso_a_blocked
  BY <1>16, InterfacesAssumption DEF proceso_a_blocked, TypeOK, Turnos, Atendiendo,
     ConControl, Puntos, diccionario, interfaces, hilos
<1>17. CASE interfaz_encolar_solicitud_io
  BY <1>17, InterfacesAssumption DEF interfaz_encolar_solicitud_io, TypeOK, Turnos,
     Atendiendo, ConControl, Puntos, procesos, diccionario, hilos
<1>18. CASE SoltarInterfaz
  BY <1>18, InterfacesAssumption DEF SoltarInterfaz, TypeOK, Turnos, Atendiendo, ConControl,
     Puntos, procesos, diccionario, hilos
<1>19. ASSUME NEW p \in Pids, Despachar(p)
      PROVE  Turnos'
  BY <1>19, InterfacesAssumption DEF Despachar, TypeOK, Turnos, Atendiendo, ConControl,
     Puntos, diccionario, interfaces, hilos, planificador
<1>20. ASSUME NEW p \in Pids, Terminar(p)
      PROVE  Turnos'
  BY <1>20, InterfacesAssumption DEF Terminar, TypeOK, Turnos, Atendiendo, ConControl,
     Puntos, diccionario, interfaces, hilos, planificador
<1>21. ASSUME NEW p \in Pids, finalizar_proceso(p)
      PROVE  Turnos'
  BY <1>21, InterfacesAssumption DEF finalizar_proceso, TypeOK, Turnos, Atendiendo,
     ConControl, Puntos, diccionario, interfaces, hilos, planificador
<1>22. ASSUME NEW p \in Pids, NEW n \in Nombres, PedirIO(p, n)
      PROVE  Turnos'
  BY <1>22, InterfacesAssumption DEF PedirIO, TypeOK, Turnos, Atendiendo, ConControl,
     Puntos, interfaces, hilos, planificador
<1>23. CASE liberar_procesos_exit
  BY <1>23, InterfacesAssumption DEF liberar_procesos_exit, TypeOK, Turnos, Atendiendo,
     ConControl, Puntos, diccionario, interfaces, hilos, planificador
<1>24. CASE UNCHANGED vars
  BY <1>24, InterfacesAssumption DEF vars, TypeOK, Turnos, Atendiendo, ConControl, Puntos,
     diccionario, hilos, interfaces, planificador, procesos
<1>25. ASSUME NEW c \in Conexiones, ConsultarCaida(c)
      PROVE  Turnos'
  BY <1>25, InterfacesAssumption DEF ConsultarCaida, pasa, TypeOK, Turnos, Atendiendo,
     ConControl, Puntos, procesos, diccionario, interfaces, planificador
<1>26. QED
  BY <1>1, <1>2, <1>3, <1>4, <1>5, <1>6, <1>7, <1>8, <1>9, <1>10, <1>11, <1>12, <1>13,
     <1>14, <1>15, <1>16, <1>17, <1>18, <1>19, <1>20, <1>21, <1>22, <1>23, <1>24, <1>25
     DEF Next,
     PasoHilo, PasoPlanificador

(* No process has a request that it did not have.                          *)
LEMMA SinRepetirMenos ==
  ASSUME SinRepetir, \A c \in Conexiones : Pedidos(c)' \subseteq Pedidos(c),
         \A c \in Conexiones : Distintos(solicitudes[c])' /\
           Atendido(c)' \cap ToSet(solicitudes[c])' = {},
         planif' \in {"control", "operacion", "encolar"} =>
           \A c \in Conexiones : pid_io' \notin Pedidos(c)
  PROVE  SinRepetir'
  BY DEF SinRepetir

(* The places of the requests. *)
LEMMA SinRepetirPaso ==
  ASSUME TypeOK, Turnos, SinRepetir, Quietos, [Next]_vars
  PROVE  SinRepetir'
<1>1. ASSUME NEW c \in Conexiones, IniciarHilo(c)
      PROVE  SinRepetir'
  BY <1>1 DEF IniciarHilo, pasa, TypeOK, Turnos, SinRepetir, Quietos, Pedidos, Atendido,
     Atendiendo, ConControl, Puntos, procesos, diccionario, interfaces, planificador
<1>2. ASSUME NEW c \in Conexiones, interfaz_desencolar_primera_solicitud_io(c)
      PROVE  SinRepetir'
  <2>1. PICK i \in Conexiones : i = interfaz[c] /\ solicitudes[i] \in Seq(Pids) /\
               solicitudes[i] # <<>>
    BY <1>2 DEF interfaz_desencolar_primera_solicitud_io, pasa, TypeOK, Turnos
  <2> DEFINE t == Tail(solicitudes[i])
  <2>2. PICK h \in Pids : h = Head(solicitudes[i])
    BY <2>1, ElementosSinElPrimero
  <2>3. /\ ToSet(solicitudes[i]) = ToSet(t) \cup {h}
        /\ h \notin ToSet(t) /\ Distintos(t)
    BY <2>1, <2>2, ElementosSinElPrimero DEF SinRepetir
  <2>4. /\ hilo[c] = "espera" /\ hilo' = [hilo EXCEPT ![c] = "consulta"]
        /\ pcb' = [pcb EXCEPT ![c] = h]
        /\ solicitudes' = [solicitudes EXCEPT ![i] = t]
        /\ UNCHANGED <<planif, pid_io>>
    BY <1>2, <2>1, <2>2 DEF interfaz_desencolar_primera_solicitud_io, pasa, planificador
  <2> HIDE DEF t
  <2>5. /\ Atendido(c) = {} /\ Atendido(c)' = {h}
        /\ \A d \in Conexiones \ {c} : Atendido(d)' = Atendido(d)
    BY <2>4 DEF Atendido, Atendiendo, Turnos, TypeOK
  <2>6. solicitudes'[i] = t /\ \A d \in Conexiones \ {i} : solicitudes'[d] = solicitudes[d]
    BY <2>4 DEF TypeOK
  <2>7. h \in Pedidos(i)
    BY <2>3 DEF Pedidos
  <2>8. \A d \in Conexiones : \A p : p \in Pedidos(d)' <=>
          IF p = h THEN d = c ELSE p \in Pedidos(d)
    <3>1. ASSUME NEW d \in Conexiones, NEW p
          PROVE  p \in Pedidos(d)' <=> IF p = h THEN d = c ELSE p \in Pedidos(d)
      <4>1. CASE p # h
        BY <2>3, <2>5, <2>6, <4>1 DEF Pedidos
      <4>2. CASE p = h /\ d # i
        BY <2>1, <2>5, <2>6, <2>7, <4>2 DEF Pedidos, SinRepetir
      <4>3. CASE p = h /\ d = i
        <5>1. h \notin Atendido(i)
          BY <2>3 DEF SinRepetir
        <5>2. QED
          BY <2>3, <2>5, <2>6, <4>3, <5>1 DEF Pedidos
      <4>4. QED
        BY <4>1, <4>2, <4>3
    <3>2. QED
      BY <3>1
  <2>9. \A d \in Conexiones : Distintos(solicitudes'[d]) /\
          Atendido(d)' \cap ToSet(solicitudes'[d]) = {}
    <3>1. \A d \in Conexiones : Distintos(solicitudes'[d]) /\ h \notin ToSet(solicitudes'[d])
                               /\ ToSet(solicitudes'[d]) \subseteq ToSet(solicitudes[d])
      BY <2>1, <2>3, <2>6, <2>7 DEF SinRepetir, Pedidos
    <3>2. QED
      BY <2>5, <3>1 DEF SinRepetir
  <2>10. planif \in {"control", "operacion", "encolar"} => \A d \in Conexiones :
           pid_io \notin Pedidos(d)'
    BY <2>7, <2>8 DEF SinRepetir
  <2>11. \A d, e \in Conexiones : d # e => Pedidos(d)' \cap Pedidos(e)' = {}
    BY <2>8 DEF SinRepetir
  <2>12. QED
    BY <2>4, <2>9, <2>10, <2>11 DEF SinRepetir
<1>3. ASSUME NEW c \in Conexiones, Consultar(c)
      PROVE  SinRepetir'
  <2>1. /\ hilo[c] \in Atendiendo /\ \E l \in Puntos : hilo' = [hilo EXCEPT ![c] = l]
        /\ UNCHANGED <<solicitudes, planif, pid_io, pcb>>
    BY <1>3 DEF Consultar, pasa, interfaces, planificador, Atendiendo, Puntos
  <2>2. \A d \in Conexiones : Atendido(d)' \subseteq Atendido(d)
    BY <2>1 DEF Atendido, Turnos
  <2>3. \A d \in Conexiones : Pedidos(d)' \subseteq Pedidos(d)
    BY <2>1, <2>2 DEF Pedidos
  <2>4. QED
    BY <2>1, <2>2, <2>3, SinRepetirMenos DEF SinRepetir
<1>4. ASSUME NEW c \in Conexiones, Enviar(c)
      PROVE  SinRepetir'
  <2>1. PICK l \in {"recibe", "caida"} : pasa(c, "envio", l)
    BY <1>4 DEF Enviar
  <2>2. hilo' = [hilo EXCEPT ![c] = l] /\ hilo[c] = "envio" /\
          UNCHANGED <<solicitudes, planif, pid_io, pcb>>
    BY <1>4, <2>1 DEF Enviar, pasa, interfaces, planificador
  <2>3. \A d \in Conexiones : Atendido(d)' = Atendido(d) /\ Pedidos(d)' = Pedidos(d)
    BY <2>2 DEF Atendido, Atendiendo, Pedidos, Turnos
  <2>4. QED
    BY <2>2, <2>3 DEF SinRepetir
<1>5. ASSUME NEW c \in Conexiones, FinOperacion(c)
      PROVE  SinRepetir'
  <2>1. /\ hilo[c] \in Atendiendo /\ \E l \in Puntos : hilo' = [hilo EXCEPT ![c] = l]
        /\ UNCHANGED <<solicitudes, planif, pid_io, pcb>>
    BY <1>5 DEF FinOperacion, pasa, interfaces, planificador, Atendiendo, Puntos
  <2>2. \A d \in Conexiones : Atendido(d)' \subseteq Atendido(d)
    BY <2>1 DEF Atendido, Turnos
  <2>3. \A d \in Conexiones : Pedidos(d)' \subseteq Pedidos(d)
    BY <2>1, <2>2 DEF Pedidos
  <2>4. QED
    BY <2>1, <2>2, <2>3, SinRepetirMenos DEF SinRepetir
<1>6. ASSUME NEW c \in Conexiones, MandarAExit(c)
      PROVE  SinRepetir'
  <2>1. /\ hilo[c] \in Atendiendo /\ \E l \in Puntos : hilo' = [hilo EXCEPT ![c] = l]
        /\ UNCHANGED <<solicitudes, planif, pid_io, pcb>>
    BY <1>6 DEF MandarAExit, pasa, interfaces, planificador, Atendiendo, Puntos
  <2>2. \A d \in Conexiones : Atendido(d)' \subseteq Atendido(d)
    BY <2>1 DEF Atendido, Turnos
  <2>3. \A d \in Conexiones : Pedidos(d)' \subseteq Pedidos(d)
    BY <2>1, <2>2 DEF Pedidos
  <2>4. QED
    BY <2>1, <2>2, <2>3, SinRepetirMenos DEF SinRepetir
<1>7. ASSUME NEW c \in Conexiones, eliminar_interfaz(c)
      PROVE  SinRepetir'
  <2>1. /\ hilo[c] = "elimina" /\ hilo' = [hilo EXCEPT ![c] = "terminado"]
        /\ UNCHANGED <<planif, pid_io, pcb>>
    BY <1>7 DEF eliminar_interfaz, pasa, planificador
  <2>2. \A d \in Conexiones : solicitudes'[d] \in {solicitudes[d], <<>>}
    BY <1>7 DEF eliminar_interfaz, TypeOK
  <2>3. ToSet(<<>>) = {} /\ Distintos(<<>>)
    BY ListasCortas DEF Distintos
  <2>4. \A d \in Conexiones : Atendido(d)' = Atendido(d)
    BY <2>1 DEF Atendido, Turnos, Atendiendo
  <2>5. \A d \in Conexiones : Pedidos(d)' \subseteq Pedidos(d)
    BY <2>2, <2>3, <2>4 DEF Pedidos
  <2>6. \A d \in Conexiones :
          Distintos(solicitudes'[d]) /\ Atendido(d)' \cap ToSet(solicitudes'[d]) = {}
    BY <2>2, <2>3, <2>4 DEF SinRepetir
  <2>7. QED
    BY <2>1, <2>5, <2>6, SinRepetirMenos DEF SinRepetir
<1>8. CASE interfaz_encolar_solicitud_io
  <2>1. PICK i \in Conexiones, p \in Pids : i = interfaz_io /\ p = pid_io
    BY <1>8 DEF interfaz_encolar_solicitud_io, Turnos
  <2> DEFINE t == Append(solicitudes[i], p)
  <2>2. /\ solicitudes' = [solicitudes EXCEPT ![i] = t] /\ planif' = "soltar"
        /\ UNCHANGED <<hilo, pcb>>
    BY <1>8, <2>1 DEF interfaz_encolar_solicitud_io, hilos
  <2>3. \A d \in Conexiones : p \notin Pedidos(d)
    BY <1>8, <2>1 DEF interfaz_encolar_solicitud_io, SinRepetir
  <2>4. ToSet(t) = ToSet(solicitudes[i]) \cup {p} /\ Distintos(t)
    <3>1. solicitudes[i] \in Seq(Pids) /\ Distintos(solicitudes[i]) /\
            p \notin ToSet(solicitudes[i])
      BY <2>3 DEF TypeOK, SinRepetir, Pedidos
    <3>2. QED
      BY <3>1, ElementosConUnoMas
  <2> HIDE DEF t
  <2>5. solicitudes'[i] = t /\ \A d \in Conexiones \ {i} : solicitudes'[d] = solicitudes[d]
    BY <2>2 DEF TypeOK
  <2>6. \A d \in Conexiones : Atendido(d)' = Atendido(d)
    BY <2>2 DEF Atendido
  <2>7. \A d \in Conexiones : Pedidos(d)' = Pedidos(d) \cup (IF d = i THEN {p} ELSE {})
    BY <2>4, <2>5, <2>6 DEF Pedidos
  <2>8. \A d \in Conexiones :
          Distintos(solicitudes'[d]) /\ Atendido(d)' \cap ToSet(solicitudes'[d]) = {}
    BY <2>3, <2>4, <2>5, <2>6 DEF SinRepetir, Pedidos
  <2>9. QED
    BY <2>2, <2>3, <2>7, <2>8 DEF SinRepetir
<1>9. ASSUME NEW p \in Pids, NEW n \in Nombres, PedirIO(p, n)
      PROVE  SinRepetir'
  <2>1. UNCHANGED <<hilo, solicitudes, pcb>> /\ estado[p] = "EXEC"
    BY <1>9 DEF PedirIO, interfaces, hilos
  <2>2. \A d \in Conexiones : p \notin Pedidos(d)
    BY <2>1 DEF Quietos
  <2>3. \A d \in Conexiones : Atendido(d)' = Atendido(d) /\ Pedidos(d)' = Pedidos(d)
    BY <2>1 DEF Atendido, Pedidos
  <2>4. planif' \in {"control", "operacion", "encolar"} =>
          (planif' = planif /\ pid_io' = pid_io) \/ pid_io' = p
    BY <1>9 DEF PedirIO, planificador
  <2>5. QED
    BY <2>1, <2>2, <2>3, <2>4 DEF SinRepetir
<1>10. CASE TomarInterfaz \/ OperacionInvalida \/ proceso_a_blocked \/ SoltarInterfaz \/
           liberar_procesos_exit \/ (\E c \in Conexiones : Conectar(c) \/ Desconectar(c) \/
           Responder(c) \/ RecibirCorte(c) \/ TomarDiccionario(c) \/ TomarControl(c)) \/ (\E
           p \in Pids : Despachar(p) \/ Terminar(p) \/ finalizar_proceso(p)) \/ UNCHANGED
           vars
  <2>1. UNCHANGED <<solicitudes, pcb>> /\ (planif' \in {"control", "operacion", "encolar"}
       => planif \in {"control", "operacion", "encolar"} /\ pid_io' = pid_io)
    BY <1>10 DEF vars, Conectar, Desconectar, Responder, pasa, RecibirCorte, TomarDiccionario,
       TomarControl, TomarInterfaz, OperacionInvalida, proceso_a_blocked, SoltarInterfaz,
       Despachar, Terminar, finalizar_proceso, liberar_procesos_exit, procesos, diccionario,
       interfaces, hilos, planificador
  <2>2. \A d \in Conexiones : hilo'[d] \in Atendiendo <=> hilo[d] \in Atendiendo
    <3>1. ASSUME NEW c \in Conexiones, Conectar(c) \/ Desconectar(c) \/ Responder(c) \/
         RecibirCorte(c) \/ TomarDiccionario(c) \/ TomarControl(c) PROVE \A d \in Conexiones
         : hilo'[d] \in Atendiendo <=> hilo[d] \in Atendiendo
      BY <3>1 DEF Conectar, Desconectar, Responder, pasa, RecibirCorte, TomarDiccionario,
         TomarControl, diccionario, hilos, interfaces, planificador, procesos, Turnos,
         Atendiendo
    <3>2. CASE TomarInterfaz \/ OperacionInvalida \/ proceso_a_blocked \/ SoltarInterfaz \/
         liberar_procesos_exit \/ (\E p \in Pids : Despachar(p) \/ Terminar(p) \/
         finalizar_proceso(p)) \/ UNCHANGED vars
      BY <3>2 DEF vars, TomarInterfaz, OperacionInvalida, proceso_a_blocked, SoltarInterfaz,
         Despachar, Terminar, finalizar_proceso, liberar_procesos_exit, diccionario, hilos,
         interfaces, planificador, procesos
    <3>3. QED
      BY <1>10, <3>1, <3>2
  <2>3. \A d \in Conexiones : Atendido(d)' = Atendido(d) /\ Pedidos(d)' = Pedidos(d)
    BY <2>1, <2>2 DEF Atendido, Pedidos
  <2>4. QED
    BY <2>1, <2>3 DEF SinRepetir
<1>11. ASSUME NEW c \in Conexiones, ConsultarCaida(c)
      PROVE  SinRepetir'
  <2>1. /\ hilo[c] \in Atendiendo /\ \E l \in Puntos : hilo' = [hilo EXCEPT ![c] = l]
        /\ UNCHANGED <<solicitudes, planif, pid_io, pcb>>
    BY <1>11 DEF ConsultarCaida, pasa, interfaces, planificador, Atendiendo, Puntos
  <2>2. \A d \in Conexiones : Atendido(d)' \subseteq Atendido(d)
    BY <2>1 DEF Atendido, Turnos
  <2>3. \A d \in Conexiones : Pedidos(d)' \subseteq Pedidos(d)
    BY <2>1, <2>2 DEF Pedidos
  <2>4. QED
    BY <2>1, <2>2, <2>3, SinRepetirMenos DEF SinRepetir
<1>12. QED
  BY <1>1, <1>2, <1>3, <1>4, <1>5, <1>6, <1>7, <1>8, <1>9, <1>10, <1>11 DEF Next, PasoHilo,
     PasoPlanificador

(* No process has a request that it did not have, and the processes that   *)
(* have one do not change.                                                 *)
LEMMA QuietosIgual ==
  ASSUME Quietos, UNCHANGED <<estado, colaExit, aFinalizar>>,
         \A c \in Conexiones : Pedidos(c)' \subseteq Pedidos(c),
         planif' \in {"control", "operacion", "encolar"} => UNCHANGED <<planif, pid_io>>
  PROVE  Quietos'
  BY DEF Quietos

(* The processes of s leave the places of their requests and go to EXIT.   *)
LEMMA QuietosTrasExit ==
  ASSUME TypeOK, Turnos, Quietos, NEW s \in Seq(Pids), procesos_a_exit(s), UNCHANGED aFinalizar,
         \A c \in Conexiones : Pedidos(c)' \subseteq Pedidos(c) \ ToSet(s),
         planif' \in {"control", "operacion", "encolar"} =>
           UNCHANGED <<planif, pid_io>> /\ pid_io \notin ToSet(s)
  PROVE  Quietos'
<1>1. /\ \A p \in Pids : estado'[p] = IF p \in ToSet(s) THEN "EXIT" ELSE estado[p]
      /\ \A p : p \in ToSet(colaExit') <=> p \in ToSet(colaExit) \/ p \in ToSet(s)
      /\ \A p : UnaVez(colaExit, p) /\ p \notin ToSet(s) => UnaVez(colaExit', p)
  BY TrasExit
<1>2. ToSet(colaExit) \subseteq Pids /\ ToSet(s) \subseteq Pids /\ aFinalizar \subseteq Pids
  BY ElementosDe DEF TypeOK
<1>3. ASSUME NEW c \in Conexiones, NEW p \in Pedidos(c)'
      PROVE  /\ estado'[p] \in {"BLOCKED", "EXIT", "LIBERADO"}
             /\ p \in ToSet(colaExit') =>
                  estado'[p] = "EXIT" /\ p \in aFinalizar' /\ UnaVez(colaExit', p)
  <2>1. p \in Pedidos(c) /\ p \notin ToSet(s)
    BY <1>3
  <2>2. p \in Pids
    BY <2>1, ElementosDe DEF Pedidos, Atendido, Atendiendo, TypeOK, Turnos
  <2>3. QED
    BY <1>1, <2>1, <2>2 DEF Quietos
<1>4. ASSUME planif' \in {"control", "operacion", "encolar"}
      PROVE  estado'[pid_io'] = estado[pid_io]
  BY <1>1, <1>4 DEF Turnos, ConControl
<1>5. planif' \in {"control", "operacion", "encolar"} => planif' = planif
  OBVIOUS
<1>6. \A p \in ToSet(colaExit') : estado'[p] \in {"EXIT", "LIBERADO"}
  BY <1>1, <1>2 DEF Quietos
<1>7. \A p \in aFinalizar' : estado'[p] = "EXIT"
  BY <1>1, <1>2 DEF Quietos
<1>8. QED
  BY <1>3, <1>4, <1>5, <1>6, <1>7 DEF Quietos

(* The processes with a request. *)
LEMMA QuietosPaso ==
  ASSUME TypeOK, Turnos, SinRepetir, Quietos, [Next]_vars
  PROVE  Quietos'
<1>1. ASSUME NEW c \in Conexiones, interfaz_desencolar_primera_solicitud_io(c)
      PROVE  Quietos'
  <2>1. PICK i \in Conexiones : i = interfaz[c] /\ solicitudes[i] \in Seq(Pids) /\
               solicitudes[i] # <<>>
    BY <1>1 DEF interfaz_desencolar_primera_solicitud_io, pasa, TypeOK, Turnos
  <2> DEFINE t == Tail(solicitudes[i])
  <2>2. PICK h \in Pids : h = Head(solicitudes[i])
    BY <2>1, ElementosSinElPrimero
  <2>3. ToSet(solicitudes[i]) = ToSet(t) \cup {h}
    BY <2>1, <2>2, ElementosSinElPrimero
  <2>4. /\ hilo' = [hilo EXCEPT ![c] = "consulta"] /\ pcb' = [pcb EXCEPT ![c] = h]
        /\ solicitudes' = [solicitudes EXCEPT ![i] = t]
        /\ UNCHANGED <<planif, pid_io, estado, colaExit, aFinalizar>>
    BY <1>1, <2>1, <2>2 DEF interfaz_desencolar_primera_solicitud_io, pasa, planificador, procesos
  <2> HIDE DEF t
  <2>5. /\ Atendido(c)' = {h} /\ h \in Pedidos(i)
        /\ \A d \in Conexiones \ {c} : Atendido(d)' = Atendido(d)
    BY <2>3, <2>4 DEF Atendido, Atendiendo, Turnos, TypeOK, Pedidos
  <2>6. \A d \in Conexiones : ToSet(solicitudes'[d]) \subseteq ToSet(solicitudes[d])
    BY <2>3, <2>4 DEF TypeOK
  <2>7. \A d \in Conexiones : \A p \in Pedidos(d)' : \E e \in Conexiones : p \in Pedidos(e)
    BY <2>5, <2>6 DEF Pedidos
  <2>8. QED
    BY <2>4, <2>7 DEF Quietos
<1>2. ASSUME NEW c \in Conexiones, Consultar(c)
      PROVE  Quietos'
  <2>1. UNCHANGED <<solicitudes, pcb, estado, colaExit, aFinalizar>> /\ (planif' \in
       {"control", "operacion", "encolar"} => UNCHANGED <<planif, pid_io>>)
    BY <1>2 DEF Consultar, pasa, procesos, diccionario, interfaces, planificador
  <2>2. \A d \in Conexiones : hilo'[d] \in Atendiendo => hilo[d] \in Atendiendo
    BY <1>2 DEF Consultar, pasa, Turnos, Atendiendo
  <2>3. \A d \in Conexiones : Pedidos(d)' \subseteq Pedidos(d)
    BY <2>1, <2>2 DEF Atendido, Pedidos
  <2>4. QED
    BY <2>1, <2>3, QuietosIgual
<1>3. ASSUME NEW c \in Conexiones, Enviar(c)
      PROVE  Quietos'
  <2>1. UNCHANGED <<solicitudes, pcb, estado, colaExit, aFinalizar>> /\ (planif' \in
       {"control", "operacion", "encolar"} => UNCHANGED <<planif, pid_io>>)
    BY <1>3 DEF Enviar, pasa, procesos, diccionario, interfaces, planificador
  <2>2. \A d \in Conexiones : hilo'[d] \in Atendiendo => hilo[d] \in Atendiendo
    BY <1>3 DEF Enviar, pasa, Turnos, Atendiendo
  <2>3. \A d \in Conexiones : Pedidos(d)' \subseteq Pedidos(d)
    BY <2>1, <2>2 DEF Atendido, Pedidos
  <2>4. QED
    BY <2>1, <2>3, QuietosIgual
<1>4. ASSUME NEW c \in Conexiones, FinOperacion(c)
      PROVE  Quietos'
  <2>0. PICK p \in Pids : p = pcb[c]
    BY <1>4 DEF FinOperacion, pasa, Turnos, Atendiendo
  <2>1. PICK v \in sigue_vivo(p) :
          /\ hilo[c] = "fin" /\ hilo' = [hilo EXCEPT ![c] = "espera"]
          /\ estado' = IF v THEN [estado EXCEPT ![p] = "READY"] ELSE estado
          /\ UNCHANGED <<solicitudes, planif, pid_io, pcb, colaExit, aFinalizar>>
    BY <1>4, <2>0 DEF FinOperacion, pasa, Turnos, Atendiendo, interfaces, planificador
  <2>2. Atendido(c)' = {} /\ \A d \in Conexiones \ {c} : Atendido(d)' = Atendido(d)
    BY <2>1 DEF Atendido, Atendiendo, Turnos
  <2>3. p \in Atendido(c)
    BY <2>0, <2>1 DEF Atendido, Atendiendo
  <2>4. \A d \in Conexiones : p \notin Pedidos(d)' /\ Pedidos(d)' \subseteq Pedidos(d)
    BY <2>1, <2>2, <2>3 DEF Pedidos, SinRepetir
  <2>5. CASE ~v
    BY <2>1, <2>4, <2>5, QuietosIgual
  <2>6. CASE v
    <3>1. /\ estado' = [estado EXCEPT ![p] = "READY"]
          /\ estado[p] = "LIBERADO" \/ p \notin aFinalizar
      BY <2>1, <2>6 DEF sigue_vivo
    <3>2. p \notin ToSet(colaExit)
      BY <2>3, <3>1 DEF Quietos, Pedidos
    <3>3. p \notin aFinalizar
      BY <3>1 DEF Quietos
    <3>4. planif \in {"control", "operacion", "encolar"} => pid_io # p
      BY <2>3 DEF SinRepetir, Pedidos
    <3>5. \A q : q # p => estado'[q] = estado[q]
      BY <3>1 DEF TypeOK
    <3>6. QED
      BY <2>1, <2>4, <3>2, <3>3, <3>4, <3>5 DEF Quietos
  <2>7. QED
    BY <2>5, <2>6
<1>5. ASSUME NEW c \in Conexiones, MandarAExit(c)
      PROVE  Quietos'
  <2>1. PICK p \in Pids, s \in Seq(Pids) :
          /\ p = pcb[c] /\ hilo[c] = "manda" /\ hilo' = [hilo EXCEPT ![c] = "baja"]
          /\ procesos_a_exit(s) /\ ToSet(s) \subseteq {p}
          /\ UNCHANGED <<solicitudes, planif, pid_io, pcb, aFinalizar>>
    BY <1>5, ListasCortas DEF MandarAExit, pasa, Turnos, Atendiendo, interfaces, planificador
  <2>2. Atendido(c)' = {} /\ \A d \in Conexiones \ {c} : Atendido(d)' = Atendido(d)
    BY <2>1 DEF Atendido, Atendiendo, Turnos
  <2>3. p \in Atendido(c)
    BY <2>1 DEF Atendido, Atendiendo
  <2>4. \A d \in Conexiones : Pedidos(d)' \subseteq Pedidos(d) \ ToSet(s)
    BY <2>1, <2>2, <2>3 DEF Pedidos, SinRepetir
  <2>5. planif \in {"control", "operacion", "encolar"} => pid_io # p
    BY <2>3 DEF SinRepetir, Pedidos
  <2>6. QED
    BY <2>1, <2>4, <2>5, QuietosTrasExit
<1>6. ASSUME NEW c \in Conexiones, eliminar_interfaz(c)
      PROVE  Quietos'
  <2>1. /\ hilo[c] = "elimina" /\ hilo' = [hilo EXCEPT ![c] = "terminado"]
        /\ UNCHANGED <<planif, pid_io, pcb, aFinalizar>>
    BY <1>6 DEF eliminar_interfaz, pasa, planificador
  <2>2. \A d \in Conexiones : Atendido(d)' = Atendido(d)
    BY <2>1 DEF Atendido, Turnos, Atendiendo
  <2>3. CASE dic[nombre[c]] = Ninguno
    <3>1. UNCHANGED <<estado, colaExit, solicitudes>>
      BY <1>6, <2>3 DEF eliminar_interfaz
    <3>2. QED
      BY <2>1, <2>2, <3>1, QuietosIgual DEF Pedidos
  <2>4. CASE dic[nombre[c]] # Ninguno
    <3>1. PICK i \in Conexiones : i = dic[nombre[c]]
      BY <2>4, InterfacesAssumption DEF TypeOK
    <3>2. /\ solicitudes[i] \in Seq(Pids) /\ procesos_a_exit(solicitudes[i])
          /\ solicitudes' = [solicitudes EXCEPT ![i] = <<>>]
      BY <1>6, <2>4, <3>1 DEF eliminar_interfaz, TypeOK
    <3>3. \A d \in Conexiones :
            ToSet(solicitudes'[d]) = IF d = i THEN {} ELSE ToSet(solicitudes[d])
      BY <3>2, ListasCortas DEF TypeOK
    <3>4. \A d \in Conexiones : Pedidos(d)' \subseteq Pedidos(d) \ ToSet(solicitudes[i])
      BY <2>2, <3>3 DEF Pedidos, SinRepetir
    <3>5. planif \in {"control", "operacion", "encolar"} => pid_io \notin ToSet(solicitudes[i])
      BY DEF SinRepetir, Pedidos
    <3>6. QED
      BY <2>1, <3>2, <3>4, <3>5, QuietosTrasExit
  <2>5. QED
    BY <2>3, <2>4
<1>7. CASE TomarInterfaz
  <2>1. /\ UNCHANGED <<hilo, pcb, solicitudes, estado, colaExit, aFinalizar, pid_io>>
        /\ planif = "control" /\ planif' = "operacion"
    BY <1>7 DEF TomarInterfaz, procesos, hilos
  <2>2. \A d \in Conexiones : Pedidos(d)' = Pedidos(d)
    BY <2>1 DEF Pedidos, Atendido
  <2>3. QED
    BY <2>1, <2>2 DEF Quietos
<1>8. CASE OperacionInvalida
  <2>1. PICK p \in Pids : p = pid_io
    BY <1>8 DEF OperacionInvalida, Turnos
  <2>2. /\ procesos_a_exit(<<p>>) /\ <<p>> \in Seq(Pids) /\ ToSet(<<p>>) = {p}
        /\ UNCHANGED <<hilo, pcb, solicitudes, aFinalizar>> /\ planif' = "soltar"
    BY <1>8, <2>1, ListasCortas DEF OperacionInvalida, hilos, interfaces
  <2>3. \A d \in Conexiones : p \notin Pedidos(d)
    BY <1>8, <2>1 DEF OperacionInvalida, SinRepetir
  <2>4. \A d \in Conexiones : Pedidos(d)' = Pedidos(d)
    BY <2>2 DEF Pedidos, Atendido
  <2>5. QED
    BY <2>2, <2>3, <2>4, QuietosTrasExit
<1>9. CASE proceso_a_blocked
  <2>1. PICK p \in Pids : p = pid_io
    BY <1>9 DEF proceso_a_blocked, Turnos
  <2>2. /\ estado' = [estado EXCEPT ![p] = "BLOCKED"] /\ estado[p] = "EXEC" /\ planif' = "encolar"
        /\ UNCHANGED <<hilo, pcb, solicitudes, colaExit, aFinalizar, pid_io>>
    BY <1>9, <2>1 DEF proceso_a_blocked, interfaces, hilos, Quietos
  <2>3. \A d \in Conexiones : p \notin Pedidos(d) /\ Pedidos(d)' = Pedidos(d)
    BY <1>9, <2>1, <2>2 DEF proceso_a_blocked, SinRepetir, Pedidos, Atendido
  <2>4. p \notin ToSet(colaExit) /\ p \notin aFinalizar
    BY <2>2 DEF Quietos
  <2>5. estado'[p] = "BLOCKED" /\ \A q : q # p => estado'[q] = estado[q]
    BY <2>2 DEF TypeOK
  <2>6. QED
    BY <2>1, <2>2, <2>3, <2>4, <2>5 DEF Quietos
<1>10. CASE interfaz_encolar_solicitud_io
  <2>1. PICK i \in Conexiones, p \in Pids : i = interfaz_io /\ p = pid_io
    BY <1>10 DEF interfaz_encolar_solicitud_io, Turnos
  <2> DEFINE t == Append(solicitudes[i], p)
  <2>2. /\ solicitudes' = [solicitudes EXCEPT ![i] = t] /\ planif' = "soltar"
        /\ estado[p] = "BLOCKED"
        /\ UNCHANGED <<hilo, pcb, estado, colaExit, aFinalizar>>
    BY <1>10, <2>1 DEF interfaz_encolar_solicitud_io, hilos, procesos, Quietos
  <2>3. p \notin ToSet(colaExit)
    BY <2>2 DEF Quietos
  <2>4. ToSet(t) = ToSet(solicitudes[i]) \cup {p}
    BY ElementosConUnoMas DEF TypeOK
  <2> HIDE DEF t
  <2>5. \A d \in Conexiones : ToSet(solicitudes'[d]) \subseteq ToSet(solicitudes[d]) \cup {p}
    BY <2>2, <2>4 DEF TypeOK
  <2>6. \A d \in Conexiones : Pedidos(d)' \subseteq Pedidos(d) \cup {p}
    BY <2>2, <2>5 DEF Pedidos, Atendido
  <2>7. QED
    BY <2>2, <2>3, <2>6 DEF Quietos
<1>11. ASSUME NEW p \in Pids, Despachar(p)
      PROVE  Quietos'
  <2>1. /\ estado[p] = "READY" /\ estado' = [estado EXCEPT ![p] = "EXEC"] /\ planif' = "libre"
        /\ UNCHANGED <<hilo, pcb, solicitudes, colaExit, aFinalizar>>
    BY <1>11 DEF Despachar, interfaces, hilos, planificador
  <2>2. \A d \in Conexiones : p \notin Pedidos(d) /\ Pedidos(d)' = Pedidos(d)
    BY <2>1 DEF Quietos, Pedidos, Atendido
  <2>3. p \notin ToSet(colaExit) /\ p \notin aFinalizar
    BY <2>1 DEF Quietos
  <2>4. \A q : q # p => estado'[q] = estado[q]
    BY <2>1 DEF TypeOK
  <2>5. QED
    BY <2>1, <2>2, <2>3, <2>4 DEF Quietos
<1>12. ASSUME NEW p \in Pids, Terminar(p)
      PROVE  Quietos'
  <2>1. /\ procesos_a_exit(<<p>>) /\ <<p>> \in Seq(Pids) /\ ToSet(<<p>>) = {p}
        /\ estado[p] = "EXEC" /\ planif' = "libre"
        /\ UNCHANGED <<hilo, pcb, solicitudes, aFinalizar>>
    BY <1>12, ListasCortas DEF Terminar, hilos, interfaces, planificador
  <2>2. \A d \in Conexiones : Pedidos(d)' = Pedidos(d) /\ p \notin Pedidos(d)
    BY <2>1 DEF Pedidos, Atendido, Quietos
  <2>3. QED
    BY <2>1, <2>2, QuietosTrasExit
<1>13. ASSUME NEW p \in Pids, finalizar_proceso(p)
      PROVE  Quietos'
  <2>1. /\ UNCHANGED <<hilo, pcb, solicitudes>> /\ planif' = "libre"
        /\ aFinalizar' = aFinalizar \cup {p}
        /\ estado[p] \in {"BLOCKED", "EXIT"}
    BY <1>13 DEF finalizar_proceso, hilos, interfaces, planificador
  <2>2. \A d \in Conexiones : Pedidos(d)' = Pedidos(d) /\ Pedidos(d) \subseteq Pids
    BY <2>1, ElementosDe DEF Pedidos, Atendido, Turnos, TypeOK
  <2>3. CASE estado[p] = "EXIT"
    <3>1. procesos_a_exit(<<>>) /\ <<>> \in Seq(Pids) /\ ToSet(<<>>) = {}
      BY <1>13, <2>3, ListasCortas DEF finalizar_proceso
    <3>2. /\ \A q \in Pids : estado'[q] = estado[q]
          /\ \A q : q \in ToSet(colaExit') <=> q \in ToSet(colaExit)
          /\ \A q : UnaVez(colaExit, q) => UnaVez(colaExit', q)
      BY <3>1, TrasExit
    <3>3. ToSet(colaExit) \subseteq Pids /\ aFinalizar \subseteq Pids
      BY ElementosDe DEF TypeOK
    <3>4. QED
      BY <2>1, <2>2, <2>3, <3>2, <3>3 DEF Quietos
  <2>4. CASE estado[p] = "BLOCKED"
    <3>1. procesos_a_exit(<<p>>) /\ <<p>> \in Seq(Pids) /\ ToSet(<<p>>) = {p}
      BY <1>13, <2>4, ListasCortas DEF finalizar_proceso
    <3>2. UnaVez(<<p>>, p)
      BY DEF UnaVez
    <3>3. p \notin ToSet(colaExit)
      BY <2>4 DEF Quietos
    <3>4. /\ \A q \in Pids : estado'[q] = IF q = p THEN "EXIT" ELSE estado[q]
          /\ \A q : q \in ToSet(colaExit') <=> q \in ToSet(colaExit) \/ q = p
          /\ \A q : UnaVez(colaExit, q) /\ q # p => UnaVez(colaExit', q)
          /\ UnaVez(colaExit', p)
      BY <3>1, <3>2, <3>3, TrasExit
    <3>5. ToSet(colaExit) \subseteq Pids /\ aFinalizar \subseteq Pids
      BY ElementosDe DEF TypeOK
    <3>6. ASSUME NEW d \in Conexiones, NEW q \in Pedidos(d)
          PROVE  /\ estado'[q] \in {"BLOCKED", "EXIT", "LIBERADO"}
                 /\ q \in ToSet(colaExit') =>
                      estado'[q] = "EXIT" /\ q \in aFinalizar' /\ UnaVez(colaExit', q)
      BY <2>1, <2>2, <3>4 DEF Quietos
    <3>7. QED
      BY <2>1, <2>2, <3>4, <3>5, <3>6 DEF Quietos
  <2>5. QED
    BY <2>1, <2>3, <2>4
<1>14. ASSUME NEW p \in Pids, NEW n \in Nombres, PedirIO(p, n)
      PROVE  Quietos'
  <2>1. estado[p] = "EXEC" /\ planif = "libre" /\ UNCHANGED <<hilo, pcb, solicitudes, aFinalizar>>
    BY <1>14 DEF PedirIO, hilos, interfaces
  <2>2. \A d \in Conexiones : Pedidos(d)' = Pedidos(d) /\ p \notin Pedidos(d)
    BY <2>1 DEF Pedidos, Atendido, Quietos
  <2>3. CASE dic[n] = Ninguno
    <3>1. /\ procesos_a_exit(<<p>>) /\ <<p>> \in Seq(Pids) /\ ToSet(<<p>>) = {p}
          /\ planif' = "libre"
      BY <1>14, <2>3, ListasCortas DEF PedirIO, planificador
    <3>2. QED
      BY <2>1, <2>2, <3>1, QuietosTrasExit
  <2>4. CASE dic[n] # Ninguno
    <3>1. planif' = "control" /\ pid_io' = p /\ UNCHANGED <<estado, colaExit>>
      BY <1>14, <2>4 DEF PedirIO
    <3>2. QED
      BY <2>1, <2>2, <3>1 DEF Quietos
  <2>5. QED
    BY <2>3, <2>4
<1>15. CASE liberar_procesos_exit
  <2>1. PICK h \in Pids : h = Head(colaExit)
    BY <1>15, ElementosSinElPrimero DEF liberar_procesos_exit, TypeOK
  <2>2. /\ colaExit \in Seq(Pids) /\ colaExit # <<>> /\ colaExit' = Tail(colaExit)
        /\ estado' = [estado EXCEPT ![h] = "LIBERADO"] /\ aFinalizar' = aFinalizar \ {h}
        /\ UNCHANGED <<hilo, pcb, solicitudes, planif, pid_io>>
    BY <1>15, <2>1 DEF liberar_procesos_exit, TypeOK, hilos, interfaces, planificador
  <2>3. ToSet(colaExit) = ToSet(colaExit') \cup {h}
    BY <2>1, <2>2, ElementosSinElPrimero
  <2>4. \A q : UnaVez(colaExit, q) => UnaVez(colaExit', q) /\ (q = h => q \notin ToSet(colaExit'))
    BY <2>1, <2>2, UnaVezSinElPrimero
  <2>5. \A d \in Conexiones : Pedidos(d)' = Pedidos(d)
    BY <2>2 DEF Pedidos, Atendido
  <2>6. estado'[h] = "LIBERADO" /\ \A q : q # h => estado'[q] = estado[q]
    BY <2>2 DEF TypeOK
  <2>7. planif \in {"control", "operacion", "encolar"} => pid_io # h
    BY <2>3 DEF Quietos
  <2>8. QED
    BY <2>2, <2>3, <2>4, <2>5, <2>6, <2>7 DEF Quietos
<1>16. CASE SoltarInterfaz \/ (\E c \in Conexiones : Conectar(c) \/ Desconectar(c) \/
           IniciarHilo(c) \/ Responder(c) \/ RecibirCorte(c) \/ TomarDiccionario(c) \/
           TomarControl(c)) \/ UNCHANGED vars
  <2>1. UNCHANGED <<solicitudes, pcb, estado, colaExit, aFinalizar>> /\ (planif' \in
       {"control", "operacion", "encolar"} => UNCHANGED <<planif, pid_io>>)
    BY <1>16 DEF vars, Conectar, Desconectar, IniciarHilo, pasa, Responder, RecibirCorte,
       TomarDiccionario, TomarControl, SoltarInterfaz, procesos, diccionario, interfaces,
       hilos, planificador
  <2>2. \A d \in Conexiones : hilo'[d] \in Atendiendo <=> hilo[d] \in Atendiendo
    <3>1. ASSUME NEW c \in Conexiones, Conectar(c) \/ Desconectar(c) \/ IniciarHilo(c) \/
         Responder(c) \/ RecibirCorte(c) \/ TomarDiccionario(c) \/ TomarControl(c) PROVE \A
         d \in Conexiones : hilo'[d] \in Atendiendo <=> hilo[d] \in Atendiendo
      BY <3>1 DEF Conectar, Desconectar, IniciarHilo, pasa, Responder, RecibirCorte,
         TomarDiccionario, TomarControl, diccionario, hilos, interfaces, planificador,
         procesos, Turnos, Atendiendo
    <3>2. CASE SoltarInterfaz \/ UNCHANGED vars
      BY <3>2 DEF vars, SoltarInterfaz, diccionario, hilos, planificador, procesos
    <3>3. QED
      BY <1>16, <3>1, <3>2
  <2>3. \A d \in Conexiones : Pedidos(d)' \subseteq Pedidos(d)
    BY <2>1, <2>2 DEF Atendido, Pedidos
  <2>4. QED
    BY <2>1, <2>3, QuietosIgual
<1>17. ASSUME NEW c \in Conexiones, ConsultarCaida(c)
      PROVE  Quietos'
  <2>1. UNCHANGED <<solicitudes, pcb, estado, colaExit, aFinalizar>> /\ (planif' \in
       {"control", "operacion", "encolar"} => UNCHANGED <<planif, pid_io>>)
    BY <1>17 DEF ConsultarCaida, pasa, procesos, diccionario, interfaces, planificador
  <2>2. \A d \in Conexiones : hilo'[d] \in Atendiendo => hilo[d] \in Atendiendo
    BY <1>17 DEF ConsultarCaida, pasa, Turnos, Atendiendo
  <2>3. \A d \in Conexiones : Pedidos(d)' \subseteq Pedidos(d)
    BY <2>1, <2>2 DEF Atendido, Pedidos
  <2>4. QED
    BY <2>1, <2>3, QuietosIgual
<1>18. QED
  BY <1>1, <1>2, <1>3, <1>4, <1>5, <1>6, <1>7, <1>8, <1>9, <1>10, <1>11, <1>12, <1>13,
     <1>14, <1>15, <1>16, <1>17 DEF Next, PasoHilo, PasoPlanificador

(* The invariant holds at the start.                                       *)
LEMMA InvInicial == Init => InvInterfaces
<1> SUFFICES ASSUME Init
             PROVE  InvInterfaces
  OBVIOUS
<1>1. ToSet(<<>>) = {} /\ <<>> \in Seq(Pids) /\ Distintos(<<>>)
  BY ListasCortas DEF Distintos
<1>2. TypeOK /\ Turnos
  BY <1>1 DEF Init, TypeOK, Turnos, Puntos, ConControl, Atendiendo
<1>3. \A c \in Conexiones : Pedidos(c) = {} /\ Atendido(c) = {}
  BY <1>1 DEF Init, Pedidos, Atendido, Atendiendo
<1>4. SinRepetir /\ Quietos
  BY <1>1, <1>3 DEF Init, SinRepetir, Quietos
<1>5. QED
  BY <1>2, <1>4 DEF InvInterfaces

(* The invariant is inductive.                                             *)
LEMMA InvPaso == InvInterfaces /\ [Next]_vars => InvInterfaces'
  BY TypeOKPaso, TurnosPaso, SinRepetirPaso, QuietosPaso DEF InvInterfaces

(* The invariant holds in every behaviour, whatever the names that the     *)
(* connections announce: also when an interface connects again under the   *)
(* name of one that is being removed.                                      *)
THEOREM InvarianteDeInterfaces == Spec => []InvInterfaces
<1>1. Init => InvInterfaces
  BY InvInicial
<1>2. InvInterfaces /\ [Next]_vars => InvInterfaces'
  BY InvPaso
<1>3. QED
  BY <1>1, <1>2, PTL DEF Spec

(* The variables of the kernel keep their types; the semaphore of an       *)
(* interface is 0 or 1, whoever posts it.                                  *)
THEOREM TiposDeInterfaces == Spec => []TypeOK
<1>1. InvInterfaces => TypeOK
  BY DEF InvInterfaces
<1>2. QED
  BY <1>1, InvarianteDeInterfaces, PTL

-----------------------------------------------------------------------------
(* A request is in one place.                                              *)

(* The places of PedidoUnico are those of SinRepetir.                      *)
LEMMA UnSoloPedido ==
  ASSUME InvInterfaces
  PROVE  PedidoUnico
<1> SUFFICES ASSUME NEW p \in Pids
             PROVE  LET enListas == UNION {{<<c, k>> : k \in {k \in DOMAIN solicitudes[c] :
                                                                solicitudes[c][k] = p}} :
                                             c \in Conexiones}
                        enHilos == {c \in Conexiones : hilo[c] \in Atendiendo /\ pcb[c] = p}
                    IN Cardinality(enListas) + Cardinality(enHilos)
                         + (IF EnPlanificador(p) THEN 1 ELSE 0) <= 1
  BY DEF PedidoUnico
<1> DEFINE enListas == UNION {{<<c, k>> : k \in {k \in DOMAIN solicitudes[c] :
                                                   solicitudes[c][k] = p}} : c \in Conexiones}
           enHilos == {c \in Conexiones : hilo[c] \in Atendiendo /\ pcb[c] = p}
           enPlanif == IF EnPlanificador(p) THEN 1 ELSE 0
<1>1. /\ \A x : x \in enListas <=> \E c \in Conexiones : \E k \in DOMAIN solicitudes[c] :
                                     x = <<c, k>> /\ solicitudes[c][k] = p
      /\ \A c : c \in enHilos <=> c \in Conexiones /\ p \in Atendido(c)
      /\ \A c \in Conexiones : p \in ToSet(solicitudes[c]) <=>
                                 \E k \in DOMAIN solicitudes[c] : solicitudes[c][k] = p
      /\ enPlanif \in {0, 1}
      /\ enPlanif = 1 => \A c \in Conexiones : p \notin Pedidos(c)
  BY DEF Atendido, ToSet, EnPlanificador, InvInterfaces, SinRepetir
<1>2. /\ Cardinality({}) = 0
      /\ \A x : Cardinality({x}) = 1
  BY FS_EmptySet, FS_Singleton
<1>3. /\ \A c, d \in Conexiones : p \in Pedidos(c) /\ p \in Pedidos(d) => c = d
      /\ \A c \in Conexiones : Distintos(solicitudes[c])
                               /\ ~(p \in Atendido(c) /\ p \in ToSet(solicitudes[c]))
      /\ \A c \in Conexiones : p \in Pedidos(c) <=>
                                 p \in ToSet(solicitudes[c]) \/ p \in Atendido(c)
  BY DEF InvInterfaces, SinRepetir, Pedidos
<1> HIDE DEF enListas, enHilos, enPlanif
<1>4. CASE \E c \in Conexiones : p \in ToSet(solicitudes[c])
  <2>0. PICK c \in Conexiones : p \in ToSet(solicitudes[c])
    BY <1>4
  <2>1. PICK k \in DOMAIN solicitudes[c] : solicitudes[c][k] = p
    BY <1>1, <2>0
  <2>2. \A x : x \in enListas <=> x = <<c, k>>
    BY <1>1, <1>3, <2>0, <2>1 DEF Distintos
  <2>3. enListas = {<<c, k>>} /\ enHilos = {} /\ enPlanif = 0
    BY <1>1, <1>3, <2>0, <2>1, <2>2
  <2>4. Cardinality(enListas) = 1 /\ Cardinality(enHilos) = 0
    BY <1>2, <2>3
  <2>5. QED
    BY <2>3, <2>4 DEF enListas, enHilos, enPlanif
<1>5. CASE ~\E c \in Conexiones : p \in ToSet(solicitudes[c])
  <2>1. enListas = {} /\ Cardinality(enListas) = 0
    BY <1>1, <1>2, <1>5
  <2>2. CASE enHilos = {}
    <3>1. Cardinality(enHilos) = 0
      BY <1>2, <2>2
    <3>2. Cardinality(enListas) + Cardinality(enHilos) + enPlanif <= 1
      BY <1>1, <2>1, <3>1
    <3>3. QED
      BY <3>2 DEF enListas, enHilos, enPlanif
  <2>3. CASE enHilos # {}
    <3>1. PICK c \in Conexiones : p \in Atendido(c)
      BY <1>1, <2>3
    <3>2. enHilos = {c} /\ enPlanif = 0
      BY <1>1, <1>3, <3>1
    <3>3. Cardinality(enHilos) = 1
      BY <1>2, <3>2
    <3>4. Cardinality(enListas) + Cardinality(enHilos) + enPlanif <= 1
      BY <2>1, <3>2, <3>3
    <3>5. QED
      BY <3>4 DEF enListas, enHilos, enPlanif
  <2>4. QED
    BY <2>2, <2>3
<1>6. QED
  BY <1>4, <1>5

(* The request of a process is in one place at most, for every number of   *)
(* interfaces and whatever their names: no request is attended twice and   *)
(* no process is sent both to READY and to EXIT by it.                     *)
THEOREM UnPedidoEnUnLugar == Spec => []PedidoUnico
<1>1. InvInterfaces => PedidoUnico
  BY UnSoloPedido
<1>2. QED
  BY <1>1, InvarianteDeInterfaces, PTL

-----------------------------------------------------------------------------
(* Blocked processes.                                                      *)

(* A process that is blocked has a request somewhere.                      *)
Recordados ==
  \A p \in Pids :
    estado[p] = "BLOCKED" => EnPlanificador(p) \/ \E c \in Conexiones : p \in Pedidos(c)

(* No process is blocked that was not, no request is lost but those of     *)
(* processes that are not blocked any more.                                *)
LEMMA RecordadosIgual ==
  ASSUME Recordados,
         \A p \in Pids : estado'[p] = "BLOCKED" =>
           /\ estado[p] = "BLOCKED" /\ (EnPlanificador(p) => EnPlanificador(p)')
           /\ \A c \in Conexiones : p \in Pedidos(c) => p \in Pedidos(c)'
  PROVE  Recordados'
  BY DEF Recordados

(* A blocked process is remembered. *)
LEMMA RecordadosPaso ==
  ASSUME TypeOK, Turnos, SinRepetir, Quietos, Recordados, [Next]_vars
  PROVE  Recordados'
<1>1. ASSUME NEW c \in Conexiones, interfaz_desencolar_primera_solicitud_io(c)
      PROVE  Recordados'
  <2>1. PICK i \in Conexiones : i = interfaz[c] /\ solicitudes[i] \in Seq(Pids) /\
               solicitudes[i] # <<>>
    BY <1>1 DEF interfaz_desencolar_primera_solicitud_io, pasa, TypeOK, Turnos
  <2> DEFINE t == Tail(solicitudes[i])
  <2>2. PICK h \in Pids : h = Head(solicitudes[i])
    BY <2>1, ElementosSinElPrimero
  <2>3. ToSet(solicitudes[i]) = ToSet(t) \cup {h}
    BY <2>1, <2>2, ElementosSinElPrimero
  <2>4. /\ hilo[c] = "espera" /\ hilo' = [hilo EXCEPT ![c] = "consulta"]
        /\ pcb' = [pcb EXCEPT ![c] = h]
        /\ solicitudes' = [solicitudes EXCEPT ![i] = t]
        /\ UNCHANGED <<planif, pid_io, estado>>
    BY <1>1, <2>1, <2>2 DEF interfaz_desencolar_primera_solicitud_io, pasa, planificador, procesos
  <2> HIDE DEF t
  <2>5. /\ Atendido(c) = {} /\ Atendido(c)' = {h}
        /\ \A d \in Conexiones \ {c} : Atendido(d)' = Atendido(d)
    BY <2>4 DEF Atendido, Atendiendo, Turnos, TypeOK
  <2>6. \A d \in Conexiones : ToSet(solicitudes[d]) \subseteq ToSet(solicitudes'[d]) \cup {h}
    BY <2>3, <2>4 DEF TypeOK
  <2>7. \A d \in Conexiones : \A p \in Pedidos(d) : \E e \in Conexiones : p \in Pedidos(e)'
    BY <2>5, <2>6 DEF Pedidos
  <2>8. QED
    BY <2>4, <2>7 DEF Recordados, EnPlanificador
<1>2. ASSUME NEW c \in Conexiones, Consultar(c)
      PROVE  Recordados'
  <2>0. PICK p \in Pids : p = pcb[c]
    BY <1>2 DEF Consultar, pasa, Turnos, Atendiendo
  <2>1. estado[p] = "BLOCKED" => sigue_vivo(p) = {TRUE}
    BY DEF sigue_vivo, Quietos
  <2>2. PICK v \in sigue_vivo(p) :
          /\ hilo[c] = "consulta" /\ hilo' = [hilo EXCEPT ![c] = IF v THEN "envio" ELSE "espera"]
          /\ UNCHANGED <<solicitudes, planif, pid_io, pcb, estado>>
    BY <1>2, <2>0 DEF Consultar, pasa, interfaces, planificador, procesos
  <2>3. \A d \in Conexiones : \A q : q \in Pedidos(d) /\ q # p => q \in Pedidos(d)'
    BY <2>0, <2>2 DEF Pedidos, Atendido, Turnos, Puntos
  <2>4. estado[p] = "BLOCKED" => \A d \in Conexiones : Pedidos(d)' = Pedidos(d)
    BY <2>0, <2>1, <2>2 DEF Pedidos, Atendido, Turnos, Atendiendo
  <2>5. QED
    BY <2>2, <2>3, <2>4, RecordadosIgual DEF EnPlanificador
<1>3. ASSUME NEW c \in Conexiones, FinOperacion(c)
      PROVE  Recordados'
  <2>0. PICK p \in Pids : p = pcb[c]
    BY <1>3 DEF FinOperacion, pasa, Turnos, Atendiendo
  <2>2. PICK v \in sigue_vivo(p) :
          /\ \E l \in Puntos : hilo' = [hilo EXCEPT ![c] = l]
          /\ estado' = IF v THEN [estado EXCEPT ![p] = "READY"] ELSE estado
          /\ UNCHANGED <<solicitudes, planif, pid_io, pcb>>
    BY <1>3, <2>0 DEF FinOperacion, pasa, Puntos, interfaces, planificador
  <2>3. \A d \in Conexiones : \A q : q \in Pedidos(d) /\ q # p => q \in Pedidos(d)'
    BY <2>0, <2>2 DEF Pedidos, Atendido, Turnos
  <2>4. estado'[p] # "BLOCKED" /\ \A q : q # p => estado'[q] = estado[q]
    <3>1. CASE v
      BY <2>2, <3>1 DEF TypeOK
    <3>2. CASE ~v
      <4>1. estado[p] # "BLOCKED"
        <5>1. estado[p] = "LIBERADO" \/ p \in aFinalizar
          BY <3>2 DEF sigue_vivo
        <5>2. QED
          BY <5>1 DEF Quietos
      <4>2. QED
        BY <2>2, <3>2, <4>1
    <3>3. QED
      BY <3>1, <3>2
  <2>5. QED
    BY <2>2, <2>3, <2>4, RecordadosIgual DEF EnPlanificador
<1>4. ASSUME NEW c \in Conexiones, MandarAExit(c)
      PROVE  Recordados'
  <2>0. PICK p \in Pids : p = pcb[c]
    BY <1>4 DEF MandarAExit, pasa, Turnos, Atendiendo
  <2>1. /\ \E l \in Puntos : hilo' = [hilo EXCEPT ![c] = l]
        /\ procesos_a_exit(<<p>>)
        /\ UNCHANGED <<solicitudes, planif, pid_io, pcb>>
    BY <1>4, <2>0 DEF MandarAExit, pasa, Puntos, interfaces, planificador
  <2>2. \A d \in Conexiones : \A q : q \in Pedidos(d) /\ q # p => q \in Pedidos(d)'
    BY <2>0, <2>1 DEF Pedidos, Atendido, Turnos
  <2>3. estado'[p] # "BLOCKED" /\ \A q \in Pids : q # p => estado'[q] = estado[q]
    BY <2>1, ListasCortas DEF procesos_a_exit
  <2>4. QED
    BY <2>1, <2>2, <2>3, RecordadosIgual DEF EnPlanificador
<1>5. ASSUME NEW c \in Conexiones, eliminar_interfaz(c)
      PROVE  Recordados'
  <2>1. hilo[c] = "elimina" /\ hilo' = [hilo EXCEPT ![c] = "terminado"] /\
          UNCHANGED <<planif, pid_io, pcb>>
    BY <1>5 DEF eliminar_interfaz, pasa, planificador
  <2>2. \A d \in Conexiones : Atendido(d)' = Atendido(d)
    BY <2>1 DEF Atendido, Turnos, Atendiendo
  <2>3. CASE dic[nombre[c]] = Ninguno
    <3>1. UNCHANGED <<estado, solicitudes>>
      BY <1>5, <2>3 DEF eliminar_interfaz
    <3>2. QED
      BY <2>1, <2>2, <3>1, RecordadosIgual DEF Pedidos, EnPlanificador
  <2>4. CASE dic[nombre[c]] # Ninguno
    <3>1. PICK i \in Conexiones : i = dic[nombre[c]]
      BY <2>4, InterfacesAssumption DEF TypeOK
    <3>2. procesos_a_exit(solicitudes[i]) /\ solicitudes' = [solicitudes EXCEPT ![i] = <<>>]
      BY <1>5, <2>4, <3>1 DEF eliminar_interfaz
    <3>3. \A d \in Conexiones \ {i} : solicitudes'[d] = solicitudes[d]
      BY <3>2 DEF TypeOK
    <3>4. \A p \in Pids : estado'[p] = IF p \in ToSet(solicitudes[i]) THEN "EXIT" ELSE estado[p]
      BY <3>2 DEF procesos_a_exit
    <3>5. QED
      BY <2>1, <2>2, <3>3, <3>4, RecordadosIgual DEF Pedidos, EnPlanificador
  <2>5. QED
    BY <2>3, <2>4
<1>6. CASE OperacionInvalida
  <2>1. UNCHANGED <<hilo, pcb, solicitudes>> /\ planif # "encolar"
    BY <1>6 DEF OperacionInvalida, interfaces, hilos
  <2>2. \A d \in Conexiones : Pedidos(d)' = Pedidos(d)
    BY <2>1 DEF Pedidos, Atendido
  <2>3. \A q \in Pids : estado'[q] = "BLOCKED" => estado[q] = "BLOCKED"
    BY <1>6 DEF OperacionInvalida, procesos_a_exit
  <2>4. QED
    BY <2>1, <2>2, <2>3, RecordadosIgual DEF EnPlanificador
<1>7. CASE proceso_a_blocked
  <2>1. PICK p \in Pids : p = pid_io
    BY <1>7 DEF proceso_a_blocked, Turnos
  <2>2. /\ estado' = [estado EXCEPT ![p] = "BLOCKED"] /\ planif = "operacion" /\
          planif' = "encolar"
        /\ UNCHANGED <<hilo, pcb, solicitudes, pid_io>>
    BY <1>7, <2>1 DEF proceso_a_blocked, interfaces, hilos
  <2>3. \A d \in Conexiones : Pedidos(d)' = Pedidos(d)
    BY <2>2 DEF Pedidos, Atendido
  <2>4. \A q : q # p => estado'[q] = estado[q]
    BY <2>2 DEF TypeOK
  <2>5. QED
    BY <2>1, <2>2, <2>3, <2>4 DEF Recordados, EnPlanificador
<1>8. CASE interfaz_encolar_solicitud_io
  <2>1. PICK i \in Conexiones, p \in Pids : i = interfaz_io /\ p = pid_io
    BY <1>8 DEF interfaz_encolar_solicitud_io, Turnos
  <2> DEFINE t == Append(solicitudes[i], p)
  <2>2. /\ solicitudes' = [solicitudes EXCEPT ![i] = t] /\ planif' = "soltar"
        /\ UNCHANGED <<hilo, pcb, estado>>
    BY <1>8, <2>1 DEF interfaz_encolar_solicitud_io, hilos, procesos
  <2>3. ToSet(t) = ToSet(solicitudes[i]) \cup {p}
    BY ElementosConUnoMas DEF TypeOK
  <2> HIDE DEF t
  <2>4. p \in ToSet(solicitudes'[i]) /\ \A d \in Conexiones :
          ToSet(solicitudes[d]) \subseteq ToSet(solicitudes'[d])
    BY <2>2, <2>3 DEF TypeOK
  <2>5. p \in Pedidos(i)' /\ \A d \in Conexiones : Pedidos(d) \subseteq Pedidos(d)'
    BY <2>2, <2>4 DEF Pedidos, Atendido
  <2>6. QED
    BY <2>1, <2>2, <2>5 DEF Recordados, EnPlanificador
<1>9. ASSUME NEW p \in Pids, Despachar(p)
      PROVE  Recordados'
  <2>1. UNCHANGED <<hilo, pcb, solicitudes>> /\ planif # "encolar"
    BY <1>9 DEF Despachar, interfaces, hilos
  <2>2. \A d \in Conexiones : Pedidos(d)' = Pedidos(d)
    BY <2>1 DEF Pedidos, Atendido
  <2>3. \A q \in Pids : estado'[q] = "BLOCKED" => estado[q] = "BLOCKED"
    BY <1>9 DEF Despachar, TypeOK
  <2>4. QED
    BY <2>1, <2>2, <2>3, RecordadosIgual DEF EnPlanificador
<1>10. ASSUME NEW p \in Pids, Terminar(p)
      PROVE  Recordados'
  <2>1. UNCHANGED <<hilo, pcb, solicitudes>> /\ planif # "encolar"
    BY <1>10 DEF Terminar, interfaces, hilos
  <2>2. \A d \in Conexiones : Pedidos(d)' = Pedidos(d)
    BY <2>1 DEF Pedidos, Atendido
  <2>3. \A q \in Pids : estado'[q] = "BLOCKED" => estado[q] = "BLOCKED"
    BY <1>10 DEF Terminar, procesos_a_exit
  <2>4. QED
    BY <2>1, <2>2, <2>3, RecordadosIgual DEF EnPlanificador
<1>11. ASSUME NEW p \in Pids, finalizar_proceso(p)
      PROVE  Recordados'
  <2>1. UNCHANGED <<hilo, pcb, solicitudes>> /\ planif # "encolar"
    BY <1>11 DEF finalizar_proceso, interfaces, hilos
  <2>2. \A d \in Conexiones : Pedidos(d)' = Pedidos(d)
    BY <2>1 DEF Pedidos, Atendido
  <2>3. \A q \in Pids : estado'[q] = "BLOCKED" => estado[q] = "BLOCKED"
    BY <1>11 DEF finalizar_proceso, procesos_a_exit
  <2>4. QED
    BY <2>1, <2>2, <2>3, RecordadosIgual DEF EnPlanificador
<1>12. ASSUME NEW p \in Pids, NEW n \in Nombres, PedirIO(p, n)
      PROVE  Recordados'
  <2>1. UNCHANGED <<hilo, pcb, solicitudes>> /\ planif # "encolar"
    BY <1>12 DEF PedirIO, interfaces, hilos
  <2>2. \A d \in Conexiones : Pedidos(d)' = Pedidos(d)
    BY <2>1 DEF Pedidos, Atendido
  <2>3. \A q \in Pids : estado'[q] = "BLOCKED" => estado[q] = "BLOCKED"
    BY <1>12 DEF PedirIO, procesos_a_exit
  <2>4. QED
    BY <2>1, <2>2, <2>3, RecordadosIgual DEF EnPlanificador
<1>13. CASE liberar_procesos_exit
  <2>1. UNCHANGED <<hilo, pcb, solicitudes>> /\ UNCHANGED planificador
    BY <1>13 DEF liberar_procesos_exit, interfaces, hilos
  <2>2. \A d \in Conexiones : Pedidos(d)' = Pedidos(d)
    BY <2>1 DEF Pedidos, Atendido
  <2>3. \A q \in Pids : estado'[q] = "BLOCKED" => estado[q] = "BLOCKED"
    BY <1>13 DEF liberar_procesos_exit, TypeOK
  <2>4. QED
    BY <2>1, <2>2, <2>3, RecordadosIgual DEF EnPlanificador, planificador
<1>14. CASE TomarInterfaz \/ SoltarInterfaz \/ (\E c \in Conexiones : Conectar(c) \/
           Desconectar(c) \/ IniciarHilo(c) \/ Enviar(c) \/ Responder(c) \/ RecibirCorte(c)
           \/ TomarDiccionario(c) \/ TomarControl(c)) \/ UNCHANGED vars
  <2>1. UNCHANGED <<solicitudes, pcb, estado>> /\ (planif = "encolar" => UNCHANGED <<planif,
       pid_io>>)
    BY <1>14 DEF vars, Conectar, Desconectar, IniciarHilo, pasa, Enviar, Responder,
       RecibirCorte, TomarDiccionario, TomarControl, TomarInterfaz, SoltarInterfaz,
       procesos, diccionario, interfaces, hilos, planificador
  <2>2. \A d \in Conexiones : hilo'[d] \in Atendiendo <=> hilo[d] \in Atendiendo
    <3>1. ASSUME NEW c \in Conexiones, Conectar(c) \/ Desconectar(c) \/ IniciarHilo(c) \/
         Enviar(c) \/ Responder(c) \/ RecibirCorte(c) \/ TomarDiccionario(c) \/
         TomarControl(c) PROVE \A d \in Conexiones : hilo'[d] \in Atendiendo <=> hilo[d] \in
         Atendiendo
      BY <3>1 DEF Conectar, Desconectar, IniciarHilo, pasa, Enviar, Responder, RecibirCorte,
         TomarDiccionario, TomarControl, diccionario, hilos, interfaces, planificador,
         procesos, Turnos, Atendiendo
    <3>2. CASE TomarInterfaz \/ SoltarInterfaz \/ UNCHANGED vars
      BY <3>2 DEF vars, TomarInterfaz, SoltarInterfaz, diccionario, hilos, planificador,
         procesos
    <3>3. QED
      BY <1>14, <3>1, <3>2
  <2>3. \A d \in Conexiones : Pedidos(d)' = Pedidos(d)
    BY <2>1, <2>2 DEF Atendido, Pedidos
  <2>4. QED
    BY <2>1, <2>3, RecordadosIgual DEF EnPlanificador
<1>15. ASSUME NEW c \in Conexiones, ConsultarCaida(c)
      PROVE  Recordados'
  <2>0. PICK p \in Pids : p = pcb[c]
    BY <1>15 DEF ConsultarCaida, pasa, Turnos, Atendiendo
  <2>1. estado[p] = "BLOCKED" => sigue_vivo(p) = {TRUE}
    BY DEF sigue_vivo, Quietos
  <2>2. PICK v \in sigue_vivo(p) :
          /\ hilo[c] = "caida" /\ hilo' = [hilo EXCEPT ![c] = IF v THEN "manda" ELSE "baja"]
          /\ UNCHANGED <<solicitudes, planif, pid_io, pcb, estado>>
    BY <1>15, <2>0 DEF ConsultarCaida, pasa, interfaces, planificador, procesos
  <2>3. \A d \in Conexiones : \A q : q \in Pedidos(d) /\ q # p => q \in Pedidos(d)'
    BY <2>0, <2>2 DEF Pedidos, Atendido, Turnos, Puntos
  <2>4. estado[p] = "BLOCKED" => \A d \in Conexiones : Pedidos(d)' = Pedidos(d)
    BY <2>0, <2>1, <2>2 DEF Pedidos, Atendido, Turnos, Atendiendo
  <2>5. QED
    BY <2>2, <2>3, <2>4, RecordadosIgual DEF EnPlanificador
<1>16. QED
  BY <1>1, <1>2, <1>3, <1>4, <1>5, <1>6, <1>7, <1>8, <1>9, <1>10, <1>11, <1>12, <1>13, <1>14,
     <1>15 DEF Next, PasoHilo, PasoPlanificador

-----------------------------------------------------------------------------
(* Interfaces with names of their own.                                     *)

(* No two connections announce the same name: what the program asks of     *)
(* whoever starts the interfaces, and it is not checked.                   *)
NombresDistintos == \A c, d \in Conexiones : nombre[c] = nombre[d] => c = d

(* The connection c is the one in the dictionary from the moment it is     *)
(* accepted until its own thread takes it out, and what the planner found  *)
(* there is not destroyed while it works on it.                            *)
Nombrado ==
  /\ \A n \in Nombres : dic[n] # Ninguno => nombre[dic[n]] = n
  /\ \A c \in Conexiones :
       /\ conexion[c] = "sin" <=> hilo[c] = "sin"
       /\ dic[nombre[c]] = c <=> hilo[c] \notin {"sin", "terminado"}
       /\ c \in destruidas <=> hilo[c] = "terminado"
       /\ hilo[c] \notin {"sin", "inicio"} => interfaz[c] = c
       /\ hilo[c] \in {"control", "elimina"} <=> mutex = c
       /\ solicitudes[c] # <<>> => hilo[c] \notin {"sin", "terminado"}
  /\ planif = "control" <=> mutex = "planificador"
  /\ planif = "control" => hilo[interfaz_io] \notin {"sin", "terminado"}
  /\ planif \in ConControl => hilo[interfaz_io] \notin {"sin", "elimina", "terminado"}

(* The names. *)
LEMMA NombradoPaso ==
  ASSUME NombresDistintos, TypeOK, Turnos, Nombrado, [Next]_vars
  PROVE  Nombrado'
<1>1. ASSUME NEW c \in Conexiones, Conectar(c)
      PROVE  Nombrado'
  <2>1. /\ hilo[c] = "sin" /\ mutex = "libre" /\ nombre[c] \in Nombres
        /\ conexion' = [conexion EXCEPT ![c] = "abierta"]
        /\ dic' = [dic EXCEPT ![nombre[c]] = c] /\ hilo' = [hilo EXCEPT ![c] = "inicio"]
        /\ UNCHANGED <<mutex, solicitudes, control, destruidas, interfaz, planif, interfaz_io>>
    BY <1>1, InterfacesAssumption DEF Conectar, interfaces, planificador, Turnos
  <2>2. planif # "control" /\ (planif \in ConControl => interfaz_io # c)
    BY <2>1 DEF Nombrado
  <2>3. \A n \in Nombres : dic'[n] # Ninguno => nombre[dic'[n]] = n
    BY <2>1 DEF Nombrado, TypeOK
  <2>4. /\ conexion'[c] = "abierta" /\ hilo'[c] = "inicio" /\ dic'[nombre[c]] = c
        /\ c \notin destruidas /\ mutex # c
    BY <2>1, InterfacesAssumption DEF Nombrado, TypeOK, Turnos
  <2>5. ASSUME NEW d \in Conexiones \ {c}
        PROVE  /\ conexion'[d] = conexion[d] /\ hilo'[d] = hilo[d]
               /\ dic'[nombre[d]] = dic[nombre[d]]
    BY <2>1, InterfacesAssumption DEF TypeOK, Turnos, NombresDistintos
  <2>6. ASSUME NEW d \in Conexiones
        PROVE  /\ conexion'[d] = "sin" <=> hilo'[d] = "sin"
               /\ dic'[nombre[d]] = d <=> hilo'[d] \notin {"sin", "terminado"}
               /\ d \in destruidas' <=> hilo'[d] = "terminado"
               /\ hilo'[d] \notin {"sin", "inicio"} => interfaz'[d] = d
               /\ hilo'[d] \in {"control", "elimina"} <=> mutex' = d
               /\ solicitudes'[d] # <<>> => hilo'[d] \notin {"sin", "terminado"}
    <3>1. CASE d = c
      BY <2>1, <2>4, <3>1
    <3>2. CASE d # c
      BY <2>1, <2>5, <3>2 DEF Nombrado
    <3>3. QED
      BY <3>1, <3>2
  <2>7. planif \in ConControl => hilo'[interfaz_io] = hilo[interfaz_io]
    BY <2>2, <2>5 DEF Turnos, ConControl
  <2>8. QED
    BY <2>1, <2>2, <2>3, <2>6, <2>7 DEF Nombrado
<1>2. ASSUME NEW c \in Conexiones, Desconectar(c)
      PROVE  Nombrado'
  BY <1>2, InterfacesAssumption DEF Desconectar, TypeOK, Turnos, Nombrado, NombresDistintos,
     ConControl, Puntos, Atendiendo, pasa, procesos, diccionario, interfaces, hilos,
     planificador
<1>3. ASSUME NEW c \in Conexiones, IniciarHilo(c)
      PROVE  Nombrado'
  BY <1>3, InterfacesAssumption DEF IniciarHilo, pasa, TypeOK, Turnos, Nombrado,
     NombresDistintos, ConControl, Puntos, Atendiendo, procesos, diccionario, interfaces,
     planificador
<1>4. ASSUME NEW c \in Conexiones, interfaz_desencolar_primera_solicitud_io(c)
      PROVE  Nombrado'
  BY <1>4, InterfacesAssumption DEF interfaz_desencolar_primera_solicitud_io, pasa, TypeOK,
     Turnos, Nombrado, NombresDistintos, ConControl, Puntos, Atendiendo, procesos,
     diccionario, planificador
<1>5. ASSUME NEW c \in Conexiones, Consultar(c)
      PROVE  Nombrado'
  BY <1>5, InterfacesAssumption DEF Consultar, pasa, TypeOK, Turnos, Nombrado,
     NombresDistintos, ConControl, Puntos, Atendiendo, procesos, diccionario, interfaces,
     planificador
<1>6. ASSUME NEW c \in Conexiones, Enviar(c)
      PROVE  Nombrado'
  BY <1>6, InterfacesAssumption DEF Enviar, pasa, TypeOK, Turnos, Nombrado,
     NombresDistintos, ConControl, Puntos, Atendiendo, procesos, diccionario, interfaces,
     planificador
<1>7. ASSUME NEW c \in Conexiones, Responder(c)
      PROVE  Nombrado'
  BY <1>7, InterfacesAssumption DEF Responder, pasa, TypeOK, Turnos, Nombrado,
     NombresDistintos, ConControl, Puntos, Atendiendo, procesos, diccionario, interfaces,
     planificador
<1>8. ASSUME NEW c \in Conexiones, RecibirCorte(c)
      PROVE  Nombrado'
  BY <1>8, InterfacesAssumption DEF RecibirCorte, pasa, TypeOK, Turnos, Nombrado,
     NombresDistintos, ConControl, Puntos, Atendiendo, procesos, diccionario, interfaces,
     planificador
<1>9. ASSUME NEW c \in Conexiones, FinOperacion(c)
      PROVE  Nombrado'
  BY <1>9, InterfacesAssumption DEF FinOperacion, pasa, TypeOK, Turnos, Nombrado,
     NombresDistintos, ConControl, Puntos, Atendiendo, diccionario, interfaces, planificador
<1>10. ASSUME NEW c \in Conexiones, MandarAExit(c)
      PROVE  Nombrado'
  BY <1>10, InterfacesAssumption DEF MandarAExit, pasa, TypeOK, Turnos, Nombrado,
     NombresDistintos, ConControl, Puntos, Atendiendo, diccionario, interfaces, planificador
<1>11. ASSUME NEW c \in Conexiones, TomarDiccionario(c)
      PROVE  Nombrado'
  BY <1>11, InterfacesAssumption DEF TomarDiccionario, pasa, TypeOK, Turnos, Nombrado,
     NombresDistintos, ConControl, Puntos, Atendiendo, procesos, interfaces, planificador
<1>12. ASSUME NEW c \in Conexiones, TomarControl(c)
      PROVE  Nombrado'
  BY <1>12, InterfacesAssumption DEF TomarControl, pasa, TypeOK, Turnos, Nombrado,
     NombresDistintos, ConControl, Puntos, Atendiendo, procesos, diccionario, planificador
<1>13. ASSUME NEW c \in Conexiones, eliminar_interfaz(c)
      PROVE  Nombrado'
  <2>1. /\ hilo[c] = "elimina" /\ mutex = c /\ nombre[c] \in Nombres
        /\ dic[nombre[c]] = c /\ c # Ninguno /\ solicitudes[c] \in Seq(Pids)
    BY <1>13, InterfacesAssumption DEF eliminar_interfaz, pasa, Nombrado, TypeOK
  <2>2. /\ hilo' = [hilo EXCEPT ![c] = "terminado"] /\ mutex' = "libre"
        /\ dic' = [dic EXCEPT ![nombre[c]] = Ninguno] /\ destruidas' = destruidas \cup {c}
        /\ solicitudes' = [solicitudes EXCEPT ![c] = <<>>]
        /\ UNCHANGED <<conexion, control, interfaz, planif, interfaz_io>>
    BY <1>13, <2>1 DEF eliminar_interfaz, pasa, planificador
  <2>3. planif # "control" /\ (planif \in ConControl => interfaz_io # c)
    BY <2>1, InterfacesAssumption DEF Nombrado
  <2>4. \A n \in Nombres : dic'[n] # Ninguno => nombre[dic'[n]] = n
    BY <2>1, <2>2 DEF Nombrado, TypeOK
  <2>5. /\ hilo'[c] = "terminado" /\ dic'[nombre[c]] = Ninguno /\ solicitudes'[c] = <<>>
        /\ \A d \in Conexiones : mutex' # d
    BY <2>1, <2>2, InterfacesAssumption DEF TypeOK, Turnos
  <2>6. ASSUME NEW d \in Conexiones \ {c}
        PROVE  /\ hilo'[d] = hilo[d] /\ dic'[nombre[d]] = dic[nombre[d]]
               /\ solicitudes'[d] = solicitudes[d] /\ mutex # d
               /\ (d \in destruidas' <=> d \in destruidas)
    BY <2>1, <2>2, InterfacesAssumption DEF TypeOK, Turnos, NombresDistintos
  <2>7. ASSUME NEW d \in Conexiones
        PROVE  /\ conexion'[d] = "sin" <=> hilo'[d] = "sin"
               /\ dic'[nombre[d]] = d <=> hilo'[d] \notin {"sin", "terminado"}
               /\ d \in destruidas' <=> hilo'[d] = "terminado"
               /\ hilo'[d] \notin {"sin", "inicio"} => interfaz'[d] = d
               /\ hilo'[d] \in {"control", "elimina"} <=> mutex' = d
               /\ solicitudes'[d] # <<>> => hilo'[d] \notin {"sin", "terminado"}
    <3>1. CASE d = c
      BY <2>1, <2>2, <2>5, <3>1 DEF Nombrado
    <3>2. CASE d # c
      BY <2>2, <2>5, <2>6, <3>2 DEF Nombrado
    <3>3. QED
      BY <3>1, <3>2
  <2>8. planif \in ConControl => hilo'[interfaz_io] = hilo[interfaz_io]
    BY <2>3, <2>6 DEF Turnos, ConControl
  <2>9. planif # "control" /\ mutex' # "planificador"
    BY <2>2, <2>3
  <2>10. QED
    BY <2>2, <2>3, <2>4, <2>7, <2>8, <2>9 DEF Nombrado
<1>14. CASE TomarInterfaz
  BY <1>14, InterfacesAssumption DEF TomarInterfaz, TypeOK, Turnos, Nombrado,
     NombresDistintos, ConControl, Puntos, Atendiendo, pasa, procesos, hilos
<1>15. CASE OperacionInvalida
  BY <1>15, InterfacesAssumption DEF OperacionInvalida, TypeOK, Turnos, Nombrado,
     NombresDistintos, ConControl, Puntos, Atendiendo, pasa, diccionario, interfaces, hilos
<1>16. CASE proceso_a_blocked
  BY <1>16, InterfacesAssumption DEF proceso_a_blocked, TypeOK, Turnos, Nombrado,
     NombresDistintos, ConControl, Puntos, Atendiendo, pasa, diccionario, interfaces, hilos
<1>17. CASE interfaz_encolar_solicitud_io
  BY <1>17, InterfacesAssumption DEF interfaz_encolar_solicitud_io, TypeOK, Turnos,
     Nombrado, NombresDistintos, ConControl, Puntos, Atendiendo, pasa, procesos,
     diccionario, hilos
<1>18. CASE SoltarInterfaz
  BY <1>18, InterfacesAssumption DEF SoltarInterfaz, TypeOK, Turnos, Nombrado,
     NombresDistintos, ConControl, Puntos, Atendiendo, pasa, procesos, diccionario, hilos
<1>19. ASSUME NEW p \in Pids, Despachar(p)
      PROVE  Nombrado'
  BY <1>19, InterfacesAssumption DEF Despachar, TypeOK, Turnos, Nombrado, NombresDistintos,
     ConControl, Puntos, Atendiendo, pasa, diccionario, interfaces, hilos, planificador
<1>20. ASSUME NEW p \in Pids, Terminar(p)
      PROVE  Nombrado'
  BY <1>20, InterfacesAssumption DEF Terminar, TypeOK, Turnos, Nombrado, NombresDistintos,
     ConControl, Puntos, Atendiendo, pasa, diccionario, interfaces, hilos, planificador
<1>21. ASSUME NEW p \in Pids, finalizar_proceso(p)
      PROVE  Nombrado'
  BY <1>21, InterfacesAssumption DEF finalizar_proceso, TypeOK, Turnos, Nombrado,
     NombresDistintos, ConControl, Puntos, Atendiendo, pasa, diccionario, interfaces, hilos,
     planificador
<1>22. ASSUME NEW p \in Pids, NEW n \in Nombres, PedirIO(p, n)
      PROVE  Nombrado'
  BY <1>22, InterfacesAssumption DEF PedirIO, TypeOK, Turnos, Nombrado, NombresDistintos,
     ConControl, Puntos, Atendiendo, pasa, interfaces, hilos, planificador
<1>23. CASE liberar_procesos_exit
  BY <1>23, InterfacesAssumption DEF liberar_procesos_exit, TypeOK, Turnos, Nombrado,
     NombresDistintos, ConControl, Puntos, Atendiendo, pasa, diccionario, interfaces, hilos,
     planificador
<1>24. CASE UNCHANGED vars
  BY <1>24, InterfacesAssumption DEF vars, TypeOK, Turnos, Nombrado, NombresDistintos,
     ConControl, Puntos, Atendiendo, pasa, diccionario, hilos, interfaces, planificador,
     procesos
<1>25. ASSUME NEW c \in Conexiones, ConsultarCaida(c)
      PROVE  Nombrado'
  BY <1>25, InterfacesAssumption DEF ConsultarCaida, pasa, TypeOK, Turnos, Nombrado,
     NombresDistintos, ConControl, Puntos, Atendiendo, procesos, diccionario, interfaces,
     planificador
<1>26. QED
  BY <1>1, <1>2, <1>3, <1>4, <1>5, <1>6, <1>7, <1>8, <1>9, <1>10, <1>11, <1>12, <1>13,
     <1>14, <1>15, <1>16, <1>17, <1>18, <1>19, <1>20, <1>21, <1>22, <1>23, <1>24, <1>25
     DEF Next,
     PasoHilo, PasoPlanificador

(* The invariant of the interfaces with names of their own.                *)
InvConNombres == InvInterfaces /\ Recordados /\ Nombrado

(* It holds at the start and every step preserves it.                      *)
LEMMA InvConNombresInductivo ==
  ASSUME NombresDistintos
  PROVE  /\ Init => InvConNombres
         /\ InvConNombres /\ [Next]_vars => InvConNombres'
<1>1. ASSUME Init
      PROVE  Recordados /\ Nombrado
  BY <1>1, InterfacesAssumption DEF Init, Recordados, Nombrado, ConControl
<1>2. Init => InvConNombres
  BY <1>1, InvInicial DEF InvConNombres
<1>3. InvConNombres /\ [Next]_vars => InvConNombres'
  BY InvPaso, RecordadosPaso, NombradoPaso DEF InvConNombres, InvInterfaces
<1>4. QED
  BY <1>2, <1>3

(* It holds in every behaviour.                                            *)
THEOREM InvarianteConNombres ==
  ASSUME NombresDistintos
  PROVE  Spec => []InvConNombres
<1>1. /\ Init => InvConNombres
      /\ InvConNombres /\ [Next]_vars => InvConNombres'
  BY InvConNombresInductivo
<1>2. QED
  BY <1>1, PTL DEF Spec

(* The interface whose semaphore the planner holds is not destroyed by the *)
(* thread of the connection meanwhile, as long as no two connections have  *)
(* the same name.                                                          *)
THEOREM LaInterfazEnUsoVive ==
  ASSUME NombresDistintos
  PROVE  Spec => []EnUsoViva
<1>1. InvConNombres => EnUsoViva
  BY DEF InvConNombres, InvInterfaces, Turnos, Nombrado, ConControl, EnUsoViva
<1>2. QED
  BY <1>1, InvarianteConNombres, PTL

(* A process that is blocked for I/O is never forgotten, as long as no two *)
(* connections have the same name: the planner is about to queue its       *)
(* request, or the list of an interface that is in the dictionary has it,  *)
(* or a thread attends it.                                                 *)
THEOREM NingunBloqueadoOlvidado ==
  ASSUME NombresDistintos
  PROVE  Spec => []BloqueadoTienePedido
<1>1. ASSUME InvConNombres
      PROVE  BloqueadoTienePedido
  <2>1. ASSUME NEW p \in Pids, estado[p] = "BLOCKED", ~EnPlanificador(p)
        PROVE  EnEspera(p) \/ EnAtencion(p)
    <3>1. PICK c \in Conexiones : p \in ToSet(solicitudes[c]) \/ p \in Atendido(c)
      BY <1>1, <2>1 DEF InvConNombres, Recordados, Pedidos
    <3>2. CASE p \in Atendido(c)
      BY <3>2 DEF Atendido, EnAtencion
    <3>3. CASE p \in ToSet(solicitudes[c])
      <4>1. solicitudes[c] # <<>>
        BY <3>3, ListasCortas
      <4>2. dic[nombre[c]] = c /\ nombre[c] \in Nombres /\ c # Ninguno
        BY <1>1, <4>1, InterfacesAssumption DEF InvConNombres, Nombrado
      <4>3. QED
        BY <3>3, <4>2 DEF EnEspera
    <3>4. QED
      BY <3>1, <3>2, <3>3
  <2>2. QED
    BY <2>1 DEF BloqueadoTienePedido
<1>2. QED
  BY <1>1, InvarianteConNombres, PTL

=============================================================================
