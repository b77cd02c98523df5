-------------------------- MODULE PlanificacionProofs --------------------------
(***************************************************************************)
(* Proofs about Planificacion, for every set of processes, degree of       *)
(* multiprogramming, set of commands and of reasons, and bound of posts.   *)
(***************************************************************************)
EXTENDS Planificacion, SecuenciasProofs, FiniteSetTheorems, SequenceTheorems, TLAPS

-----------------------------------------------------------------------------
(* The inductive invariant.                                                *)

ExecTo == "exec_to_exec_or_ready_or_blocked"
Estados == Colas \cup {"SIN_CREAR", "LIBERADO"}
Vivos == {"NEW", "READY", "BLOCKED", "EXEC"}

(* Where the short-term planner has a process, and where it holds the      *)
(* semaphore ExecTo too.                                                   *)
EnCurso == {"cpu", "exec_to", "consulta", "EXEC", "maneja", "sigue"}
ConExecTo == {"consulta", "EXEC", "maneja", "sigue"}

PuntosLargo == {"control", "grado", "NEW", "new_to_ready", "memoria"}
PuntosCorto == {"READY", "ready_to_exec"} \cup EnCurso
PuntosConsola ==
  {"lista", "reduciendo", "deteniendo", "mira", "espera", "agrega", "reanuda"}
Puntos == PuntosLargo \cup PuntosCorto \cup PuntosConsola \cup {"EXIT", "libera"}

TiposDeListas ==
  /\ estado \in [Pids -> Estados]
  /\ cola \in [Colas -> Seq(Pids)]
  /\ semEstado \in [Colas -> Nat]

TiposDeConjuntos ==
  /\ aFinalizar \subseteq Pids /\ admitidos \subseteq Pids
  /\ porRecurso \subseteq Pids /\ conRecursos \subseteq Pids

TiposDeContadores ==
  /\ plan \in [Transiciones -> Nat]
  /\ grado \in Nat /\ semGrado \in Nat /\ cuantos \in Nat /\ deMas \in Nat

TiposDeHilos ==
  /\ linea \in [Hilos -> Puntos]
  /\ pcb \in [Hilos -> Pids \cup {Ninguno}]
  /\ activa \in BOOLEAN
  /\ pendientes \subseteq Transiciones
  /\ paso \in 1..4

Tipos == TiposDeListas /\ TiposDeConjuntos /\ TiposDeContadores /\ TiposDeHilos

(* The points of each thread, and where it has a process. *)
Lineas ==
  /\ linea["largo"] \in PuntosLargo
  /\ linea["corto"] \in PuntosCorto
  /\ linea["exit"] \in {"EXIT", "libera"}
  /\ linea["consola"] \in PuntosConsola
  /\ linea["largo"] = "memoria" => pcb["largo"] \in Pids
  /\ linea["corto"] \in EnCurso => pcb["corto"] \in Pids
  /\ linea["exit"] = "libera" => pcb["exit"] \in Pids
  /\ linea["consola"] \in {"mira", "espera", "agrega"} => pcb["consola"] \in Pids
  /\ linea["consola"] = "reduciendo" <=> cuantos > 0

(* The console stops the planning before it searches. *)
Parada ==
  /\ linea["consola"] \in {"deteniendo", "mira", "espera", "agrega", "reanuda"} => ~activa
  /\ pendientes # {} => linea["consola"] = "deteniendo"

(* The nested calls of manejar_motivo_desalojo. *)
Marcos ==
  /\ marcos \in 0..MaxPosts
  /\ linea["corto"] \in {"exec_to", "consulta", "EXEC", "maneja"}
       /\ motivo \in {"COP_WAIT", "COP_SIGNAL"} => marcos < MaxPosts
  /\ linea["corto"] = "sigue" => marcos < MaxPosts

(* A process in NEW, or not yet created, has no unit of the degree. *)
SinUnidad ==
  /\ Distintos(cola["NEW"])
  /\ \A p \in ToSet(cola["NEW"]) : p \notin admitidos /\ estado[p] # "SIN_CREAR"
  /\ \A p \in admitidos : estado[p] # "SIN_CREAR"

(* Who has each semaphore of the planning: the console, if it has stopped  *)
(* it, and the thread that is in the transition.                           *)
Tomado(t) == IF ~activa /\ t \notin pendientes THEN 1 ELSE 0

Retenido(t) ==
  IF \/ t = "new_to_ready" /\ linea["largo"] = "memoria"
     \/ t = ExecTo /\ linea["corto"] \in ConExecTo
    THEN 1 ELSE 0

Unidades(t) == plan[t] + Tomado(t) + Retenido(t)

(* All of them but one are binary whatever happens. *)
Binarios == \A t \in Transiciones \ {ExecTo} : Unidades(t) = 1

InvBase == Tipos /\ Lineas /\ Parada /\ Marcos /\ SinUnidad /\ Binarios /\ CuposConservados

(* The other one is binary until a process leaves EXEC after a nested call *)
(* of manejar_motivo_desalojo (a WAIT or a SIGNAL that went on): every     *)
(* call posts it.  Without an excess of posts a stop excludes the          *)
(* short-term planner, and the lists are as follows.                       *)
SinExceso == Unidades(ExecTo) <= 1

(* A process is in the list of its state, once, unless a thread has it. *)
Listas ==
  \A c \in Colas :
    /\ Distintos(cola[c])
    /\ \A p \in Pids : p \in ToSet(cola[c]) <=> estado[p] = c /\ ~EnManos(p)

(* The state of the processes that the threads have. *)
Manos ==
  /\ linea["largo"] = "memoria" => estado[pcb["largo"]] = "NEW"
  /\ linea["corto"] \in EnCurso => estado[pcb["corto"]] = "EXEC"
  /\ linea["exit"] = "libera" => estado[pcb["exit"]] = "EXIT"
  /\ linea["consola"] = "agrega" =>
       estado[pcb["consola"]] \in Vivos /\ pcb["consola"] \notin aFinalizar
  /\ \A p \in Pids : estado[p] = "EXEC" => linea["corto"] \in EnCurso /\ pcb["corto"] = p
  /\ \A p \in porRecurso : estado[p] = "BLOCKED"

(* What is pending to finalize ends in EXIT, and does not go on. *)
Condenados ==
  /\ \A p \in aFinalizar : estado[p] \in {"EXEC", "EXIT"}
  /\ linea["corto"] = "sigue" => pcb["corto"] \notin aFinalizar
  /\ linea["corto"] = "maneja" /\ pcb["corto"] \in aFinalizar => motivo = "INTERRUPT_USER"

(* The process that the console looks for is in none of the lists that it  *)
(* has already seen.                                                       *)
Busqueda ==
  linea["consola"] \in {"mira", "espera"} =>
    \A k \in 1..paso - 1 : pcb["consola"] \notin ToSet(cola[Rastreo[k]])

InvReparto == Listas /\ Manos /\ Condenados /\ Busqueda /\ SemaforosCoherentes

InvPlanificacion == InvBase /\ (SinExceso => InvReparto)

-----------------------------------------------------------------------------
(* Lists of processes.                                                     *)

(* Contiene asks for the members of the list. *)
LEMMA ContieneEs ==
  ASSUME NEW s \in Seq(Pids), NEW p
  PROVE  Contiene(s, p) <=> p \in ToSet(s)
  BY ElementosDe DEF Contiene

(* A list without a process. *)
LEMMA SinUno ==
  ASSUME NEW s \in Seq(Pids), NEW p
  PROVE  /\ Sin(s, p) \in Seq(Pids)
         /\ ToSet(Sin(s, p)) \subseteq ToSet(s)
         /\ p \in ToSet(s) => Len(s) > 0 /\ Len(Sin(s, p)) = Len(s) - 1
         /\ Distintos(s) => Distintos(Sin(s, p)) /\ ToSet(Sin(s, p)) = ToSet(s) \ {p}
<1>1. CASE Contiene(s, p)
  <2> DEFINE x == CHOOSE i \in DOMAIN s : s[i] = p
  <2>1. x \in 1..Len(s) /\ s[x] = p
    BY <1>1, ElementosDe DEF Contiene
  <2>2. Sin(s, p) = RemoveAt(s, x)
    BY <1>1 DEF Sin
  <2> HIDE DEF x
  <2>3. QED
    BY <2>1, <2>2, ElementosSinUno
<1>2. CASE ~Contiene(s, p)
  BY <1>2, ContieneEs DEF Sin
<1>3. QED
  BY <1>1, <1>2

(* A process goes to the list c. *)
LEMMA TrasProcesoA ==
  ASSUME TiposDeListas, NEW p \in Pids, NEW c \in Colas, proceso_a(p, c)
  PROVE  /\ TiposDeListas'
         /\ estado' = [estado EXCEPT ![p] = c]
         /\ \A d \in Colas :
              /\ d # c => cola'[d] = cola[d]
              /\ ToSet(cola'[d]) = IF d = c THEN ToSet(cola[d]) \cup {p} ELSE ToSet(cola[d])
              /\ Len(cola'[d]) - semEstado'[d] = Len(cola[d]) - semEstado[d]
              /\ p \notin ToSet(cola[d]) /\ Distintos(cola[d]) => Distintos(cola'[d])
<1> DEFINE t == Append(cola[c], p)
<1>1. cola[c] \in Seq(Pids) /\ semEstado[c] \in Nat
  BY DEF TiposDeListas
<1>2. /\ t \in Seq(Pids) /\ Len(t) = Len(cola[c]) + 1 /\ ToSet(t) = ToSet(cola[c]) \cup {p}
      /\ Distintos(cola[c]) /\ p \notin ToSet(cola[c]) => Distintos(t)
  BY <1>1, ElementosConUnoMas
<1> HIDE DEF t
<1>3. /\ estado' = [estado EXCEPT ![p] = c]
      /\ cola' = [cola EXCEPT ![c] = t]
      /\ semEstado' = [semEstado EXCEPT ![c] = @ + 1]
  BY DEF proceso_a, t
<1>4. TiposDeListas'
  BY <1>1, <1>2, <1>3 DEF TiposDeListas, Estados
<1>5. Len(cola[c]) \in Nat
  BY <1>1, ElementosDe
<1>6. ASSUME NEW d \in Colas
      PROVE  /\ d # c => cola'[d] = cola[d]
             /\ ToSet(cola'[d]) = IF d = c THEN ToSet(cola[d]) \cup {p} ELSE ToSet(cola[d])
             /\ Len(cola'[d]) - semEstado'[d] = Len(cola[d]) - semEstado[d]
             /\ p \notin ToSet(cola[d]) /\ Distintos(cola[d]) => Distintos(cola'[d])
  <2>1. CASE d = c
    <3>1. cola'[d] = t /\ semEstado'[d] = semEstado[d] + 1
      BY <1>3, <2>1 DEF TiposDeListas
    <3>2. QED
      BY <1>1, <1>2, <1>5, <2>1, <3>1
  <2>2. CASE d # c
    BY <1>3, <2>2 DEF TiposDeListas
  <2>3. QED
    BY <2>1, <2>2
<1>7. QED
  BY <1>3, <1>4, <1>6

(* A process goes from the list `de` to the list c, if it is in that list. *)
LEMMA MoverTipo ==
  ASSUME TiposDeListas, NEW p \in Pids, NEW de \in Colas, NEW c \in Colas \ {de},
         NEW token \in {0, 1}, mover(p, de, c, token)
  PROVE  /\ TiposDeListas'
         /\ estado' = [estado EXCEPT ![p] = c]
         /\ cola' = [cola EXCEPT ![de] = Sin(cola[de], p), ![c] = Append(cola[c], p)]
         /\ \A d \in Colas \ {de, c} : cola'[d] = cola[d] /\ semEstado'[d] = semEstado[d]
         /\ semEstado[de] >= token
         /\ semEstado'[de] = semEstado[de] - token /\ semEstado'[c] = semEstado[c] + 1
<1>1. /\ cola[c] \in Seq(Pids) /\ cola[de] \in Seq(Pids)
      /\ semEstado[c] \in Nat /\ semEstado[de] \in Nat
  BY DEF TiposDeListas
<1>2. Append(cola[c], p) \in Seq(Pids) /\ Sin(cola[de], p) \in Seq(Pids)
  BY <1>1, ElementosConUnoMas, SinUno
<1>3. /\ estado' = [estado EXCEPT ![p] = c]
      /\ cola' = [cola EXCEPT ![de] = Sin(cola[de], p), ![c] = Append(cola[c], p)]
      /\ semEstado' = [semEstado EXCEPT ![de] = @ - token, ![c] = @ + 1]
      /\ semEstado[de] >= token
  BY DEF mover, TiposDeListas
<1>4. semEstado[de] - token \in Nat
  BY <1>1, <1>3
<1>5. estado' \in [Pids -> Estados]
  BY <1>3 DEF TiposDeListas, Estados
<1>6. cola' \in [Colas -> Seq(Pids)]
  BY <1>2, <1>3 DEF TiposDeListas
<1>7. semEstado' \in [Colas -> Nat]
  <2>1. semEstado[c] + 1 \in Nat
    BY <1>1
  <2>2. semEstado' = [semEstado EXCEPT ![de] = semEstado[de] - token, ![c] = semEstado[c] + 1]
    BY <1>3 DEF TiposDeListas
  <2>3. QED
    BY <1>4, <2>1, <2>2 DEF TiposDeListas
<1>8. QED
  BY <1>3, <1>5, <1>6, <1>7 DEF TiposDeListas

(* What mover does to the two lists: the process leaves one and is the last *)
(* of the other. *)
LEMMA TrasMover ==
  ASSUME TiposDeListas, NEW p \in Pids, NEW de \in Colas, NEW c \in Colas \ {de},
         NEW token \in {0, 1}, mover(p, de, c, token),
         p \in ToSet(cola[de]), p \notin ToSet(cola[c]), Distintos(cola[de]), Distintos(cola[c])
  PROVE  /\ Distintos(cola'[de]) /\ Distintos(cola'[c])
         /\ \A q : q \in ToSet(cola'[de]) <=> q \in ToSet(cola[de]) /\ q # p
         /\ \A q : q \in ToSet(cola'[c]) <=> q \in ToSet(cola[c]) \/ q = p
         /\ Len(cola'[de]) = Len(cola[de]) - 1
         /\ Len(cola'[c]) = Len(cola[c]) + 1
<1> DEFINE t == Append(cola[c], p)
           s == Sin(cola[de], p)
<1>1. cola[c] \in Seq(Pids) /\ cola[de] \in Seq(Pids)
  BY DEF TiposDeListas
<1>2. /\ Len(t) = Len(cola[c]) + 1 /\ ToSet(t) = ToSet(cola[c]) \cup {p}
      /\ Distintos(cola[c]) /\ p \notin ToSet(cola[c]) => Distintos(t)
  BY <1>1, ElementosConUnoMas
<1>3. /\ p \in ToSet(cola[de]) => Len(s) = Len(cola[de]) - 1
      /\ Distintos(cola[de]) => Distintos(s) /\ ToSet(s) = ToSet(cola[de]) \ {p}
  BY <1>1, SinUno
<1> HIDE DEF t, s
<1>4. cola' = [cola EXCEPT ![de] = s, ![c] = t]
  BY MoverTipo DEF s, t
<1>5. cola'[de] = s /\ cola'[c] = t
  BY <1>4 DEF TiposDeListas
<1>6. QED
  BY <1>2, <1>3, <1>5

-----------------------------------------------------------------------------
(* Every step preserves each part of the invariant.                        *)

(* The states and the lists of the processes. *)
LEMMA TiposDeListasPaso ==
  ASSUME Tipos, Lineas, [Next]_vars
  PROVE  TiposDeListas'
<1>1. ASSUME NEW p \in Pids, iniciar_proceso(p)
      PROVE  TiposDeListas'
  BY <1>1, TrasProcesoA DEF iniciar_proceso, Colas, Tipos
<1>2. CASE DesencolarPorPid
  <2>1. Rastreo[paso] \in Colas
    BY DEF Rastreo, Colas, Tipos, TiposDeHilos
  <2>2. cola[Rastreo[paso]] \in Seq(Pids) /\
          Sin(cola[Rastreo[paso]], pcb["consola"]) \in Seq(Pids)
    BY <2>1, SinUno DEF Tipos, TiposDeListas
  <2>3. CASE UNCHANGED <<estado, cola, semEstado>>
    BY <2>3 DEF Tipos, TiposDeListas
  <2>4. CASE /\ semEstado[Rastreo[paso]] > 0
             /\ estado' = estado
             /\ cola' = [cola EXCEPT ![Rastreo[paso]] = Sin(@, pcb["consola"])]
             /\ semEstado' = [semEstado EXCEPT ![Rastreo[paso]] = @ - 1]
    BY <2>1, <2>2, <2>4 DEF Tipos, TiposDeListas
  <2>5. QED
    BY <1>2, <2>3, <2>4 DEF DesencolarPorPid
<1>3. CASE AgregarAFinalizar
  <2>1. pcb["consola"] \in Pids
    BY <1>3 DEF AgregarAFinalizar, En, Lineas
  <2>2. CASE UNCHANGED colas
    BY <2>2 DEF colas, Tipos, TiposDeListas
  <2>3. CASE proceso_a(pcb["consola"], "EXIT")
    BY <2>1, <2>3, TrasProcesoA DEF Colas, Tipos
  <2>4. QED
    BY <1>3, <2>2, <2>3 DEF AgregarAFinalizar
<1>4. CASE EsperarNew
  BY <1>4 DEF EsperarNew, En, Ir, Tipos, TiposDeListas, Colas, Estados, colas, grados,
     recursos, hiloCorto, hiloConsola
<1>5. CASE TomarDeNew
  <2>1. cola["NEW"] \in Seq(Pids) /\ cola["NEW"] # <<>>
    BY <1>5 DEF TomarDeNew, Tipos, TiposDeListas, Colas
  <2>2. Tail(cola["NEW"]) \in Seq(Pids)
    BY <2>1, ElementosSinElPrimero
  <2>3. QED
    BY <1>5, <2>2 DEF TomarDeNew, Tipos, TiposDeListas
<1>6. CASE RespuestaMemoria
  <2>1. PICK c \in {"READY", "EXIT"} : proceso_a(pcb["largo"], c)
    BY <1>6 DEF RespuestaMemoria
  <2>2. pcb["largo"] \in Pids
    BY <1>6 DEF RespuestaMemoria, En, Lineas
  <2>3. QED
    BY <2>1, <2>2, TrasProcesoA DEF Colas, Tipos
<1>7. CASE EsperarReady
  BY <1>7 DEF EsperarReady, En, Ir, Tipos, TiposDeListas, Colas, Estados, colas, grados,
     recursos, hiloCorto, hiloConsola
<1>8. CASE Despachar
  <2>1. Head(cola["READY"]) \in Pids
    BY <1>8, HeadTailProperties DEF Despachar, Tipos, TiposDeListas, Colas
  <2>2. QED
    BY <1>8, <2>1, MoverTipo DEF Despachar, Colas, Tipos
<1>9. CASE TomarDeExec
  <2>1. cola["EXEC"] \in Seq(Pids) /\ cola["EXEC"] # <<>>
    BY <1>9 DEF TomarDeExec, Tipos, TiposDeListas, Colas
  <2>2. Tail(cola["EXEC"]) \in Seq(Pids)
    BY <2>1, ElementosSinElPrimero
  <2>3. QED
    BY <1>9, <2>2 DEF TomarDeExec, Tipos, TiposDeListas, Colas
<1>10. CASE ManejarSalida
  <2>1. pcb["corto"] \in Pids /\ proceso_a(pcb["corto"], "EXIT")
    BY <1>10 DEF ManejarSalida, En, Lineas, EnCurso
  <2>2. QED
    BY <2>1, TrasProcesoA DEF Colas, Tipos
<1>11. CASE ManejarFinQuantum
  <2>1. pcb["corto"] \in Pids /\ proceso_a(pcb["corto"], "READY")
    BY <1>11 DEF ManejarFinQuantum, En, Lineas, EnCurso
  <2>2. QED
    BY <2>1, TrasProcesoA DEF Colas, Tipos
<1>12. CASE ManejarIO
  <2>1. pcb["corto"] \in Pids /\ proceso_a(pcb["corto"], "BLOCKED")
    BY <1>12 DEF ManejarIO, En, Lineas, EnCurso
  <2>2. QED
    BY <2>1, TrasProcesoA DEF Colas, Tipos
<1>13. CASE ManejarWait
  <2>1. CASE UNCHANGED colas
    BY <2>1 DEF colas, Tipos, TiposDeListas
  <2>2. CASE proceso_a(pcb["corto"], "BLOCKED")
    <3>1. pcb["corto"] \in Pids
      BY <1>13 DEF ManejarWait, En, Lineas, EnCurso
    <3>2. QED
      BY <2>2, <3>1, TrasProcesoA DEF Colas, Tipos
  <2>3. QED
    BY <1>13, <2>1, <2>2 DEF ManejarWait
<1>14. CASE ManejarSignal
  <2>1. CASE UNCHANGED colas
    BY <2>1 DEF colas, Tipos, TiposDeListas
  <2>2. CASE \E w \in porRecurso : mover(w, "BLOCKED", "READY", 1)
    BY <2>2, MoverTipo DEF Colas, Tipos, TiposDeConjuntos
  <2>3. QED
    BY <1>14, <2>1, <2>2 DEF ManejarSignal, desbloquear_si_corresponde
<1>15. CASE SeguirEjecutando
  <2>1. pcb["corto"] \in Pids /\ proceso_a(pcb["corto"], "EXEC")
    BY <1>15 DEF SeguirEjecutando, En, Lineas, EnCurso
  <2>2. QED
    BY <2>1, TrasProcesoA DEF Colas, Tipos
<1>16. ASSUME NEW p \in Pids, FinIO(p)
      PROVE  TiposDeListas'
  BY <1>16, MoverTipo DEF FinIO, Colas, Tipos
<1>17. CASE TomarDeExit
  <2>1. cola["EXIT"] \in Seq(Pids) /\ cola["EXIT"] # <<>>
    BY <1>17 DEF TomarDeExit, Tipos, TiposDeListas, Colas
  <2>2. Tail(cola["EXIT"]) \in Seq(Pids)
    BY <2>1, ElementosSinElPrimero
  <2>3. QED
    BY <1>17, <2>2 DEF TomarDeExit, Tipos, TiposDeListas, Colas
<1>18. CASE liberar_recurso
  <2>1. CASE UNCHANGED colas
    BY <2>1 DEF colas, Tipos, TiposDeListas
  <2>2. CASE \E w \in porRecurso : mover(w, "BLOCKED", "READY", 1)
    BY <2>2, MoverTipo DEF Colas, Tipos, TiposDeConjuntos
  <2>3. QED
    BY <1>18, <2>1, <2>2 DEF liberar_recurso, desbloquear_si_corresponde
<1>19. CASE eliminar_pcb
  BY <1>19 DEF eliminar_pcb, En, Ir, Tipos, TiposDeListas, Colas, Estados, colas, grados,
     recursos, hiloCorto, hiloConsola
<1>20. CASE iniciar_planificacion \/ DETENER_PLANIFICACION \/ FinDetener \/ ReducirGrado \/
           MirarCola \/ Reanudar \/ EsperarControl \/ EsperarGrado \/ EsperarExecTo \/
           ConsultarPendiente \/ (\E p \in Pids : FINALIZAR_PROCESO(p)) \/ (\E t \in
           Transiciones : TomarTransicion(t)) \/ (\E n \in Grados :
           cambiar_grado_multiprogramacion_a(n)) \/ (\E m \in Motivos : Desalojo(m)) \/
           UNCHANGED vars
  BY <1>20 DEF vars, iniciar_planificacion, En, postear_todas, DETENER_PLANIFICACION,
     detener_planificacion, Ir, FINALIZAR_PROCESO, TomarTransicion, FinDetener,
     cambiar_grado_multiprogramacion_a, ReducirGrado, MirarCola, SeguirRastreo, Reanudar,
     EsperarControl, EsperarGrado, Desalojo, EsperarExecTo, ConsultarPendiente, Tipos,
     TiposDeListas, Colas, Estados, colas, grados, recursos, hiloCorto, hiloConsola
<1>21. QED
  BY <1>1, <1>2, <1>3, <1>4, <1>5, <1>6, <1>7, <1>8, <1>9, <1>10, <1>11, <1>12, <1>13,
     <1>14, <1>15, <1>16, <1>17, <1>18, <1>19, <1>20 DEF Next, PasoConsola, PasoLargo,
     PasoCorto, PasoInterfaz, PasoExit

(* The sets of processes. *)
LEMMA TiposDeConjuntosPaso ==
  ASSUME Tipos, Lineas, [Next]_vars
  PROVE  TiposDeConjuntos'
<1>1. CASE AgregarAFinalizar
  BY <1>1 DEF AgregarAFinalizar, En, Ir, Tipos, TiposDeConjuntos, Lineas, EnCurso, colas,
     grados, recursos, hiloCorto, hiloConsola
<1>2. CASE TomarDeNew
  BY <1>2, HeadTailProperties DEF TomarDeNew, Tipos, TiposDeConjuntos, TiposDeListas, Colas,
     recursos
<1>3. CASE ManejarWait
  BY <1>3 DEF ManejarWait, FinManejo, En, Ir, Tipos, TiposDeConjuntos, Lineas, EnCurso,
     colas, grados, recursos, hiloCorto, hiloConsola
<1>4. CASE ManejarSignal
  BY <1>4 DEF ManejarSignal, desbloquear_si_corresponde, En, Ir, Tipos, TiposDeConjuntos,
     Lineas, EnCurso, colas, grados, recursos, hiloCorto, hiloConsola
<1>5. CASE liberar_recurso
  BY <1>5 DEF liberar_recurso, desbloquear_si_corresponde, En, Tipos, TiposDeConjuntos,
     Lineas, EnCurso, colas, grados, recursos, hiloCorto, hiloConsola
<1>6. CASE eliminar_pcb
  BY <1>6 DEF eliminar_pcb, En, Ir, Tipos, TiposDeConjuntos, Lineas, EnCurso, colas, grados,
     recursos, hiloCorto, hiloConsola
<1>7. CASE iniciar_planificacion \/ DETENER_PLANIFICACION \/ FinDetener \/ ReducirGrado \/
           MirarCola \/ DesencolarPorPid \/ Reanudar \/ EsperarControl \/ EsperarGrado \/
           EsperarNew \/ RespuestaMemoria \/ EsperarReady \/ Despachar \/ EsperarExecTo \/
           ConsultarPendiente \/ TomarDeExec \/ ManejarSalida \/ ManejarFinQuantum \/
           ManejarIO \/ SeguirEjecutando \/ TomarDeExit \/ (\E p \in Pids :
           iniciar_proceso(p) \/ FINALIZAR_PROCESO(p) \/ FinIO(p)) \/ (\E t \in Transiciones
           : TomarTransicion(t)) \/ (\E n \in Grados : cambiar_grado_multiprogramacion_a(n))
           \/ (\E m \in Motivos : Desalojo(m)) \/ UNCHANGED vars
  BY <1>7 DEF vars, iniciar_proceso, En, iniciar_planificacion, postear_todas,
     DETENER_PLANIFICACION, detener_planificacion, Ir, FINALIZAR_PROCESO, TomarTransicion,
     FinDetener, cambiar_grado_multiprogramacion_a, ReducirGrado, MirarCola, SeguirRastreo,
     DesencolarPorPid, Reanudar, EsperarControl, EsperarGrado, EsperarNew, RespuestaMemoria,
     EsperarReady, Despachar, Desalojo, EsperarExecTo, ConsultarPendiente, TomarDeExec,
     ManejarSalida, FinManejo, ManejarFinQuantum, ManejarIO, SeguirEjecutando, FinIO,
     TomarDeExit, Tipos, TiposDeConjuntos, Lineas, EnCurso, colas, grados, recursos,
     hiloCorto, hiloConsola
<1>8. QED
  BY <1>1, <1>2, <1>3, <1>4, <1>5, <1>6, <1>7 DEF Next, PasoConsola, PasoLargo, PasoCorto,
     PasoInterfaz, PasoExit

(* The semaphores of the planning and the degree. *)
LEMMA TiposDeContadoresPaso ==
  ASSUME Tipos, Lineas, Marcos, [Next]_vars
  PROVE  TiposDeContadores'
<1>1. CASE iniciar_planificacion
  BY <1>1, PlanificacionAssumption DEF iniciar_planificacion, En, postear_todas, Tipos,
     TiposDeContadores, Lineas, Marcos, Transiciones, colas, grados, recursos, hiloCorto,
     hiloConsola
<1>2. ASSUME NEW t \in Transiciones, TomarTransicion(t)
      PROVE  TiposDeContadores'
  BY <1>2, PlanificacionAssumption DEF TomarTransicion, En, Tipos, TiposDeContadores,
     Lineas, Marcos, Transiciones, colas, grados, recursos, hiloCorto, hiloConsola
<1>3. ASSUME NEW n \in Grados, cambiar_grado_multiprogramacion_a(n)
      PROVE  TiposDeContadores'
  BY <1>3, PlanificacionAssumption DEF cambiar_grado_multiprogramacion_a, En, Ir, Tipos,
     TiposDeContadores, Lineas, Marcos, Transiciones, colas, grados, recursos, hiloCorto,
     hiloConsola
<1>4. CASE ReducirGrado
  BY <1>4, PlanificacionAssumption DEF ReducirGrado, En, Ir, Tipos, TiposDeContadores,
     Lineas, Marcos, Transiciones, colas, grados, recursos, hiloCorto, hiloConsola
<1>5. CASE Reanudar
  BY <1>5, PlanificacionAssumption DEF Reanudar, postear_todas, En, Ir, Tipos,
     TiposDeContadores, Lineas, Marcos, Transiciones, colas, grados, recursos, hiloCorto,
     hiloConsola
<1>6. CASE EsperarGrado
  BY <1>6, PlanificacionAssumption DEF EsperarGrado, En, Ir, Tipos, TiposDeContadores,
     Lineas, Marcos, Transiciones, colas, grados, recursos, hiloCorto, hiloConsola
<1>7. CASE TomarDeNew
  BY <1>7, PlanificacionAssumption DEF TomarDeNew, En, Ir, Tipos, TiposDeContadores, Lineas,
     Marcos, Transiciones, colas, grados, recursos, hiloCorto, hiloConsola
<1>8. CASE RespuestaMemoria
  BY <1>8, PlanificacionAssumption DEF RespuestaMemoria, En, Ir, Tipos, TiposDeContadores,
     Lineas, Marcos, Transiciones, colas, grados, recursos, hiloCorto, hiloConsola
<1>9. CASE EsperarExecTo
  BY <1>9, PlanificacionAssumption DEF EsperarExecTo, En, Ir, Tipos, TiposDeContadores,
     Lineas, Marcos, Transiciones, colas, grados, recursos, hiloCorto, hiloConsola
<1>10. CASE ManejarSalida
  BY <1>10, PlanificacionAssumption DEF ManejarSalida, FinManejo, En, Ir, Tipos,
     TiposDeContadores, Lineas, Marcos, Transiciones, colas, grados, recursos, hiloCorto,
     hiloConsola
<1>11. CASE ManejarFinQuantum
  BY <1>11, PlanificacionAssumption DEF ManejarFinQuantum, FinManejo, En, Ir, Tipos,
     TiposDeContadores, Lineas, Marcos, Transiciones, colas, grados, recursos, hiloCorto,
     hiloConsola
<1>12. CASE ManejarIO
  BY <1>12, PlanificacionAssumption DEF ManejarIO, FinManejo, En, Ir, Tipos,
     TiposDeContadores, Lineas, Marcos, Transiciones, colas, grados, recursos, hiloCorto,
     hiloConsola
<1>13. CASE ManejarWait
  BY <1>13, PlanificacionAssumption DEF ManejarWait, FinManejo, En, Ir, Tipos,
     TiposDeContadores, Lineas, Marcos, Transiciones, colas, grados, recursos, hiloCorto,
     hiloConsola
<1>14. CASE SeguirEjecutando
  BY <1>14, PlanificacionAssumption DEF SeguirEjecutando, En, Ir, Tipos, TiposDeContadores,
     Lineas, Marcos, Transiciones, colas, grados, recursos, hiloCorto, hiloConsola
<1>15. CASE eliminar_pcb
  BY <1>15, PlanificacionAssumption DEF eliminar_pcb, En, Ir, Tipos, TiposDeContadores,
     Lineas, Marcos, Transiciones, colas, grados, recursos, hiloCorto, hiloConsola
<1>16. CASE DETENER_PLANIFICACION \/ FinDetener \/ MirarCola \/ DesencolarPorPid \/
           AgregarAFinalizar \/ EsperarControl \/ EsperarNew \/ EsperarReady \/ Despachar \/
           ConsultarPendiente \/ TomarDeExec \/ ManejarSignal \/ TomarDeExit \/
           liberar_recurso \/ (\E p \in Pids : iniciar_proceso(p) \/ FINALIZAR_PROCESO(p) \/
           FinIO(p)) \/ (\E m \in Motivos : Desalojo(m)) \/ UNCHANGED vars
  BY <1>16, PlanificacionAssumption DEF vars, iniciar_proceso, En, DETENER_PLANIFICACION,
     detener_planificacion, Ir, FINALIZAR_PROCESO, FinDetener, MirarCola, SeguirRastreo,
     DesencolarPorPid, AgregarAFinalizar, EsperarControl, EsperarNew, EsperarReady,
     Despachar, Desalojo, ConsultarPendiente, TomarDeExec, ManejarSignal,
     desbloquear_si_corresponde, FinIO, TomarDeExit, liberar_recurso, Tipos,
     TiposDeContadores, Lineas, Marcos, Transiciones, colas, grados, recursos, hiloCorto,
     hiloConsola
<1>17. QED
  BY <1>1, <1>2, <1>3, <1>4, <1>5, <1>6, <1>7, <1>8, <1>9, <1>10, <1>11, <1>12, <1>13,
     <1>14, <1>15, <1>16 DEF Next, PasoConsola, PasoLargo, PasoCorto, PasoInterfaz, PasoExit

(* Where the threads are. *)
LEMMA TiposDeHilosPaso ==
  ASSUME Tipos, Lineas, [Next]_vars
  PROVE  TiposDeHilos' /\ Lineas'
<1>1. ASSUME NEW p \in Pids, iniciar_proceso(p)
      PROVE  TiposDeHilos' /\ Lineas'
  BY <1>1 DEF iniciar_proceso, En, Tipos, TiposDeHilos, TiposDeContadores, Lineas, Hilos,
     Rastreo, Puntos, PuntosLargo, PuntosCorto, PuntosConsola, EnCurso, colas, grados,
     recursos, hiloCorto, hiloConsola
<1>2. CASE iniciar_planificacion
  BY <1>2 DEF iniciar_planificacion, En, Tipos, TiposDeHilos, TiposDeContadores, Lineas,
     Hilos, Rastreo, Puntos, PuntosLargo, PuntosCorto, PuntosConsola, EnCurso, colas,
     grados, recursos, hiloCorto, hiloConsola
<1>3. CASE DETENER_PLANIFICACION
  BY <1>3 DEF DETENER_PLANIFICACION, detener_planificacion, En, Ir, Tipos, TiposDeHilos,
     TiposDeContadores, Lineas, Hilos, Rastreo, Puntos, PuntosLargo, PuntosCorto,
     PuntosConsola, EnCurso, colas, grados, recursos, hiloCorto, hiloConsola
<1>4. ASSUME NEW p \in Pids, FINALIZAR_PROCESO(p)
      PROVE  TiposDeHilos' /\ Lineas'
  BY <1>4 DEF FINALIZAR_PROCESO, detener_planificacion, En, Ir, Tipos, TiposDeHilos,
     TiposDeContadores, Lineas, Hilos, Rastreo, Puntos, PuntosLargo, PuntosCorto,
     PuntosConsola, EnCurso, colas, grados, recursos, hiloCorto, hiloConsola
<1>5. ASSUME NEW t \in Transiciones, TomarTransicion(t)
      PROVE  TiposDeHilos' /\ Lineas'
  BY <1>5 DEF TomarTransicion, En, Tipos, TiposDeHilos, TiposDeContadores, Lineas, Hilos,
     Rastreo, Puntos, PuntosLargo, PuntosCorto, PuntosConsola, EnCurso, colas, grados,
     recursos, hiloCorto, hiloConsola
<1>6. CASE FinDetener
  BY <1>6 DEF FinDetener, En, Ir, Tipos, TiposDeHilos, TiposDeContadores, Lineas, Hilos,
     Rastreo, Puntos, PuntosLargo, PuntosCorto, PuntosConsola, EnCurso, colas, grados,
     recursos, hiloCorto, hiloConsola
<1>7. ASSUME NEW n \in Grados, cambiar_grado_multiprogramacion_a(n)
      PROVE  TiposDeHilos' /\ Lineas'
  <2>1. n \in Nat
    BY PlanificacionAssumption
  <2>2. QED
    BY <1>7, <2>1 DEF cambiar_grado_multiprogramacion_a, En, Ir, Tipos, TiposDeHilos,
       TiposDeContadores,
       Lineas, Hilos, Puntos, PuntosLargo, PuntosCorto, PuntosConsola, EnCurso, hiloCorto
<1>8. CASE ReducirGrado
  BY <1>8 DEF ReducirGrado, En, Ir, Tipos, TiposDeHilos, TiposDeContadores, Lineas, Hilos,
     Rastreo, Puntos, PuntosLargo, PuntosCorto, PuntosConsola, EnCurso, colas, grados,
     recursos, hiloCorto, hiloConsola
<1>9. CASE MirarCola
  BY <1>9 DEF MirarCola, SeguirRastreo, En, Ir, Tipos, TiposDeHilos, TiposDeContadores,
     Lineas, Hilos, Rastreo, Puntos, PuntosLargo, PuntosCorto, PuntosConsola, EnCurso,
     colas, grados, recursos, hiloCorto, hiloConsola
<1>10. CASE DesencolarPorPid
  BY <1>10 DEF DesencolarPorPid, SeguirRastreo, En, Ir, Tipos, TiposDeHilos,
     TiposDeContadores, Lineas, Hilos, Rastreo, Puntos, PuntosLargo, PuntosCorto,
     PuntosConsola, EnCurso, colas, grados, recursos, hiloCorto, hiloConsola
<1>11. CASE AgregarAFinalizar
  BY <1>11 DEF AgregarAFinalizar, En, Ir, Tipos, TiposDeHilos, TiposDeContadores, Lineas,
     Hilos, Rastreo, Puntos, PuntosLargo, PuntosCorto, PuntosConsola, EnCurso, colas,
     grados, recursos, hiloCorto, hiloConsola
<1>12. CASE Reanudar
  BY <1>12 DEF Reanudar, En, Ir, Tipos, TiposDeHilos, TiposDeContadores, Lineas, Hilos,
     Rastreo, Puntos, PuntosLargo, PuntosCorto, PuntosConsola, EnCurso, colas, grados,
     recursos, hiloCorto, hiloConsola
<1>13. CASE EsperarControl
  BY <1>13 DEF EsperarControl, En, Ir, Tipos, TiposDeHilos, TiposDeContadores, Lineas,
     Hilos, Rastreo, Puntos, PuntosLargo, PuntosCorto, PuntosConsola, EnCurso, colas,
     grados, recursos, hiloCorto, hiloConsola
<1>14. CASE EsperarGrado
  BY <1>14 DEF EsperarGrado, En, Ir, Tipos, TiposDeHilos, TiposDeContadores, Lineas, Hilos,
     Rastreo, Puntos, PuntosLargo, PuntosCorto, PuntosConsola, EnCurso, colas, grados,
     recursos, hiloCorto, hiloConsola
<1>15. CASE EsperarNew
  BY <1>15 DEF EsperarNew, En, Ir, Tipos, TiposDeHilos, TiposDeContadores, Lineas, Hilos,
     Rastreo, Puntos, PuntosLargo, PuntosCorto, PuntosConsola, EnCurso, colas, grados,
     recursos, hiloCorto, hiloConsola
<1>16. CASE TomarDeNew
  <2>1. Head(cola["NEW"]) \in Pids
    BY <1>16, HeadTailProperties DEF TomarDeNew, Tipos, TiposDeListas, Colas
  <2>2. QED
    BY <1>16, <2>1 DEF TomarDeNew, En, Ir, Tipos, TiposDeHilos, Lineas, Hilos, Puntos,
       PuntosLargo, PuntosCorto,
       PuntosConsola, EnCurso, hiloConsola
<1>17. CASE RespuestaMemoria
  BY <1>17 DEF RespuestaMemoria, En, Ir, Tipos, TiposDeHilos, TiposDeContadores, Lineas,
     Hilos, Rastreo, Puntos, PuntosLargo, PuntosCorto, PuntosConsola, EnCurso, colas,
     grados, recursos, hiloCorto, hiloConsola
<1>18. CASE EsperarReady
  BY <1>18 DEF EsperarReady, En, Ir, Tipos, TiposDeHilos, TiposDeContadores, Lineas, Hilos,
     Rastreo, Puntos, PuntosLargo, PuntosCorto, PuntosConsola, EnCurso, colas, grados,
     recursos, hiloCorto, hiloConsola
<1>19. CASE Despachar
  <2>1. Head(cola["READY"]) \in Pids
    BY <1>19, HeadTailProperties DEF Despachar, Tipos, TiposDeListas, Colas
  <2>2. QED
    BY <1>19, <2>1 DEF Despachar, En, Ir, Tipos, TiposDeHilos, Lineas, Hilos, Puntos,
       PuntosLargo, PuntosCorto,
       PuntosConsola, EnCurso, hiloConsola
<1>20. ASSUME NEW m \in Motivos, Desalojo(m)
      PROVE  TiposDeHilos' /\ Lineas'
  BY <1>20 DEF Desalojo, En, Ir, Tipos, TiposDeHilos, TiposDeContadores, Lineas, Hilos,
     Rastreo, Puntos, PuntosLargo, PuntosCorto, PuntosConsola, EnCurso, colas, grados,
     recursos, hiloCorto, hiloConsola
<1>21. CASE EsperarExecTo
  BY <1>21 DEF EsperarExecTo, En, Ir, Tipos, TiposDeHilos, TiposDeContadores, Lineas, Hilos,
     Rastreo, Puntos, PuntosLargo, PuntosCorto, PuntosConsola, EnCurso, colas, grados,
     recursos, hiloCorto, hiloConsola
<1>22. CASE ConsultarPendiente
  BY <1>22 DEF ConsultarPendiente, En, Ir, Tipos, TiposDeHilos, TiposDeContadores, Lineas,
     Hilos, Rastreo, Puntos, PuntosLargo, PuntosCorto, PuntosConsola, EnCurso, colas,
     grados, recursos, hiloCorto, hiloConsola
<1>23. CASE TomarDeExec
  <2>1. Head(cola["EXEC"]) \in Pids
    BY <1>23, HeadTailProperties DEF TomarDeExec, Tipos, TiposDeListas, Colas
  <2>2. QED
    BY <1>23, <2>1 DEF TomarDeExec, En, Ir, Tipos, TiposDeHilos, Lineas, Hilos, Puntos,
       PuntosLargo, PuntosCorto,
       PuntosConsola, EnCurso, hiloConsola
<1>24. CASE ManejarSalida
  BY <1>24 DEF ManejarSalida, FinManejo, En, Ir, Tipos, TiposDeHilos, TiposDeContadores,
     Lineas, Hilos, Rastreo, Puntos, PuntosLargo, PuntosCorto, PuntosConsola, EnCurso,
     colas, grados, recursos, hiloCorto, hiloConsola
<1>25. CASE ManejarFinQuantum
  BY <1>25 DEF ManejarFinQuantum, FinManejo, En, Ir, Tipos, TiposDeHilos, TiposDeContadores,
     Lineas, Hilos, Rastreo, Puntos, PuntosLargo, PuntosCorto, PuntosConsola, EnCurso,
     colas, grados, recursos, hiloCorto, hiloConsola
<1>26. CASE ManejarIO
  BY <1>26 DEF ManejarIO, FinManejo, En, Ir, Tipos, TiposDeHilos, TiposDeContadores, Lineas,
     Hilos, Rastreo, Puntos, PuntosLargo, PuntosCorto, PuntosConsola, EnCurso, colas,
     grados, recursos, hiloCorto, hiloConsola
<1>27. CASE ManejarWait
  BY <1>27 DEF ManejarWait, FinManejo, En, Ir, Tipos, TiposDeHilos, TiposDeContadores,
     Lineas, Hilos, Rastreo, Puntos, PuntosLargo, PuntosCorto, PuntosConsola, EnCurso,
     colas, grados, recursos, hiloCorto, hiloConsola
<1>28. CASE ManejarSignal
  BY <1>28 DEF ManejarSignal, En, Ir, Tipos, TiposDeHilos, TiposDeContadores, Lineas, Hilos,
     Rastreo, Puntos, PuntosLargo, PuntosCorto, PuntosConsola, EnCurso, colas, grados,
     recursos, hiloCorto, hiloConsola
<1>29. CASE SeguirEjecutando
  BY <1>29 DEF SeguirEjecutando, En, Ir, Tipos, TiposDeHilos, TiposDeContadores, Lineas,
     Hilos, Rastreo, Puntos, PuntosLargo, PuntosCorto, PuntosConsola, EnCurso, colas,
     grados, recursos, hiloCorto, hiloConsola
<1>30. ASSUME NEW p \in Pids, FinIO(p)
      PROVE  TiposDeHilos' /\ Lineas'
  BY <1>30 DEF FinIO, Tipos, TiposDeHilos, TiposDeContadores, Lineas, Hilos, Rastreo,
     Puntos, PuntosLargo, PuntosCorto, PuntosConsola, EnCurso, colas, grados, recursos,
     hiloCorto, hiloConsola
<1>31. CASE TomarDeExit
  <2>1. Head(cola["EXIT"]) \in Pids
    BY <1>31, HeadTailProperties DEF TomarDeExit, Tipos, TiposDeListas, Colas
  <2>2. QED
    BY <1>31, <2>1 DEF TomarDeExit, En, Ir, Tipos, TiposDeHilos, Lineas, Hilos, Puntos,
       PuntosLargo, PuntosCorto,
       PuntosConsola, EnCurso, hiloConsola
<1>32. CASE liberar_recurso
  BY <1>32 DEF liberar_recurso, En, Tipos, TiposDeHilos, TiposDeContadores, Lineas, Hilos,
     Rastreo, Puntos, PuntosLargo, PuntosCorto, PuntosConsola, EnCurso, colas, grados,
     recursos, hiloCorto, hiloConsola
<1>33. CASE eliminar_pcb
  BY <1>33 DEF eliminar_pcb, En, Ir, Tipos, TiposDeHilos, TiposDeContadores, Lineas, Hilos,
     Rastreo, Puntos, PuntosLargo, PuntosCorto, PuntosConsola, EnCurso, colas, grados,
     recursos, hiloCorto, hiloConsola
<1>34. CASE UNCHANGED vars
  BY <1>34 DEF vars, Tipos, TiposDeHilos, TiposDeContadores, Lineas, Hilos, Rastreo, Puntos,
     PuntosLargo, PuntosCorto, PuntosConsola, EnCurso, colas, grados, recursos, hiloCorto,
     hiloConsola
<1>35. QED
  BY <1>1, <1>2, <1>3, <1>4, <1>5, <1>6, <1>7, <1>8, <1>9, <1>10, <1>11, <1>12, <1>13,
     <1>14, <1>15, <1>16, <1>17, <1>18, <1>19, <1>20, <1>21, <1>22, <1>23, <1>24, <1>25,
     <1>26, <1>27, <1>28, <1>29, <1>30, <1>31, <1>32, <1>33, <1>34 DEF Next, PasoConsola,
     PasoLargo, PasoCorto, PasoInterfaz, PasoExit

(* The console and the stop of the planning. *)
LEMMA ParadaPaso ==
  ASSUME Tipos, Lineas, Parada, [Next]_vars
  PROVE  Parada'
<1>1. CASE iniciar_planificacion
  BY <1>1 DEF iniciar_planificacion, En, Tipos, TiposDeHilos, Lineas, Parada, Hilos, Puntos,
     PuntosConsola, colas, grados, recursos, hiloCorto, hiloConsola
<1>2. CASE DETENER_PLANIFICACION
  BY <1>2 DEF DETENER_PLANIFICACION, detener_planificacion, En, Ir, Tipos, TiposDeHilos,
     Lineas, Parada, Hilos, Puntos, PuntosConsola, colas, grados, recursos, hiloCorto,
     hiloConsola
<1>3. ASSUME NEW p \in Pids, FINALIZAR_PROCESO(p)
      PROVE  Parada'
  BY <1>3 DEF FINALIZAR_PROCESO, detener_planificacion, En, Ir, Tipos, TiposDeHilos, Lineas,
     Parada, Hilos, Puntos, PuntosConsola, colas, grados, recursos, hiloCorto, hiloConsola
<1>4. ASSUME NEW t \in Transiciones, TomarTransicion(t)
      PROVE  Parada'
  BY <1>4 DEF TomarTransicion, En, Tipos, TiposDeHilos, Lineas, Parada, Hilos, Puntos,
     PuntosConsola, colas, grados, recursos, hiloCorto, hiloConsola
<1>5. CASE FinDetener
  BY <1>5 DEF FinDetener, En, Ir, Tipos, TiposDeHilos, Lineas, Parada, Hilos, Puntos,
     PuntosConsola, colas, grados, recursos, hiloCorto, hiloConsola
<1>6. ASSUME NEW n \in Grados, cambiar_grado_multiprogramacion_a(n)
      PROVE  Parada'
  BY <1>6 DEF cambiar_grado_multiprogramacion_a, En, Ir, Tipos, TiposDeHilos, Lineas,
     Parada, Hilos, Puntos, PuntosConsola, colas, grados, recursos, hiloCorto, hiloConsola
<1>7. CASE ReducirGrado
  BY <1>7 DEF ReducirGrado, En, Ir, Tipos, TiposDeHilos, Lineas, Parada, Hilos, Puntos,
     PuntosConsola, colas, grados, recursos, hiloCorto, hiloConsola
<1>8. CASE MirarCola
  BY <1>8 DEF MirarCola, SeguirRastreo, En, Ir, Tipos, TiposDeHilos, Lineas, Parada, Hilos,
     Puntos, PuntosConsola, colas, grados, recursos, hiloCorto, hiloConsola
<1>9. CASE DesencolarPorPid
  BY <1>9 DEF DesencolarPorPid, SeguirRastreo, En, Ir, Tipos, TiposDeHilos, Lineas, Parada,
     Hilos, Puntos, PuntosConsola, colas, grados, recursos, hiloCorto, hiloConsola
<1>10. CASE AgregarAFinalizar
  BY <1>10 DEF AgregarAFinalizar, En, Ir, Tipos, TiposDeHilos, Lineas, Parada, Hilos,
     Puntos, PuntosConsola, colas, grados, recursos, hiloCorto, hiloConsola
<1>11. CASE Reanudar
  BY <1>11 DEF Reanudar, En, Ir, Tipos, TiposDeHilos, Lineas, Parada, Hilos, Puntos,
     PuntosConsola, colas, grados, recursos, hiloCorto, hiloConsola
<1>12. CASE EsperarControl \/ EsperarGrado \/ EsperarNew \/ TomarDeNew \/ RespuestaMemoria
           \/ EsperarReady \/ Despachar \/ EsperarExecTo \/ ConsultarPendiente \/
           TomarDeExec \/ ManejarSalida \/ ManejarFinQuantum \/ ManejarIO \/ ManejarWait \/
           ManejarSignal \/ SeguirEjecutando \/ TomarDeExit \/ liberar_recurso \/
           eliminar_pcb \/ (\E p \in Pids : iniciar_proceso(p) \/ FinIO(p)) \/ (\E m \in
           Motivos : Desalojo(m)) \/ UNCHANGED vars
  BY <1>12 DEF vars, iniciar_proceso, En, EsperarControl, Ir, EsperarGrado, EsperarNew,
     TomarDeNew, RespuestaMemoria, EsperarReady, Despachar, Desalojo, EsperarExecTo,
     ConsultarPendiente, TomarDeExec, ManejarSalida, FinManejo, ManejarFinQuantum,
     ManejarIO, ManejarWait, ManejarSignal, SeguirEjecutando, FinIO, TomarDeExit,
     liberar_recurso, eliminar_pcb, Tipos, TiposDeHilos, Lineas, Parada, Hilos, Puntos,
     PuntosConsola, colas, grados, recursos, hiloCorto, hiloConsola
<1>13. QED
  BY <1>1, <1>2, <1>3, <1>4, <1>5, <1>6, <1>7, <1>8, <1>9, <1>10, <1>11, <1>12 DEF Next,
     PasoConsola, PasoLargo, PasoCorto, PasoInterfaz, PasoExit

(* The nested calls. *)
LEMMA MarcosPaso ==
  ASSUME Tipos, Lineas, Marcos, [Next]_vars
  PROVE  Marcos'
<1>1. CASE EsperarReady
  BY <1>1, PlanificacionAssumption DEF EsperarReady, En, Ir, Tipos, TiposDeHilos,
     TiposDeContadores, Lineas, Marcos, Hilos, EnCurso, PuntosCorto, Transiciones, colas,
     grados, recursos, hiloCorto, hiloConsola
<1>2. CASE Despachar
  BY <1>2, PlanificacionAssumption DEF Despachar, En, Ir, Tipos, TiposDeHilos,
     TiposDeContadores, Lineas, Marcos, Hilos, EnCurso, PuntosCorto, Transiciones, colas,
     grados, recursos, hiloCorto, hiloConsola
<1>3. ASSUME NEW m \in Motivos, Desalojo(m)
      PROVE  Marcos'
  BY <1>3, PlanificacionAssumption DEF Desalojo, En, Ir, Tipos, TiposDeHilos,
     TiposDeContadores, Lineas, Marcos, Hilos, EnCurso, PuntosCorto, Transiciones, colas,
     grados, recursos, hiloCorto, hiloConsola
<1>4. CASE EsperarExecTo
  BY <1>4, PlanificacionAssumption DEF EsperarExecTo, En, Ir, Tipos, TiposDeHilos,
     TiposDeContadores, Lineas, Marcos, Hilos, EnCurso, PuntosCorto, Transiciones, colas,
     grados, recursos, hiloCorto, hiloConsola
<1>5. CASE ConsultarPendiente
  BY <1>5, PlanificacionAssumption DEF ConsultarPendiente, En, Ir, Tipos, TiposDeHilos,
     TiposDeContadores, Lineas, Marcos, Hilos, EnCurso, PuntosCorto, Transiciones, colas,
     grados, recursos, hiloCorto, hiloConsola
<1>6. CASE TomarDeExec
  BY <1>6, PlanificacionAssumption DEF TomarDeExec, En, Ir, Tipos, TiposDeHilos,
     TiposDeContadores, Lineas, Marcos, Hilos, EnCurso, PuntosCorto, Transiciones, colas,
     grados, recursos, hiloCorto, hiloConsola
<1>7. CASE ManejarSalida
  BY <1>7, PlanificacionAssumption DEF ManejarSalida, FinManejo, En, Ir, Tipos,
     TiposDeHilos, TiposDeContadores, Lineas, Marcos, Hilos, EnCurso, PuntosCorto,
     Transiciones, colas, grados, recursos, hiloCorto, hiloConsola
<1>8. CASE ManejarFinQuantum
  BY <1>8, PlanificacionAssumption DEF ManejarFinQuantum, FinManejo, En, Ir, Tipos,
     TiposDeHilos, TiposDeContadores, Lineas, Marcos, Hilos, EnCurso, PuntosCorto,
     Transiciones, colas, grados, recursos, hiloCorto, hiloConsola
<1>9. CASE ManejarIO
  BY <1>9, PlanificacionAssumption DEF ManejarIO, FinManejo, En, Ir, Tipos, TiposDeHilos,
     TiposDeContadores, Lineas, Marcos, Hilos, EnCurso, PuntosCorto, Transiciones, colas,
     grados, recursos, hiloCorto, hiloConsola
<1>10. CASE ManejarWait
  BY <1>10, PlanificacionAssumption DEF ManejarWait, FinManejo, En, Ir, Tipos, TiposDeHilos,
     TiposDeContadores, Lineas, Marcos, Hilos, EnCurso, PuntosCorto, Transiciones, colas,
     grados, recursos, hiloCorto, hiloConsola
<1>11. CASE ManejarSignal
  BY <1>11, PlanificacionAssumption DEF ManejarSignal, En, Ir, Tipos, TiposDeHilos,
     TiposDeContadores, Lineas, Marcos, Hilos, EnCurso, PuntosCorto, Transiciones, colas,
     grados, recursos, hiloCorto, hiloConsola
<1>12. CASE SeguirEjecutando
  BY <1>12, PlanificacionAssumption DEF SeguirEjecutando, En, Ir, Tipos, TiposDeHilos,
     TiposDeContadores, Lineas, Marcos, Hilos, EnCurso, PuntosCorto, Transiciones, colas,
     grados, recursos, hiloCorto, hiloConsola
<1>13. CASE iniciar_planificacion \/ DETENER_PLANIFICACION \/ FinDetener \/ ReducirGrado \/
           MirarCola \/ DesencolarPorPid \/ AgregarAFinalizar \/ Reanudar \/ EsperarControl
           \/ EsperarGrado \/ EsperarNew \/ TomarDeNew \/ RespuestaMemoria \/ TomarDeExit \/
           liberar_recurso \/ eliminar_pcb \/ (\E p \in Pids : iniciar_proceso(p) \/
           FINALIZAR_PROCESO(p) \/ FinIO(p)) \/ (\E t \in Transiciones : TomarTransicion(t))
           \/ (\E n \in Grados : cambiar_grado_multiprogramacion_a(n)) \/ UNCHANGED vars
  BY <1>13, PlanificacionAssumption, SMTT(30) DEF vars, iniciar_proceso, En,
     iniciar_planificacion,
     DETENER_PLANIFICACION, detener_planificacion, Ir, FINALIZAR_PROCESO, TomarTransicion,
     FinDetener, cambiar_grado_multiprogramacion_a, ReducirGrado, MirarCola, SeguirRastreo,
     DesencolarPorPid, AgregarAFinalizar, Reanudar, EsperarControl, EsperarGrado,
     EsperarNew, TomarDeNew, RespuestaMemoria, FinIO, TomarDeExit, liberar_recurso,
     eliminar_pcb, Tipos, TiposDeHilos, TiposDeContadores, Lineas, Marcos, Hilos, EnCurso,
     PuntosCorto, Transiciones, colas, grados, recursos, hiloCorto, hiloConsola
<1>14. QED
  BY <1>1, <1>2, <1>3, <1>4, <1>5, <1>6, <1>7, <1>8, <1>9, <1>10, <1>11, <1>12, <1>13 DEF
     Next, PasoConsola, PasoLargo, PasoCorto, PasoInterfaz, PasoExit

(* Who has each semaphore. *)
LEMMA BinariosPaso ==
  ASSUME Tipos, Lineas, Parada, Binarios, [Next]_vars
  PROVE  Binarios'
<1>1. CASE iniciar_planificacion
  BY <1>1 DEF iniciar_planificacion, En, postear_todas, Tipos, TiposDeHilos,
     TiposDeContadores, Lineas, Parada, Binarios, Unidades, Tomado, Retenido, ExecTo, Hilos,
     Transiciones, colas, grados, recursos, hiloCorto, hiloConsola
<1>2. CASE DETENER_PLANIFICACION
  BY <1>2 DEF DETENER_PLANIFICACION, detener_planificacion, En, Ir, Tipos, TiposDeHilos,
     TiposDeContadores, Lineas, Parada, Binarios, Unidades, Tomado, Retenido, ExecTo, Hilos,
     Transiciones, colas, grados, recursos, hiloCorto, hiloConsola
<1>3. ASSUME NEW p \in Pids, FINALIZAR_PROCESO(p)
      PROVE  Binarios'
  BY <1>3 DEF FINALIZAR_PROCESO, detener_planificacion, En, Ir, Tipos, TiposDeHilos,
     TiposDeContadores, Lineas, Parada, Binarios, Unidades, Tomado, Retenido, ExecTo, Hilos,
     Transiciones, colas, grados, recursos, hiloCorto, hiloConsola
<1>4. ASSUME NEW t \in Transiciones, TomarTransicion(t)
      PROVE  Binarios'
  BY <1>4 DEF TomarTransicion, En, Tipos, TiposDeHilos, TiposDeContadores, Lineas, Parada,
     Binarios, Unidades, Tomado, Retenido, ExecTo, Hilos, Transiciones, colas, grados,
     recursos, hiloCorto, hiloConsola
<1>5. CASE FinDetener
  BY <1>5 DEF FinDetener, En, Ir, Tipos, TiposDeHilos, TiposDeContadores, Lineas, Parada,
     Binarios, Unidades, Tomado, Retenido, ExecTo, Hilos, Transiciones, colas, grados,
     recursos, hiloCorto, hiloConsola
<1>6. CASE Reanudar
  BY <1>6 DEF Reanudar, postear_todas, En, Ir, Tipos, TiposDeHilos, TiposDeContadores,
     Lineas, Parada, Binarios, Unidades, Tomado, Retenido, ExecTo, Hilos, Transiciones,
     colas, grados, recursos, hiloCorto, hiloConsola
<1>7. CASE TomarDeNew
  BY <1>7 DEF TomarDeNew, En, Ir, Tipos, TiposDeHilos, TiposDeContadores, Lineas, Parada,
     Binarios, Unidades, Tomado, Retenido, ExecTo, Hilos, Transiciones, colas, grados,
     recursos, hiloCorto, hiloConsola
<1>8. CASE RespuestaMemoria
  BY <1>8 DEF RespuestaMemoria, En, Ir, Tipos, TiposDeHilos, TiposDeContadores, Lineas,
     Parada, Binarios, Unidades, Tomado, Retenido, ExecTo, Hilos, Transiciones, colas,
     grados, recursos, hiloCorto, hiloConsola
<1>9. CASE EsperarExecTo
  BY <1>9 DEF EsperarExecTo, En, Ir, Tipos, TiposDeHilos, TiposDeContadores, Lineas, Parada,
     Binarios, Unidades, Tomado, Retenido, ExecTo, Hilos, Transiciones, colas, grados,
     recursos, hiloCorto, hiloConsola
<1>10. CASE ManejarSalida
  BY <1>10 DEF ManejarSalida, FinManejo, En, Ir, Tipos, TiposDeHilos, TiposDeContadores,
     Lineas, Parada, Binarios, Unidades, Tomado, Retenido, ExecTo, Hilos, Transiciones,
     colas, grados, recursos, hiloCorto, hiloConsola
<1>11. CASE ManejarFinQuantum
  BY <1>11 DEF ManejarFinQuantum, FinManejo, En, Ir, Tipos, TiposDeHilos, TiposDeContadores,
     Lineas, Parada, Binarios, Unidades, Tomado, Retenido, ExecTo, Hilos, Transiciones,
     colas, grados, recursos, hiloCorto, hiloConsola
<1>12. CASE ManejarIO
  BY <1>12 DEF ManejarIO, FinManejo, En, Ir, Tipos, TiposDeHilos, TiposDeContadores, Lineas,
     Parada, Binarios, Unidades, Tomado, Retenido, ExecTo, Hilos, Transiciones, colas,
     grados, recursos, hiloCorto, hiloConsola
<1>13. CASE ManejarWait
  BY <1>13 DEF ManejarWait, FinManejo, En, Ir, Tipos, TiposDeHilos, TiposDeContadores,
     Lineas, Parada, Binarios, Unidades, Tomado, Retenido, ExecTo, Hilos, Transiciones,
     colas, grados, recursos, hiloCorto, hiloConsola
<1>14. CASE SeguirEjecutando
  BY <1>14 DEF SeguirEjecutando, En, Ir, Tipos, TiposDeHilos, TiposDeContadores, Lineas,
     Parada, Binarios, Unidades, Tomado, Retenido, ExecTo, Hilos, Transiciones, colas,
     grados, recursos, hiloCorto, hiloConsola
<1>15. CASE ReducirGrado \/ MirarCola \/ DesencolarPorPid \/ AgregarAFinalizar \/
           EsperarControl \/ EsperarGrado \/ EsperarNew \/ EsperarReady \/ Despachar \/
           ConsultarPendiente \/ TomarDeExec \/ ManejarSignal \/ TomarDeExit \/
           liberar_recurso \/ eliminar_pcb \/ (\E p \in Pids : iniciar_proceso(p) \/
           FinIO(p)) \/ (\E n \in Grados : cambiar_grado_multiprogramacion_a(n)) \/ (\E m
           \in Motivos : Desalojo(m)) \/ UNCHANGED vars
  BY <1>15, SMTT(30) DEF vars, iniciar_proceso, En, cambiar_grado_multiprogramacion_a, Ir,
     ReducirGrado, MirarCola, SeguirRastreo, DesencolarPorPid, AgregarAFinalizar,
     EsperarControl, EsperarGrado, EsperarNew, EsperarReady, Despachar, Desalojo,
     ConsultarPendiente, TomarDeExec, ManejarSignal, FinIO, TomarDeExit, liberar_recurso,
     eliminar_pcb, Tipos, TiposDeHilos, TiposDeContadores, Lineas, Parada, Binarios,
     Unidades, Tomado, Retenido, ExecTo, Hilos, Transiciones, colas, grados, recursos,
     hiloCorto, hiloConsola
<1>16. QED
  BY <1>1, <1>2, <1>3, <1>4, <1>5, <1>6, <1>7, <1>8, <1>9, <1>10, <1>11, <1>12, <1>13,
     <1>14, <1>15 DEF Next, PasoConsola, PasoLargo, PasoCorto, PasoInterfaz, PasoExit

(* An excess of posts never goes away. *)
LEMMA SinExcesoPaso ==
  ASSUME Tipos, Lineas, Parada, Marcos, SinExceso', [Next]_vars
  PROVE  SinExceso
<1>1. CASE iniciar_planificacion
  BY <1>1 DEF iniciar_planificacion, En, postear_todas, Tipos, TiposDeHilos,
     TiposDeContadores, Lineas, Parada, Marcos, SinExceso, Unidades, Tomado, Retenido,
     ExecTo, ConExecTo, Hilos, Transiciones, colas, grados, recursos, hiloCorto, hiloConsola
<1>2. CASE DETENER_PLANIFICACION
  BY <1>2 DEF DETENER_PLANIFICACION, detener_planificacion, En, Ir, Tipos, TiposDeHilos,
     TiposDeContadores, Lineas, Parada, Marcos, SinExceso, Unidades, Tomado, Retenido,
     ExecTo, ConExecTo, Hilos, Transiciones, colas, grados, recursos, hiloCorto, hiloConsola
<1>3. ASSUME NEW p \in Pids, FINALIZAR_PROCESO(p)
      PROVE  SinExceso
  BY <1>3 DEF FINALIZAR_PROCESO, detener_planificacion, En, Ir, Tipos, TiposDeHilos,
     TiposDeContadores, Lineas, Parada, Marcos, SinExceso, Unidades, Tomado, Retenido,
     ExecTo, ConExecTo, Hilos, Transiciones, colas, grados, recursos, hiloCorto, hiloConsola
<1>4. ASSUME NEW t \in Transiciones, TomarTransicion(t)
      PROVE  SinExceso
  BY <1>4 DEF TomarTransicion, En, Tipos, TiposDeHilos, TiposDeContadores, Lineas, Parada,
     Marcos, SinExceso, Unidades, Tomado, Retenido, ExecTo, ConExecTo, Hilos, Transiciones,
     colas, grados, recursos, hiloCorto, hiloConsola
<1>5. CASE FinDetener
  BY <1>5 DEF FinDetener, En, Ir, Tipos, TiposDeHilos, TiposDeContadores, Lineas, Parada,
     Marcos, SinExceso, Unidades, Tomado, Retenido, ExecTo, ConExecTo, Hilos, Transiciones,
     colas, grados, recursos, hiloCorto, hiloConsola
<1>6. ASSUME NEW n \in Grados, cambiar_grado_multiprogramacion_a(n)
      PROVE  SinExceso
  BY <1>6 DEF cambiar_grado_multiprogramacion_a, En, Ir, Tipos, TiposDeHilos,
     TiposDeContadores, Lineas, Parada, Marcos, SinExceso, Unidades, Tomado, Retenido,
     ExecTo, ConExecTo, Hilos, Transiciones, colas, grados, recursos, hiloCorto, hiloConsola
<1>7. CASE ReducirGrado
  BY <1>7 DEF ReducirGrado, En, Ir, Tipos, TiposDeHilos, TiposDeContadores, Lineas, Parada,
     Marcos, SinExceso, Unidades, Tomado, Retenido, ExecTo, ConExecTo, Hilos, Transiciones,
     colas, grados, recursos, hiloCorto, hiloConsola
<1>8. CASE MirarCola
  BY <1>8 DEF MirarCola, SeguirRastreo, En, Ir, Tipos, TiposDeHilos, TiposDeContadores,
     Lineas, Parada, Marcos, SinExceso, Unidades, Tomado, Retenido, ExecTo, ConExecTo,
     Hilos, Transiciones, colas, grados, recursos, hiloCorto, hiloConsola
<1>9. CASE DesencolarPorPid
  BY <1>9 DEF DesencolarPorPid, SeguirRastreo, En, Ir, Tipos, TiposDeHilos,
     TiposDeContadores, Lineas, Parada, Marcos, SinExceso, Unidades, Tomado, Retenido,
     ExecTo, ConExecTo, Hilos, Transiciones, colas, grados, recursos, hiloCorto, hiloConsola
<1>10. CASE AgregarAFinalizar
  BY <1>10 DEF AgregarAFinalizar, En, Ir, Tipos, TiposDeHilos, TiposDeContadores, Lineas,
     Parada, Marcos, SinExceso, Unidades, Tomado, Retenido, ExecTo, ConExecTo, Hilos,
     Transiciones, colas, grados, recursos, hiloCorto, hiloConsola
<1>11. CASE Reanudar
  BY <1>11 DEF Reanudar, postear_todas, En, Ir, Tipos, TiposDeHilos, TiposDeContadores,
     Lineas, Parada, Marcos, SinExceso, Unidades, Tomado, Retenido, ExecTo, ConExecTo,
     Hilos, Transiciones, colas, grados, recursos, hiloCorto, hiloConsola
<1>12. CASE RespuestaMemoria
  BY <1>12 DEF RespuestaMemoria, En, Ir, Tipos, TiposDeHilos, TiposDeContadores, Lineas,
     Parada, Marcos, SinExceso, Unidades, Tomado, Retenido, ExecTo, ConExecTo, Hilos,
     Transiciones, colas, grados, recursos, hiloCorto, hiloConsola
<1>13. CASE EsperarReady
  BY <1>13 DEF EsperarReady, En, Ir, Tipos, TiposDeHilos, TiposDeContadores, Lineas, Parada,
     Marcos, SinExceso, Unidades, Tomado, Retenido, ExecTo, ConExecTo, Hilos, Transiciones,
     colas, grados, recursos, hiloCorto, hiloConsola
<1>14. CASE Despachar
  BY <1>14 DEF Despachar, En, Ir, Tipos, TiposDeHilos, TiposDeContadores, Lineas, Parada,
     Marcos, SinExceso, Unidades, Tomado, Retenido, ExecTo, ConExecTo, Hilos, Transiciones,
     colas, grados, recursos, hiloCorto, hiloConsola
<1>15. ASSUME NEW m \in Motivos, Desalojo(m)
      PROVE  SinExceso
  BY <1>15 DEF Desalojo, En, Ir, Tipos, TiposDeHilos, TiposDeContadores, Lineas, Parada,
     Marcos, SinExceso, Unidades, Tomado, Retenido, ExecTo, ConExecTo, Hilos, Transiciones,
     colas, grados, recursos, hiloCorto, hiloConsola
<1>16. CASE EsperarExecTo
  BY <1>16 DEF EsperarExecTo, En, Ir, Tipos, TiposDeHilos, TiposDeContadores, Lineas,
     Parada, Marcos, SinExceso, Unidades, Tomado, Retenido, ExecTo, ConExecTo, Hilos,
     Transiciones, colas, grados, recursos, hiloCorto, hiloConsola
<1>17. CASE ConsultarPendiente
  BY <1>17 DEF ConsultarPendiente, En, Ir, Tipos, TiposDeHilos, TiposDeContadores, Lineas,
     Parada, Marcos, SinExceso, Unidades, Tomado, Retenido, ExecTo, ConExecTo, Hilos,
     Transiciones, colas, grados, recursos, hiloCorto, hiloConsola
<1>18. CASE TomarDeExec
  BY <1>18 DEF TomarDeExec, En, Ir, Tipos, TiposDeHilos, TiposDeContadores, Lineas, Parada,
     Marcos, SinExceso, Unidades, Tomado, Retenido, ExecTo, ConExecTo, Hilos, Transiciones,
     colas, grados, recursos, hiloCorto, hiloConsola
<1>19. CASE ManejarSalida
  BY <1>19 DEF ManejarSalida, FinManejo, En, Ir, Tipos, TiposDeHilos, TiposDeContadores,
     Lineas, Parada, Marcos, SinExceso, Unidades, Tomado, Retenido, ExecTo, ConExecTo,
     Hilos, Transiciones, colas, grados, recursos, hiloCorto, hiloConsola
<1>20. CASE ManejarFinQuantum
  BY <1>20 DEF ManejarFinQuantum, FinManejo, En, Ir, Tipos, TiposDeHilos, TiposDeContadores,
     Lineas, Parada, Marcos, SinExceso, Unidades, Tomado, Retenido, ExecTo, ConExecTo,
     Hilos, Transiciones, colas, grados, recursos, hiloCorto, hiloConsola
<1>21. CASE ManejarIO
  BY <1>21 DEF ManejarIO, FinManejo, En, Ir, Tipos, TiposDeHilos, TiposDeContadores, Lineas,
     Parada, Marcos, SinExceso, Unidades, Tomado, Retenido, ExecTo, ConExecTo, Hilos,
     Transiciones, colas, grados, recursos, hiloCorto, hiloConsola
<1>22. CASE ManejarWait
  BY <1>22 DEF ManejarWait, FinManejo, En, Ir, Tipos, TiposDeHilos, TiposDeContadores,
     Lineas, Parada, Marcos, SinExceso, Unidades, Tomado, Retenido, ExecTo, ConExecTo,
     Hilos, Transiciones, colas, grados, recursos, hiloCorto, hiloConsola
<1>23. CASE ManejarSignal
  BY <1>23 DEF ManejarSignal, En, Ir, Tipos, TiposDeHilos, TiposDeContadores, Lineas,
     Parada, Marcos, SinExceso, Unidades, Tomado, Retenido, ExecTo, ConExecTo, Hilos,
     Transiciones, colas, grados, recursos, hiloCorto, hiloConsola
<1>24. CASE SeguirEjecutando
  BY <1>24 DEF SeguirEjecutando, En, Ir, Tipos, TiposDeHilos, TiposDeContadores, Lineas,
     Parada, Marcos, SinExceso, Unidades, Tomado, Retenido, ExecTo, ConExecTo, Hilos,
     Transiciones, colas, grados, recursos, hiloCorto, hiloConsola
<1>25. CASE EsperarControl \/ EsperarGrado \/ EsperarNew \/ TomarDeNew \/ TomarDeExit \/
           liberar_recurso \/ eliminar_pcb \/ (\E p \in Pids : iniciar_proceso(p) \/
           FinIO(p)) \/ UNCHANGED vars
  BY <1>25 DEF vars, iniciar_proceso, En, EsperarControl, Ir, EsperarGrado, EsperarNew,
     TomarDeNew, FinIO, TomarDeExit, liberar_recurso, eliminar_pcb, Tipos, TiposDeHilos,
     TiposDeContadores, Lineas, Parada, Marcos, SinExceso, Unidades, Tomado, Retenido,
     ExecTo, ConExecTo, Hilos, Transiciones, colas, grados, recursos, hiloCorto, hiloConsola
<1>26. QED
  BY <1>1, <1>2, <1>3, <1>4, <1>5, <1>6, <1>7, <1>8, <1>9, <1>10, <1>11, <1>12, <1>13,
     <1>14, <1>15, <1>16, <1>17, <1>18, <1>19, <1>20, <1>21, <1>22, <1>23, <1>24, <1>25 DEF
     Next, PasoConsola, PasoLargo, PasoCorto, PasoInterfaz, PasoExit

(* Nobody is added to NEW, nor gets a unit. *)
LEMMA SinUnidadIgual ==
  ASSUME SinUnidad, cola'["NEW"] = cola["NEW"], admitidos' \subseteq admitidos,
         \A p : estado[p] # "SIN_CREAR" => estado'[p] # "SIN_CREAR"
  PROVE  SinUnidad'
  BY DEF SinUnidad

(* A process goes to a list other than NEW. *)
LEMMA SinUnidadTrasProcesoA ==
  ASSUME Tipos, SinUnidad, NEW p \in Pids, NEW c \in Colas \ {"NEW"}, proceso_a(p, c),
         UNCHANGED admitidos
  PROVE  SinUnidad'
<1>1. cola'["NEW"] = cola["NEW"] /\ estado' = [estado EXCEPT ![p] = c]
  BY TrasProcesoA DEF Tipos, Colas
<1>2. \A q : estado[q] # "SIN_CREAR" => estado'[q] # "SIN_CREAR"
  BY <1>1 DEF Tipos, TiposDeListas, Colas
<1>3. QED
  BY <1>1, <1>2, SinUnidadIgual

(* A move between lists that are not NEW leaves NEW without units.        *)
LEMMA SinUnidadTrasMover ==
  ASSUME Tipos, SinUnidad, NEW p \in Pids, NEW de \in Colas \ {"NEW"},
         NEW c \in Colas \ {"NEW", de}, NEW token \in {0, 1}, mover(p, de, c, token),
         UNCHANGED admitidos
  PROVE  SinUnidad'
<1>1. cola'["NEW"] = cola["NEW"] /\ estado' = [estado EXCEPT ![p] = c]
  BY MoverTipo DEF Tipos, Colas
<1>2. \A q : estado[q] # "SIN_CREAR" => estado'[q] # "SIN_CREAR"
  BY <1>1 DEF Tipos, TiposDeListas, Colas
<1>3. QED
  BY <1>1, <1>2, SinUnidadIgual

(* Who has a unit of the degree. *)
LEMMA SinUnidadPaso ==
  ASSUME Tipos, Lineas, SinUnidad, [Next]_vars
  PROVE  SinUnidad'
<1>1. ASSUME NEW p \in Pids, iniciar_proceso(p)
      PROVE  SinUnidad'
  <2>1. /\ estado' = [estado EXCEPT ![p] = "NEW"]
        /\ ToSet(cola'["NEW"]) = ToSet(cola["NEW"]) \cup {p}
        /\ p \notin ToSet(cola["NEW"]) /\ Distintos(cola["NEW"]) => Distintos(cola'["NEW"])
        /\ estado[p] = "SIN_CREAR" /\ admitidos' = admitidos
    BY <1>1, TrasProcesoA DEF iniciar_proceso, Colas, Tipos, grados
  <2>2. ToSet(cola["NEW"]) \subseteq Pids /\ admitidos \subseteq Pids
    BY ElementosDe DEF Tipos, TiposDeListas, TiposDeConjuntos, Colas
  <2>3. QED
    BY <2>1, <2>2 DEF SinUnidad, Tipos, TiposDeListas
<1>2. CASE DesencolarPorPid
  <2>1. UNCHANGED <<estado, admitidos>>
    BY <1>2 DEF DesencolarPorPid, grados
  <2>2. CASE cola'["NEW"] = cola["NEW"]
    BY <2>1, <2>2, SinUnidadIgual
  <2>3. CASE cola'["NEW"] # cola["NEW"]
    <3>1. cola'["NEW"] = Sin(cola["NEW"], pcb["consola"])
      BY <1>2, <2>3 DEF DesencolarPorPid, Tipos, TiposDeListas, Colas, Rastreo
    <3>2. cola["NEW"] \in Seq(Pids)
      BY DEF Tipos, TiposDeListas, Colas
    <3>3. /\ ToSet(cola'["NEW"]) \subseteq ToSet(cola["NEW"])
          /\ Distintos(cola["NEW"]) => Distintos(cola'["NEW"])
      BY <3>1, <3>2, SinUno
    <3>4. QED
      BY <2>1, <3>3 DEF SinUnidad
  <2>4. QED
    BY <2>2, <2>3
<1>3. CASE AgregarAFinalizar
  <2>1. pcb["consola"] \in Pids /\ UNCHANGED admitidos
    BY <1>3 DEF AgregarAFinalizar, En, Lineas, grados
  <2>2. CASE UNCHANGED colas
    BY <2>1, <2>2, SinUnidadIgual DEF colas
  <2>3. CASE proceso_a(pcb["consola"], "EXIT")
    BY <2>1, <2>3, SinUnidadTrasProcesoA DEF Colas
  <2>4. QED
    BY <1>3, <2>2, <2>3 DEF AgregarAFinalizar
<1>4. CASE TomarDeNew
  <2> DEFINE h == Head(cola["NEW"])
  <2>1. /\ cola'["NEW"] = Tail(cola["NEW"]) /\ cola["NEW"] # <<>> /\ cola["NEW"] \in Seq(Pids)
        /\ estado' = estado /\ admitidos' = admitidos \cup {h}
    BY <1>4 DEF TomarDeNew, Tipos, TiposDeListas, Colas
  <2>2. /\ h \in ToSet(cola["NEW"])
        /\ ToSet(cola["NEW"]) = ToSet(cola'["NEW"]) \cup {h}
        /\ Distintos(cola["NEW"]) => Distintos(cola'["NEW"]) /\ h \notin ToSet(cola'["NEW"])
    BY <2>1, ElementosSinElPrimero
  <2> HIDE DEF h
  <2>3. QED
    BY <2>1, <2>2 DEF SinUnidad
<1>5. CASE RespuestaMemoria
  <2>1. PICK c \in {"READY", "EXIT"} : proceso_a(pcb["largo"], c)
    BY <1>5 DEF RespuestaMemoria
  <2>2. pcb["largo"] \in Pids /\ UNCHANGED admitidos
    BY <1>5 DEF RespuestaMemoria, En, Lineas, grados
  <2>3. QED
    BY <2>1, <2>2, SinUnidadTrasProcesoA DEF Colas
<1>6. CASE Despachar
  <2>1. Head(cola["READY"]) \in Pids /\ UNCHANGED admitidos
    BY <1>6, HeadTailProperties DEF Despachar, Tipos, TiposDeListas, Colas, grados
  <2>2. QED
    BY <1>6, <2>1, SinUnidadTrasMover DEF Despachar, Colas
<1>7. CASE TomarDeExec
  BY <1>7, SinUnidadIgual DEF TomarDeExec, grados, Tipos, TiposDeListas, Colas
<1>8. CASE ManejarSalida
  <2>1. pcb["corto"] \in Pids /\ proceso_a(pcb["corto"], "EXIT") /\ UNCHANGED admitidos
    BY <1>8 DEF ManejarSalida, En, Lineas, EnCurso, grados
  <2>2. QED
    BY <2>1, SinUnidadTrasProcesoA DEF Colas
<1>9. CASE ManejarFinQuantum
  <2>1. pcb["corto"] \in Pids /\ proceso_a(pcb["corto"], "READY") /\ UNCHANGED admitidos
    BY <1>9 DEF ManejarFinQuantum, En, Lineas, EnCurso, grados
  <2>2. QED
    BY <2>1, SinUnidadTrasProcesoA DEF Colas
<1>10. CASE ManejarIO
  <2>1. pcb["corto"] \in Pids /\ proceso_a(pcb["corto"], "BLOCKED") /\ UNCHANGED admitidos
    BY <1>10 DEF ManejarIO, En, Lineas, EnCurso, grados
  <2>2. QED
    BY <2>1, SinUnidadTrasProcesoA DEF Colas
<1>11. CASE ManejarWait
  <2>1. pcb["corto"] \in Pids /\ UNCHANGED admitidos
    BY <1>11 DEF ManejarWait, En, Lineas, EnCurso, grados
  <2>2. CASE UNCHANGED colas
    BY <2>1, <2>2, SinUnidadIgual DEF colas
  <2>3. CASE proceso_a(pcb["corto"], "BLOCKED")
    BY <2>1, <2>3, SinUnidadTrasProcesoA DEF Colas
  <2>4. QED
    BY <1>11, <2>2, <2>3 DEF ManejarWait
<1>12. CASE ManejarSignal
  <2>1. UNCHANGED admitidos
    BY <1>12 DEF ManejarSignal, grados
  <2>2. CASE UNCHANGED colas
    BY <2>1, <2>2, SinUnidadIgual DEF colas
  <2>3. CASE \E w \in porRecurso : mover(w, "BLOCKED", "READY", 1)
    BY <2>1, <2>3, SinUnidadTrasMover DEF Colas, Tipos, TiposDeConjuntos
  <2>4. QED
    BY <1>12, <2>2, <2>3 DEF ManejarSignal, desbloquear_si_corresponde
<1>13. CASE SeguirEjecutando
  <2>1. pcb["corto"] \in Pids /\ proceso_a(pcb["corto"], "EXEC") /\ UNCHANGED admitidos
    BY <1>13 DEF SeguirEjecutando, En, Lineas, EnCurso, grados
  <2>2. QED
    BY <2>1, SinUnidadTrasProcesoA DEF Colas
<1>14. ASSUME NEW p \in Pids, FinIO(p)
      PROVE  SinUnidad'
  BY <1>14, SinUnidadTrasMover DEF FinIO, Colas, grados
<1>15. CASE TomarDeExit
  BY <1>15, SinUnidadIgual DEF TomarDeExit, grados, Tipos, TiposDeListas, Colas
<1>16. CASE liberar_recurso
  <2>1. UNCHANGED admitidos
    BY <1>16 DEF liberar_recurso, grados
  <2>2. CASE UNCHANGED colas
    BY <2>1, <2>2, SinUnidadIgual DEF colas
  <2>3. CASE \E w \in porRecurso : mover(w, "BLOCKED", "READY", 1)
    BY <2>1, <2>3, SinUnidadTrasMover DEF Colas, Tipos, TiposDeConjuntos
  <2>4. QED
    BY <1>16, <2>2, <2>3 DEF liberar_recurso, desbloquear_si_corresponde
<1>17. CASE eliminar_pcb
  <2>1. /\ cola' = cola /\ admitidos' \subseteq admitidos
        /\ estado' = [estado EXCEPT ![pcb["exit"]] = "LIBERADO"]
    BY <1>17 DEF eliminar_pcb
  <2>2. \A q : estado[q] # "SIN_CREAR" => estado'[q] # "SIN_CREAR"
    BY <2>1 DEF Tipos, TiposDeListas
  <2>3. QED
    BY <2>1, <2>2, SinUnidadIgual
<1>18. CASE iniciar_planificacion \/ DETENER_PLANIFICACION \/ FinDetener \/ ReducirGrado \/
           MirarCola \/ Reanudar \/ EsperarControl \/ EsperarGrado \/ EsperarNew \/
           EsperarReady \/ EsperarExecTo \/ ConsultarPendiente \/ (\E p \in Pids :
           FINALIZAR_PROCESO(p)) \/ (\E t \in Transiciones : TomarTransicion(t)) \/ (\E n
           \in Grados : cambiar_grado_multiprogramacion_a(n)) \/ (\E m \in Motivos :
           Desalojo(m)) \/ UNCHANGED vars
  BY <1>18 DEF vars, iniciar_planificacion, En, postear_todas, DETENER_PLANIFICACION,
     detener_planificacion, Ir, FINALIZAR_PROCESO, TomarTransicion, FinDetener,
     cambiar_grado_multiprogramacion_a, ReducirGrado, MirarCola, SeguirRastreo, Reanudar,
     EsperarControl, EsperarGrado, EsperarNew, EsperarReady, Desalojo, EsperarExecTo,
     ConsultarPendiente, SinUnidad, colas, grados, recursos, hiloCorto, hiloConsola
<1>19. QED
  BY <1>1, <1>2, <1>3, <1>4, <1>5, <1>6, <1>7, <1>8, <1>9, <1>10, <1>11, <1>12, <1>13,
     <1>14, <1>15, <1>16, <1>17, <1>18 DEF Next, PasoConsola, PasoLargo, PasoCorto,
     PasoInterfaz, PasoExit

(* The units of the degree. *)
LEMMA CuposPaso ==
  ASSUME Tipos, Lineas, SinUnidad, CuposConservados, [Next]_vars
  PROVE  CuposConservados'
<1>0. Cardinality(admitidos) \in Nat /\ IsFiniteSet(admitidos)
  BY PlanificacionAssumption, FS_Subset, FS_CardinalityType DEF Tipos, TiposDeConjuntos
<1>1. ASSUME NEW n \in Grados, cambiar_grado_multiprogramacion_a(n)
      PROVE  CuposConservados'
  <2>1. n \in Nat
    BY PlanificacionAssumption
  <2>2. /\ cuantos = 0 /\ linea'["largo"] = linea["largo"] /\ UNCHANGED <<admitidos, deMas>>
        /\ grado' = n
        /\ \/ semGrado' = semGrado + (n - grado) /\ cuantos' = cuantos
           \/ cuantos' = grado - n /\ semGrado' = semGrado
    BY <1>1, <2>1 DEF cambiar_grado_multiprogramacion_a, En, Ir, Tipos, TiposDeHilos,
       TiposDeContadores,
       Hilos, Lineas
  <2>3. QED
    BY <1>0, <2>1, <2>2 DEF CuposConservados, Tipos, TiposDeContadores
<1>2. CASE ReducirGrado
  BY <1>2, <1>0 DEF ReducirGrado, En, Ir, CuposConservados, Tipos, TiposDeContadores,
     TiposDeHilos, Lineas, Hilos, colas, grados, recursos, hiloCorto, hiloConsola
<1>3. CASE EsperarControl
  BY <1>3, <1>0 DEF EsperarControl, En, Ir, CuposConservados, Tipos, TiposDeContadores,
     TiposDeHilos, Lineas, Hilos, colas, grados, recursos, hiloCorto, hiloConsola
<1>4. CASE EsperarGrado
  BY <1>4, <1>0 DEF EsperarGrado, En, Ir, CuposConservados, Tipos, TiposDeContadores,
     TiposDeHilos, Lineas, Hilos, colas, grados, recursos, hiloCorto, hiloConsola
<1>5. CASE EsperarNew
  BY <1>5, <1>0 DEF EsperarNew, En, Ir, CuposConservados, Tipos, TiposDeContadores,
     TiposDeHilos, Lineas, Hilos, colas, grados, recursos, hiloCorto, hiloConsola
<1>6. CASE TomarDeNew
  <2> DEFINE h == Head(cola["NEW"])
  <2>1. h \in ToSet(cola["NEW"])
    BY <1>6, ElementosDe DEF TomarDeNew, Tipos, TiposDeListas, Colas
  <2>2. h \notin admitidos
    BY <2>1 DEF SinUnidad
  <2>3. admitidos' = admitidos \cup {h} /\ UNCHANGED <<semGrado, grado, cuantos, deMas>>
    BY <1>6 DEF TomarDeNew, hiloConsola
  <2>4. linea["largo"] = "new_to_ready" /\ linea'["largo"] = "memoria"
    BY <1>6 DEF TomarDeNew, En, Ir, Tipos, TiposDeHilos, Hilos
  <2>5. Cardinality(admitidos') = Cardinality(admitidos) + 1
    BY <1>0, <2>2, <2>3, FS_AddElement
  <2> HIDE DEF h
  <2>6. QED
    BY <1>0, <2>3, <2>4, <2>5 DEF CuposConservados, Tipos, TiposDeContadores
<1>7. CASE RespuestaMemoria
  BY <1>7, <1>0 DEF RespuestaMemoria, En, Ir, CuposConservados, Tipos, TiposDeContadores,
     TiposDeHilos, Lineas, Hilos, colas, grados, recursos, hiloCorto, hiloConsola
<1>8. CASE eliminar_pcb
  <2> DEFINE p == pcb["exit"]
  <2>1. /\ admitidos' = admitidos \ {p}
        /\ deMas' = IF p \in admitidos THEN deMas ELSE deMas + 1
        /\ semGrado' = semGrado + 1
        /\ UNCHANGED <<grado, cuantos>>
    BY <1>8 DEF eliminar_pcb, hiloConsola
  <2>2. linea'["largo"] = linea["largo"]
    BY <1>8 DEF eliminar_pcb, Ir, Tipos, TiposDeHilos, Hilos
  <2>3. Cardinality(admitidos') = IF p \in admitidos THEN Cardinality(admitidos) - 1
                                                    ELSE Cardinality(admitidos)
    BY <1>0, <2>1, FS_RemoveElement
  <2> HIDE DEF p
  <2>4. QED
    BY <1>0, <2>1, <2>2, <2>3 DEF CuposConservados, Tipos, TiposDeContadores
<1>9. CASE iniciar_planificacion \/ DETENER_PLANIFICACION \/ FinDetener \/ MirarCola \/
           DesencolarPorPid \/ AgregarAFinalizar \/ Reanudar \/ EsperarReady \/ Despachar \/
           EsperarExecTo \/ ConsultarPendiente \/ TomarDeExec \/ ManejarSalida \/
           ManejarFinQuantum \/ ManejarIO \/ ManejarWait \/ ManejarSignal \/
           SeguirEjecutando \/ TomarDeExit \/ liberar_recurso \/ (\E p \in Pids :
           iniciar_proceso(p) \/ FINALIZAR_PROCESO(p) \/ FinIO(p)) \/ (\E t \in Transiciones
           : TomarTransicion(t)) \/ (\E m \in Motivos : Desalojo(m)) \/ UNCHANGED vars
  BY <1>9, <1>0 DEF vars, iniciar_proceso, En, iniciar_planificacion, DETENER_PLANIFICACION,
     detener_planificacion, Ir, FINALIZAR_PROCESO, TomarTransicion, FinDetener, MirarCola,
     SeguirRastreo, DesencolarPorPid, AgregarAFinalizar, Reanudar, EsperarReady, Despachar,
     Desalojo, EsperarExecTo, ConsultarPendiente, TomarDeExec, ManejarSalida, FinManejo,
     ManejarFinQuantum, ManejarIO, ManejarWait, ManejarSignal, SeguirEjecutando, FinIO,
     TomarDeExit, liberar_recurso, CuposConservados, Tipos, TiposDeContadores, TiposDeHilos,
     Lineas, Hilos, colas, grados, recursos, hiloCorto, hiloConsola
<1>10. QED
  BY <1>1, <1>2, <1>3, <1>4, <1>5, <1>6, <1>7, <1>8, <1>9 DEF Next, PasoConsola, PasoLargo,
     PasoCorto, PasoInterfaz, PasoExit

-----------------------------------------------------------------------------
(* What a stop excludes, and what the steps do to the lists.               *)

(* While the planning is stopped, no transition is under way. *)
LEMMA ParadaExcluye ==
  ASSUME Tipos, Binarios, SinExceso, ~activa, pendientes = {}
  PROVE  /\ \A t \in Transiciones : plan[t] = 0
         /\ linea["largo"] # "memoria"
         /\ linea["corto"] \notin ConExecTo
<1>1. ~activa /\ pendientes = {}
  OBVIOUS
<1>2. \A t \in Transiciones : Tomado(t) = 1 /\ plan[t] \in Nat /\ Retenido(t) \in {0, 1}
  BY <1>1 DEF Tomado, Retenido, Tipos, TiposDeContadores
<1>3. \A t \in Transiciones : Unidades(t) <= 1
  BY DEF Binarios, SinExceso
<1>4. \A t \in Transiciones : plan[t] = 0 /\ Retenido(t) = 0
  BY <1>2, <1>3 DEF Unidades
<1>5. Retenido("new_to_ready") = 0 /\ Retenido(ExecTo) = 0
  BY <1>4 DEF Transiciones, ExecTo
<1>6. linea["largo"] # "memoria" /\ linea["corto"] \notin ConExecTo
  BY <1>5 DEF Retenido
<1>7. QED
  BY <1>4, <1>6

(* So it is while the console searches. *)
LEMMA Excluidos ==
  ASSUME Tipos, Lineas, Parada, Binarios, SinExceso,
         linea["consola"] \in {"mira", "espera", "agrega", "reanuda"}
  PROVE  /\ \A t \in Transiciones : plan[t] = 0
         /\ linea["largo"] # "memoria"
         /\ linea["corto"] \notin ConExecTo
  BY ParadaExcluye DEF Parada

(* Neither the lists nor who has each process change. *)
LEMMA ListasIgual ==
  ASSUME Listas, UNCHANGED <<cola, estado>>, \A q \in Pids : EnManos(q)' <=> EnManos(q)
  PROVE  Listas'
  BY DEF Listas

(* A process that was in no list goes to the list c. *)
LEMMA ListasTrasProcesoA ==
  ASSUME Tipos, Listas, NEW p \in Pids, NEW c \in Colas, proceso_a(p, c),
         EnManos(p) \/ estado[p] \notin Colas, ~EnManos(p)',
         \A q \in Pids \ {p} : EnManos(q)' <=> EnManos(q)
  PROVE  Listas'
<1>1. \A d \in Colas : p \notin ToSet(cola[d])
  BY DEF Listas
<1>2. /\ estado' = [estado EXCEPT ![p] = c]
      /\ \A d \in Colas :
           /\ ToSet(cola'[d]) = IF d = c THEN ToSet(cola[d]) \cup {p} ELSE ToSet(cola[d])
           /\ p \notin ToSet(cola[d]) /\ Distintos(cola[d]) => Distintos(cola'[d])
  BY TrasProcesoA DEF Tipos
<1>3. estado'[p] = c /\ \A q \in Pids \ {p} : estado'[q] = estado[q]
  BY <1>2 DEF Tipos, TiposDeListas
<1>4. \A d \in Colas : Distintos(cola'[d])
  BY <1>1, <1>2 DEF Listas
<1>5. ASSUME NEW d \in Colas, NEW q \in Pids
      PROVE  q \in ToSet(cola'[d]) <=> estado'[q] = d /\ ~EnManos(q)'
  <2>1. CASE q = p
    BY <1>1, <1>2, <1>3, <2>1
  <2>2. CASE q # p
    <3>1. q \in ToSet(cola'[d]) <=> q \in ToSet(cola[d])
      BY <1>2, <2>2
    <3>2. QED
      BY <1>3, <2>2, <3>1 DEF Listas
  <2>3. QED
    BY <2>1, <2>2
<1>6. QED
  BY <1>4, <1>5 DEF Listas

(* A process goes from its list to the list c. *)
LEMMA ListasTrasMover ==
  ASSUME Tipos, Listas, NEW p \in Pids, NEW de \in Colas, NEW c \in Colas \ {de},
         NEW token \in {0, 1}, mover(p, de, c, token),
         estado[p] = de, ~EnManos(p), ~EnManos(p)',
         \A q \in Pids \ {p} : EnManos(q)' <=> EnManos(q)
  PROVE  Listas'
<1>1. p \in ToSet(cola[de]) /\ \A d \in Colas \ {de} : p \notin ToSet(cola[d])
  BY DEF Listas
<1>2. /\ estado' = [estado EXCEPT ![p] = c]
      /\ \A d \in Colas \ {de, c} : cola'[d] = cola[d]
      /\ Distintos(cola'[de]) /\ Distintos(cola'[c])
      /\ \A q : q \in ToSet(cola'[de]) <=> q \in ToSet(cola[de]) /\ q # p
      /\ \A q : q \in ToSet(cola'[c]) <=> q \in ToSet(cola[c]) \/ q = p
  <2>1. Distintos(cola[de]) /\ Distintos(cola[c])
    BY DEF Listas
  <2>2. TiposDeListas /\ p \in ToSet(cola[de]) /\ p \notin ToSet(cola[c])
    BY <1>1 DEF Tipos
  <2>3. /\ estado' = [estado EXCEPT ![p] = c]
        /\ \A d \in Colas \ {de, c} : cola'[d] = cola[d]
    BY <2>2, MoverTipo
  <2>4. /\ Distintos(cola'[de]) /\ Distintos(cola'[c])
        /\ \A q : q \in ToSet(cola'[de]) <=> q \in ToSet(cola[de]) /\ q # p
        /\ \A q : q \in ToSet(cola'[c]) <=> q \in ToSet(cola[c]) \/ q = p
    BY <2>1, <2>2, TrasMover
  <2>5. QED
    BY <2>3, <2>4
<1>3. estado'[p] = c /\ \A q \in Pids \ {p} : estado'[q] = estado[q]
  BY <1>2 DEF Tipos, TiposDeListas
<1>4. \A d \in Colas : Distintos(cola'[d])
  BY <1>2 DEF Listas
<1>5. ASSUME NEW d \in Colas, NEW q \in Pids
      PROVE  q \in ToSet(cola'[d]) <=> estado'[q] = d /\ ~EnManos(q)'
  <2>1. CASE q = p
    <3>1. p \in ToSet(cola'[d]) <=> d = c
      BY <1>1, <1>2
    <3>2. QED
      BY <1>3, <2>1, <3>1
  <2>2. CASE q # p
    <3>1. q \in ToSet(cola'[d]) <=> q \in ToSet(cola[d])
      BY <1>2, <2>2
    <3>2. QED
      BY <1>3, <2>2, <3>1 DEF Listas
  <2>3. QED
    BY <2>1, <2>2
<1>6. QED
  BY <1>4, <1>5 DEF Listas

(* A thread takes a process out of its list. *)
LEMMA ListasTrasSacar ==
  ASSUME Tipos, Listas, NEW p \in Pids, NEW c \in Colas, p \in ToSet(cola[c]),
         NEW s, cola' = [cola EXCEPT ![c] = s], estado' = estado,
         ToSet(cola[c]) = ToSet(s) \cup {p}, p \notin ToSet(s), Distintos(s),
         EnManos(p)', \A q \in Pids \ {p} : EnManos(q)' <=> EnManos(q)
  PROVE  Listas'
<1>1. cola'[c] = s /\ \A d \in Colas \ {c} : cola'[d] = cola[d]
  BY DEF Tipos, TiposDeListas
<1>2. estado[p] = c /\ \A d \in Colas \ {c} : p \notin ToSet(cola[d])
  BY DEF Listas
<1>3. \A d \in Colas : Distintos(cola'[d])
  BY <1>1 DEF Listas
<1>4. ASSUME NEW d \in Colas, NEW q \in Pids
      PROVE  q \in ToSet(cola'[d]) <=> estado'[q] = d /\ ~EnManos(q)'
  <2>1. CASE q = p
    BY <1>1, <1>2, <2>1
  <2>2. CASE q # p
    <3>1. q \in ToSet(cola'[d]) <=> q \in ToSet(cola[d])
      BY <1>1, <2>2
    <3>2. QED
      BY <2>2, <3>1 DEF Listas
  <2>3. QED
    BY <2>1, <2>2
<1>5. QED
  BY <1>3, <1>4 DEF Listas

(* The processes in the lists. *)
LEMMA ListasPaso ==
  ASSUME InvBase, SinExceso, InvReparto, [Next]_vars
  PROVE  Listas'
<1>1. ASSUME NEW p \in Pids, iniciar_proceso(p)
      PROVE  Listas'
  <2>2. proceso_a(p, "NEW") /\ (EnManos(p) \/ estado[p] \notin Colas)
    BY <1>1 DEF iniciar_proceso, En, EnManos, InvBase, InvReparto, Tipos, TiposDeHilos,
       TiposDeListas, Lineas, Manos, Condenados, Hilos, EnCurso, Vivos, Colas, PuntosLargo,
       PuntosCorto, PuntosConsola
  <2>3. estado' = [estado EXCEPT ![p] = "NEW"]
    BY <2>2 DEF proceso_a
  <2>4. ~EnManos(p)' /\ \A q \in Pids \ {p} : EnManos(q)' <=> EnManos(q)
    BY <1>1, <2>2, <2>3 DEF iniciar_proceso, En, EnManos, InvBase, InvReparto, Tipos,
       TiposDeHilos, TiposDeListas, Lineas, Manos, Condenados, Hilos, EnCurso, Vivos, Colas,
       PuntosLargo, PuntosCorto, PuntosConsola, colas, grados, recursos, hiloCorto,
       hiloConsola
  <2>5. QED
    BY <2>2, <2>4, ListasTrasProcesoA DEF InvBase, InvReparto, Colas
<1>2. CASE DesencolarPorPid
  <2>0. PICK p \in Pids, c \in Colas : p = pcb["consola"] /\ c = Rastreo[paso]
    BY <1>2 DEF DesencolarPorPid, En, InvBase, Lineas, Tipos, TiposDeHilos, Rastreo, Colas
  <2> DEFINE s == Sin(cola[c], p)
  <2>1. p \in Pids /\ c \in Colas /\ cola[c] \in Seq(Pids)
    BY <1>2 DEF DesencolarPorPid, En, InvBase, Lineas, Tipos, TiposDeHilos, TiposDeListas,
       Rastreo, Colas
  <2>2. CASE p \in ToSet(cola[c])
    <3>1. Contiene(cola[c], p)
      BY <2>1, <2>2, ContieneEs
    <3>2. Distintos(cola[c])
      BY <2>1 DEF InvReparto, Listas
    <3>3. Distintos(s) /\ ToSet(s) = ToSet(cola[c]) \ {p}
      BY <2>1, <3>2, SinUno
    <3>4. cola' = [cola EXCEPT ![c] = s] /\ estado' = estado
      BY <1>2, <2>0, <2>1, <3>1 DEF DesencolarPorPid, Tipos, InvBase, TiposDeListas
    <3>5. EnManos(p)' /\ \A q \in Pids \ {p} : EnManos(q)' <=> EnManos(q)
      BY <1>2, <2>0, <3>1, <3>4 DEF DesencolarPorPid, En, Ir, EnManos, InvBase, Tipos,
         TiposDeHilos, Hilos
    <3> HIDE DEF s
    <3>6. QED
      BY <2>1, <2>2, <3>3, <3>4, <3>5, ListasTrasSacar DEF InvBase, InvReparto
  <2>3. CASE p \notin ToSet(cola[c])
    <3>1. ~Contiene(cola[c], p)
      BY <2>1, <2>3, ContieneEs
    <3>2. UNCHANGED <<cola, estado>> /\ \A q \in Pids : EnManos(q)' <=> EnManos(q)
      BY <1>2, <2>0, <3>1 DEF DesencolarPorPid, SeguirRastreo, En, Ir, EnManos, InvBase, Tipos,
         TiposDeHilos,
         Hilos
    <3>3. QED
      BY <3>2, ListasIgual DEF InvReparto
  <2>4. QED
    BY <2>2, <2>3
<1>3. CASE AgregarAFinalizar
  <2>0. PICK p \in Pids : p = pcb["consola"]
    BY <1>3 DEF AgregarAFinalizar, En, InvBase, Lineas
  <2>1. EnManos(p) /\ linea["consola"] = "agrega" /\ linea'["consola"] = "reanuda"
    BY <1>3, <2>0 DEF AgregarAFinalizar, En, Ir, EnManos, InvBase, InvReparto, Tipos,
       TiposDeHilos, TiposDeListas, Lineas, Manos, Condenados, Hilos, EnCurso, Vivos, Colas,
       PuntosLargo, PuntosCorto, PuntosConsola
  <2>2. linea["largo"] # "memoria" /\ linea["corto"] \notin ConExecTo
    BY <2>1, Excluidos DEF InvBase
  <2>3. CASE estado[p] = "EXEC"
    <3>1. UNCHANGED <<cola, estado>> /\ \A q \in Pids : EnManos(q)' <=> EnManos(q)
      BY <1>3, <2>0, <2>1, <2>3 DEF AgregarAFinalizar, En, Ir, colas, EnManos, InvBase,
         InvReparto, Tipos, TiposDeHilos, TiposDeListas, Lineas, Manos, Condenados, Hilos,
         EnCurso, Vivos, Colas, PuntosLargo, PuntosCorto, PuntosConsola
    <3>2. QED
      BY <3>1, ListasIgual DEF InvReparto
  <2>4. CASE estado[p] # "EXEC"
    <3>1. proceso_a(p, "EXIT")
      BY <1>3, <2>0, <2>4 DEF AgregarAFinalizar
    <3>2. estado' = [estado EXCEPT ![p] = "EXIT"]
      BY <3>1 DEF proceso_a
    <3>3. ~EnManos(p)' /\ \A q \in Pids \ {p} : EnManos(q)' <=> EnManos(q)
      BY <1>3, <2>0, <2>1, <2>2, <2>4, <3>2 DEF AgregarAFinalizar, En, Ir, EnManos, InvBase,
         InvReparto, Tipos, TiposDeHilos, TiposDeListas, Lineas, Manos, Condenados, Hilos,
         EnCurso, Vivos, Colas, PuntosLargo, PuntosCorto, PuntosConsola, ConExecTo
    <3>4. QED
      BY <2>1, <3>1, <3>3, ListasTrasProcesoA DEF InvBase, InvReparto, Colas
  <2>5. QED
    BY <2>3, <2>4
<1>4. CASE TomarDeNew
  <2> DEFINE s == Tail(cola["NEW"])
  <2>1. cola["NEW"] \in Seq(Pids) /\ cola["NEW"] # <<>> /\ Distintos(cola["NEW"])
    BY <1>4 DEF TomarDeNew, InvBase, InvReparto, Listas, Tipos, TiposDeListas, Colas
  <2>2. PICK h \in Pids : h = Head(cola["NEW"])
    BY <2>1, ElementosSinElPrimero
  <2>3. /\ h \in ToSet(cola["NEW"]) /\ ToSet(cola["NEW"]) = ToSet(s) \cup {h}
        /\ h \notin ToSet(s) /\ Distintos(s)
    BY <2>1, <2>2, ElementosSinElPrimero
  <2>4. /\ cola' = [cola EXCEPT !["NEW"] = s] /\ UNCHANGED <<estado, aFinalizar>>
        /\ linea' = [linea EXCEPT !["largo"] = "memoria"] /\ pcb' = [pcb EXCEPT !["largo"] = h]
        /\ linea["largo"] \notin {"memoria", "maneja", "sigue", "libera", "agrega"}
    BY <1>4, <2>2 DEF TomarDeNew, En, Ir, InvBase, Tipos, TiposDeListas
  <2> HIDE DEF s
  <2>5. EnManos(h)' /\ \A q \in Pids \ {h} : EnManos(q)' <=> EnManos(q)
    BY <2>4 DEF EnManos, En, InvBase, Tipos, TiposDeHilos, Hilos
  <2>6. QED
    BY <2>3, <2>4, <2>5, ListasTrasSacar DEF InvBase, InvReparto, Colas
<1>5. CASE RespuestaMemoria
  <2>0. linea["consola"] \notin {"mira", "espera", "agrega", "reanuda"}
    BY <1>5, Excluidos DEF RespuestaMemoria, En, InvBase, ConExecTo, Transiciones
  <2>1. PICK p \in Pids : p = pcb["largo"]
    BY <1>5 DEF RespuestaMemoria, En, InvBase, Lineas, EnCurso
  <2>2. PICK c \in {"READY", "EXIT"} : proceso_a(p, c)
    BY <1>5, <2>1 DEF RespuestaMemoria
  <2>3. EnManos(p) /\ estado' = [estado EXCEPT ![p] = c]
    BY <1>5, <2>1, <2>2 DEF RespuestaMemoria, En, EnManos, proceso_a
  <2>4. ~EnManos(p)' /\ \A q \in Pids \ {p} : EnManos(q)' <=> EnManos(q)
    BY <1>5, <2>0, <2>1, <2>3 DEF RespuestaMemoria, En, Ir, EnManos, InvBase, InvReparto,
       Tipos, TiposDeHilos, TiposDeListas, Lineas, Manos, Condenados, Hilos, EnCurso, Vivos,
       Colas, PuntosLargo, PuntosCorto, PuntosConsola
  <2>5. QED
    BY <2>2, <2>3, <2>4, ListasTrasProcesoA DEF InvBase, InvReparto, Colas
<1>6. CASE Despachar
  <2>0. PICK p \in Pids : p = Head(cola["READY"])
    BY <1>6, ElementosDe DEF Despachar, InvBase, Tipos, TiposDeListas, Colas
  <2>1. p \in ToSet(cola["READY"])
    BY <1>6, <2>0, ElementosDe DEF Despachar, InvBase, Tipos, TiposDeListas, Colas
  <2>2. estado[p] = "READY" /\ ~EnManos(p)
    BY <2>1 DEF InvReparto, Listas, Colas
  <2>3. mover(p, "READY", "EXEC", 0)
    BY <1>6, <2>0 DEF Despachar
  <2>4. estado' = [estado EXCEPT ![p] = "EXEC"]
    BY <2>3 DEF mover
  <2>5. linea["corto"] = "ready_to_exec" /\ linea' = [linea EXCEPT !["corto"] = "cpu"] /\
       pcb' = [pcb EXCEPT !["corto"] = p] /\ UNCHANGED aFinalizar
    BY <1>6, <2>0 DEF Despachar, En, Ir
  <2>6. ~EnManos(p)' /\ \A q \in Pids \ {p} : EnManos(q)' <=> EnManos(q)
    BY <2>1, <2>2, <2>4, <2>5 DEF En, EnManos, InvBase, InvReparto, Tipos, TiposDeHilos,
       TiposDeListas, Lineas, Manos, Condenados, Hilos, EnCurso, Vivos, Colas, PuntosLargo,
       PuntosCorto, PuntosConsola
  <2>7. QED
    BY <2>1, <2>2, <2>3, <2>6, ListasTrasMover DEF InvBase, InvReparto, Colas
<1>7. CASE TomarDeExec
  <2> DEFINE s == Tail(cola["EXEC"])
  <2>1. cola["EXEC"] \in Seq(Pids) /\ cola["EXEC"] # <<>> /\ Distintos(cola["EXEC"])
    BY <1>7 DEF TomarDeExec, InvBase, InvReparto, Listas, Tipos, TiposDeListas, Colas
  <2>2. PICK h \in Pids : h = Head(cola["EXEC"])
    BY <2>1, ElementosSinElPrimero
  <2>3. /\ h \in ToSet(cola["EXEC"]) /\ ToSet(cola["EXEC"]) = ToSet(s) \cup {h}
        /\ h \notin ToSet(s) /\ Distintos(s)
    BY <2>1, <2>2, ElementosSinElPrimero
  <2>4. /\ cola' = [cola EXCEPT !["EXEC"] = s] /\ UNCHANGED <<estado, aFinalizar>>
        /\ linea' = [linea EXCEPT !["corto"] = "maneja"] /\ pcb' = [pcb EXCEPT !["corto"] = h]
        /\ linea["corto"] \notin {"memoria", "maneja", "sigue", "libera", "agrega"}
    BY <1>7, <2>2 DEF TomarDeExec, En, Ir, InvBase, Tipos, TiposDeListas
  <2> HIDE DEF s
  <2>5. EnManos(h)' /\ \A q \in Pids \ {h} : EnManos(q)' <=> EnManos(q)
    BY <2>4 DEF EnManos, En, InvBase, Tipos, TiposDeHilos, Hilos
  <2>6. QED
    BY <2>3, <2>4, <2>5, ListasTrasSacar DEF InvBase, InvReparto, Colas
<1>8. CASE ManejarSalida
  <2>0. linea["consola"] \notin {"mira", "espera", "agrega", "reanuda"}
    BY <1>8, Excluidos DEF ManejarSalida, En, InvBase, ConExecTo, Transiciones
  <2>1. PICK p \in Pids : p = pcb["corto"]
    BY <1>8 DEF ManejarSalida, En, InvBase, Lineas, EnCurso
  <2>2. proceso_a(p, "EXIT") /\ (EnManos(p) \/ estado[p] \notin Colas)
    BY <1>8, <2>1 DEF ManejarSalida, FinManejo, En, Ir, EnManos, InvBase, InvReparto, Tipos,
       TiposDeHilos, TiposDeListas, Lineas, Manos, Condenados, Hilos, EnCurso, Vivos, Colas,
       PuntosLargo, PuntosCorto, PuntosConsola
  <2>3. estado' = [estado EXCEPT ![p] = "EXIT"]
    BY <2>2 DEF proceso_a
  <2>4. ~EnManos(p)' /\ \A q \in Pids \ {p} : EnManos(q)' <=> EnManos(q)
    BY <1>8, <2>1, <2>2, <2>3, <2>0 DEF ManejarSalida, FinManejo, En, Ir, EnManos, InvBase,
       InvReparto, Tipos, TiposDeHilos, TiposDeListas, Lineas, Manos, Condenados, Hilos,
       EnCurso, Vivos, Colas, PuntosLargo, PuntosCorto, PuntosConsola, colas, grados,
       recursos, hiloCorto, hiloConsola
  <2>5. QED
    BY <2>2, <2>4, ListasTrasProcesoA DEF InvBase, InvReparto, Colas
<1>9. CASE ManejarFinQuantum
  <2>0. linea["consola"] \notin {"mira", "espera", "agrega", "reanuda"}
    BY <1>9, Excluidos DEF ManejarFinQuantum, En, InvBase, ConExecTo, Transiciones
  <2>1. PICK p \in Pids : p = pcb["corto"]
    BY <1>9 DEF ManejarFinQuantum, En, InvBase, Lineas, EnCurso
  <2>2. proceso_a(p, "READY") /\ (EnManos(p) \/ estado[p] \notin Colas)
    BY <1>9, <2>1 DEF ManejarFinQuantum, FinManejo, En, Ir, EnManos, InvBase, InvReparto,
       Tipos, TiposDeHilos, TiposDeListas, Lineas, Manos, Condenados, Hilos, EnCurso, Vivos,
       Colas, PuntosLargo, PuntosCorto, PuntosConsola
  <2>3. estado' = [estado EXCEPT ![p] = "READY"]
    BY <2>2 DEF proceso_a
  <2>4. ~EnManos(p)' /\ \A q \in Pids \ {p} : EnManos(q)' <=> EnManos(q)
    BY <1>9, <2>1, <2>2, <2>3, <2>0 DEF ManejarFinQuantum, FinManejo, En, Ir, EnManos,
       InvBase, InvReparto, Tipos, TiposDeHilos, TiposDeListas, Lineas, Manos, Condenados,
       Hilos, EnCurso, Vivos, Colas, PuntosLargo, PuntosCorto, PuntosConsola, colas, grados,
       recursos, hiloCorto, hiloConsola
  <2>5. QED
    BY <2>2, <2>4, ListasTrasProcesoA DEF InvBase, InvReparto, Colas
<1>10. CASE ManejarIO
  <2>0. linea["consola"] \notin {"mira", "espera", "agrega", "reanuda"}
    BY <1>10, Excluidos DEF ManejarIO, En, InvBase, ConExecTo, Transiciones
  <2>1. PICK p \in Pids : p = pcb["corto"]
    BY <1>10 DEF ManejarIO, En, InvBase, Lineas, EnCurso
  <2>2. proceso_a(p, "BLOCKED") /\ (EnManos(p) \/ estado[p] \notin Colas)
    BY <1>10, <2>1 DEF ManejarIO, FinManejo, En, Ir, EnManos, InvBase, InvReparto, Tipos,
       TiposDeHilos, TiposDeListas, Lineas, Manos, Condenados, Hilos, EnCurso, Vivos, Colas,
       PuntosLargo, PuntosCorto, PuntosConsola
  <2>3. estado' = [estado EXCEPT ![p] = "BLOCKED"]
    BY <2>2 DEF proceso_a
  <2>4. ~EnManos(p)' /\ \A q \in Pids \ {p} : EnManos(q)' <=> EnManos(q)
    BY <1>10, <2>1, <2>2, <2>3, <2>0 DEF ManejarIO, FinManejo, En, Ir, EnManos, InvBase,
       InvReparto, Tipos, TiposDeHilos, TiposDeListas, Lineas, Manos, Condenados, Hilos,
       EnCurso, Vivos, Colas, PuntosLargo, PuntosCorto, PuntosConsola, colas, grados,
       recursos, hiloCorto, hiloConsola
  <2>5. QED
    BY <2>2, <2>4, ListasTrasProcesoA DEF InvBase, InvReparto, Colas
<1>11. CASE ManejarWait
  <2>0. linea["consola"] \notin {"mira", "espera", "agrega", "reanuda"}
    BY <1>11, Excluidos DEF ManejarWait, En, InvBase, ConExecTo, Transiciones
  <2>1. PICK p \in Pids : p = pcb["corto"]
    BY <1>11 DEF ManejarWait, En, InvBase, Lineas, EnCurso
  <2>2. CASE UNCHANGED colas /\ Ir("corto", "sigue") /\ UNCHANGED pcb
    <3>1. UNCHANGED <<cola, estado>> /\ \A q \in Pids : EnManos(q)' <=> EnManos(q)
      BY <1>11, <2>2 DEF ManejarWait, En, Ir, colas, EnManos, InvBase, InvReparto, Tipos,
         TiposDeHilos, TiposDeListas, Lineas, Manos, Condenados, Hilos, EnCurso, Vivos,
         Colas, PuntosLargo, PuntosCorto, PuntosConsola
    <3>2. QED
      BY <3>1, ListasIgual DEF InvReparto
  <2>3. CASE proceso_a(p, "BLOCKED") /\ FinManejo
    <3>1. EnManos(p) /\ estado' = [estado EXCEPT ![p] = "BLOCKED"]
      BY <1>11, <2>1, <2>3 DEF proceso_a, ManejarWait, En, EnManos
    <3>2. ~EnManos(p)' /\ \A q \in Pids \ {p} : EnManos(q)' <=> EnManos(q)
      BY <1>11, <2>0, <2>1, <2>3, <3>1 DEF ManejarWait, FinManejo, En, Ir, EnManos, InvBase,
         InvReparto, Tipos, TiposDeHilos, TiposDeListas, Lineas, Manos, Condenados, Hilos,
         EnCurso, Vivos, Colas, PuntosLargo, PuntosCorto, PuntosConsola
    <3>3. QED
      BY <2>3, <3>1, <3>2, ListasTrasProcesoA DEF InvBase, InvReparto, Colas
  <2>4. QED
    BY <1>11, <2>1, <2>2, <2>3 DEF ManejarWait
<1>12. CASE ManejarSignal
  <2>0. linea["consola"] \notin {"mira", "espera", "agrega", "reanuda"}
    BY <1>12, Excluidos DEF ManejarSignal, En, InvBase, ConExecTo, Transiciones
  <2>1. CASE UNCHANGED colas
    <3>1. UNCHANGED <<cola, estado>> /\ \A q \in Pids : EnManos(q)' <=> EnManos(q)
      BY <1>12, <2>1 DEF ManejarSignal, En, Ir, colas, EnManos, InvBase, InvReparto, Tipos,
         TiposDeHilos, TiposDeListas, Lineas, Manos, Condenados, Hilos, EnCurso, Vivos,
         Colas, PuntosLargo, PuntosCorto, PuntosConsola
    <3>2. QED
      BY <3>1, ListasIgual DEF InvReparto
  <2>2. ASSUME NEW w \in porRecurso, mover(w, "BLOCKED", "READY", 1)
        PROVE  Listas'
    <3>1. w \in Pids /\ estado[w] = "BLOCKED" /\ ~EnManos(w)
      BY <1>12, <2>0 DEF ManejarSignal, En, TiposDeConjuntos, EnManos, InvBase, InvReparto,
         Tipos, TiposDeHilos, TiposDeListas, Lineas, Manos, Condenados, Hilos, EnCurso,
         Vivos, Colas, PuntosLargo, PuntosCorto, PuntosConsola
    <3>2. estado' = [estado EXCEPT ![w] = "READY"]
      BY <2>2 DEF mover
    <3>3. ~EnManos(w)' /\ \A q \in Pids \ {w} : EnManos(q)' <=> EnManos(q)
      BY <1>12, <2>0, <3>1, <3>2 DEF ManejarSignal, En, Ir, EnManos, InvBase, InvReparto,
         Tipos, TiposDeHilos, TiposDeListas, Lineas, Manos, Condenados, Hilos, EnCurso,
         Vivos, Colas, PuntosLargo, PuntosCorto, PuntosConsola
    <3>4. QED
      BY <2>2, <3>1, <3>3, ListasTrasMover DEF InvBase, InvReparto, Colas
  <2>3. QED
    BY <1>12, <2>1, <2>2 DEF ManejarSignal, desbloquear_si_corresponde
<1>13. CASE SeguirEjecutando
  <2>0. linea["consola"] \notin {"mira", "espera", "agrega", "reanuda"}
    BY <1>13, Excluidos DEF SeguirEjecutando, En, InvBase, ConExecTo, Transiciones
  <2>1. PICK p \in Pids : p = pcb["corto"]
    BY <1>13 DEF SeguirEjecutando, En, InvBase, Lineas, EnCurso
  <2>2. proceso_a(p, "EXEC") /\ (EnManos(p) \/ estado[p] \notin Colas)
    BY <1>13, <2>1 DEF SeguirEjecutando, En, Ir, EnManos, InvBase, InvReparto, Tipos,
       TiposDeHilos, TiposDeListas, Lineas, Manos, Condenados, Hilos, EnCurso, Vivos, Colas,
       PuntosLargo, PuntosCorto, PuntosConsola
  <2>3. estado' = [estado EXCEPT ![p] = "EXEC"]
    BY <2>2 DEF proceso_a
  <2>4. ~EnManos(p)' /\ \A q \in Pids \ {p} : EnManos(q)' <=> EnManos(q)
    BY <1>13, <2>1, <2>2, <2>3, <2>0 DEF SeguirEjecutando, En, Ir, EnManos, InvBase,
       InvReparto, Tipos, TiposDeHilos, TiposDeListas, Lineas, Manos, Condenados, Hilos,
       EnCurso, Vivos, Colas, PuntosLargo, PuntosCorto, PuntosConsola, colas, grados,
       recursos, hiloCorto, hiloConsola
  <2>5. QED
    BY <2>2, <2>4, ListasTrasProcesoA DEF InvBase, InvReparto, Colas
<1>14. ASSUME NEW p \in Pids, FinIO(p)
      PROVE  Listas'
  <2>0. linea["consola"] \notin {"mira", "espera", "agrega", "reanuda"}
    BY <1>14, Excluidos DEF FinIO, En, InvBase, ConExecTo, Transiciones
  <2>1. estado[p] = "BLOCKED" /\ ~EnManos(p) /\ mover(p, "BLOCKED", "READY", 1)
    BY <1>14, <2>0 DEF FinIO, En, EnManos, InvBase, InvReparto, Tipos, TiposDeHilos,
       TiposDeListas, Lineas, Manos, Condenados, Hilos, EnCurso, Vivos, Colas, PuntosLargo,
       PuntosCorto, PuntosConsola
  <2>2. estado' = [estado EXCEPT ![p] = "READY"]
    BY <2>1 DEF mover
  <2>3. ~EnManos(p)' /\ \A q \in Pids \ {p} : EnManos(q)' <=> EnManos(q)
    BY <1>14, <2>0, <2>1, <2>2 DEF FinIO, En, EnManos, InvBase, InvReparto, Tipos,
       TiposDeHilos, TiposDeListas, Lineas, Manos, Condenados, Hilos, EnCurso, Vivos, Colas,
       PuntosLargo, PuntosCorto, PuntosConsola
  <2>4. QED
    BY <2>1, <2>3, ListasTrasMover DEF InvBase, InvReparto, Colas
<1>15. CASE TomarDeExit
  <2> DEFINE s == Tail(cola["EXIT"])
  <2>1. cola["EXIT"] \in Seq(Pids) /\ cola["EXIT"] # <<>> /\ Distintos(cola["EXIT"])
    BY <1>15 DEF TomarDeExit, InvBase, InvReparto, Listas, Tipos, TiposDeListas, Colas
  <2>2. PICK h \in Pids : h = Head(cola["EXIT"])
    BY <2>1, ElementosSinElPrimero
  <2>3. /\ h \in ToSet(cola["EXIT"]) /\ ToSet(cola["EXIT"]) = ToSet(s) \cup {h}
        /\ h \notin ToSet(s) /\ Distintos(s)
    BY <2>1, <2>2, ElementosSinElPrimero
  <2>4. /\ cola' = [cola EXCEPT !["EXIT"] = s] /\ UNCHANGED <<estado, aFinalizar>>
        /\ linea' = [linea EXCEPT !["exit"] = "libera"] /\ pcb' = [pcb EXCEPT !["exit"] = h]
        /\ linea["exit"] \notin {"memoria", "maneja", "sigue", "libera", "agrega"}
    BY <1>15, <2>2 DEF TomarDeExit, En, Ir, InvBase, Tipos, TiposDeListas
  <2> HIDE DEF s
  <2>5. EnManos(h)' /\ \A q \in Pids \ {h} : EnManos(q)' <=> EnManos(q)
    BY <2>4 DEF EnManos, En, InvBase, Tipos, TiposDeHilos, Hilos
  <2>6. QED
    BY <2>3, <2>4, <2>5, ListasTrasSacar DEF InvBase, InvReparto, Colas
<1>16. CASE liberar_recurso
  <2>0. linea["consola"] \notin {"mira", "espera", "agrega", "reanuda"}
    BY <1>16, Excluidos DEF liberar_recurso, En, InvBase, ConExecTo, Transiciones
  <2>1. CASE UNCHANGED colas
    <3>1. UNCHANGED <<cola, estado>> /\ \A q \in Pids : EnManos(q)' <=> EnManos(q)
      BY <1>16, <2>1 DEF liberar_recurso, En, Ir, colas, EnManos, InvBase, InvReparto, Tipos,
         TiposDeHilos, TiposDeListas, Lineas, Manos, Condenados, Hilos, EnCurso, Vivos,
         Colas, PuntosLargo, PuntosCorto, PuntosConsola
    <3>2. QED
      BY <3>1, ListasIgual DEF InvReparto
  <2>2. ASSUME NEW w \in porRecurso, mover(w, "BLOCKED", "READY", 1)
        PROVE  Listas'
    <3>1. w \in Pids /\ estado[w] = "BLOCKED" /\ ~EnManos(w)
      BY <1>16, <2>0 DEF liberar_recurso, En, TiposDeConjuntos, EnManos, InvBase, InvReparto,
         Tipos, TiposDeHilos, TiposDeListas, Lineas, Manos, Condenados, Hilos, EnCurso,
         Vivos, Colas, PuntosLargo, PuntosCorto, PuntosConsola
    <3>2. estado' = [estado EXCEPT ![w] = "READY"]
      BY <2>2 DEF mover
    <3>3. ~EnManos(w)' /\ \A q \in Pids \ {w} : EnManos(q)' <=> EnManos(q)
      BY <1>16, <2>0, <3>1, <3>2 DEF liberar_recurso, En, Ir, EnManos, InvBase, InvReparto,
         Tipos, TiposDeHilos, TiposDeListas, Lineas, Manos, Condenados, Hilos, EnCurso,
         Vivos, Colas, PuntosLargo, PuntosCorto, PuntosConsola
    <3>4. QED
      BY <2>2, <3>1, <3>3, ListasTrasMover DEF InvBase, InvReparto, Colas
  <2>3. QED
    BY <1>16, <2>1, <2>2 DEF liberar_recurso, desbloquear_si_corresponde
<1>17. CASE eliminar_pcb
  <2>0. PICK p \in Pids : p = pcb["exit"]
    BY <1>17 DEF eliminar_pcb, En, InvBase, Lineas
  <2>1. EnManos(p) /\ estado[p] = "EXIT" /\ cola' = cola /\ estado' = [estado EXCEPT ![p] =
       "LIBERADO"] /\ aFinalizar' = aFinalizar \ {p}
    BY <1>17, <2>0 DEF eliminar_pcb, En, EnManos, InvBase, InvReparto, Tipos, TiposDeHilos,
       TiposDeListas, Lineas, Manos, Condenados, Hilos, EnCurso, Vivos, Colas, PuntosLargo,
       PuntosCorto, PuntosConsola
  <2>2. \A q \in Pids \ {p} : EnManos(q)' <=> EnManos(q)
    BY <1>17, <2>0, <2>1 DEF eliminar_pcb, En, Ir, EnManos, InvBase, InvReparto, Tipos,
       TiposDeHilos, TiposDeListas, Lineas, Manos, Condenados, Hilos, EnCurso, Vivos, Colas,
       PuntosLargo, PuntosCorto, PuntosConsola
  <2>3. \A c \in Colas : p \notin ToSet(cola[c])
    BY <2>1 DEF InvReparto, Listas
  <2>4. QED
    BY <2>1, <2>2, <2>3 DEF InvReparto, Listas, InvBase, Tipos, TiposDeListas, Colas
<1>18. CASE iniciar_planificacion \/ DETENER_PLANIFICACION \/ FinDetener \/ ReducirGrado \/
           MirarCola \/ Reanudar \/ EsperarControl \/ EsperarGrado \/ EsperarNew \/
           EsperarReady \/ EsperarExecTo \/ ConsultarPendiente \/ (\E p \in Pids :
           FINALIZAR_PROCESO(p)) \/ (\E t \in Transiciones : TomarTransicion(t)) \/ (\E n
           \in Grados : cambiar_grado_multiprogramacion_a(n)) \/ (\E m \in Motivos :
           Desalojo(m)) \/ UNCHANGED vars
  <2>1. UNCHANGED <<cola, estado>> /\ \A q \in Pids : EnManos(q)' <=> EnManos(q)
    BY <1>18 DEF vars, iniciar_planificacion, En, postear_todas, DETENER_PLANIFICACION,
       detener_planificacion, Ir, FINALIZAR_PROCESO, TomarTransicion, FinDetener,
       cambiar_grado_multiprogramacion_a, ReducirGrado, MirarCola, SeguirRastreo, Reanudar,
       EsperarControl, EsperarGrado, EsperarNew, EsperarReady, Desalojo, EsperarExecTo,
       ConsultarPendiente, EnManos, InvBase, InvReparto, Tipos, TiposDeHilos, TiposDeListas,
       Lineas, Manos, Condenados, Hilos, EnCurso, Vivos, Colas, PuntosLargo, PuntosCorto,
       PuntosConsola, colas, grados, recursos, hiloCorto, hiloConsola
  <2>2. QED
    BY <2>1, ListasIgual DEF InvReparto
<1>19. QED
  BY <1>1, <1>2, <1>3, <1>4, <1>5, <1>6, <1>7, <1>8, <1>9, <1>10, <1>11, <1>12, <1>13,
     <1>14, <1>15, <1>16, <1>17, <1>18 DEF Next, PasoConsola, PasoLargo, PasoCorto,
     PasoInterfaz, PasoExit

(* The states of the processes that the threads have. *)
LEMMA ManosPaso ==
  ASSUME InvBase, SinExceso, InvReparto, [Next]_vars
  PROVE  Manos'
<1>0. linea["consola"] \in {"mira", "espera", "agrega", "reanuda"} =>
        (\A t \in Transiciones : plan[t] = 0) /\ linea["largo"] # "memoria"
          /\ linea["corto"] \notin ConExecTo
  BY Excluidos DEF InvBase
<1>1. ASSUME NEW p \in Pids, iniciar_proceso(p)
      PROVE  Manos'
  BY <1>1, <1>0 DEF iniciar_proceso, En, proceso_a, InvBase, InvReparto, Tipos,
     TiposDeHilos, TiposDeListas, TiposDeConjuntos, Lineas, Manos, Condenados, Hilos,
     EnCurso, Vivos, Colas, PuntosLargo, PuntosCorto, PuntosConsola, ConExecTo,
     Transiciones, colas, grados, recursos, hiloCorto, hiloConsola
<1>2. CASE DesencolarPorPid
  <2>1. PICK p \in Pids, c \in Colas : p = pcb["consola"] /\ c = Rastreo[paso] /\ c # "EXIT"
    BY <1>2 DEF DesencolarPorPid, En, InvBase, Lineas, Tipos, TiposDeHilos, Rastreo, Colas
  <2>2. Contiene(cola[c], p) => estado[p] = c /\ ~EnManos(p)
    BY ContieneEs DEF InvBase, InvReparto, Listas, Tipos, TiposDeListas
  <2>3. QED
    BY <1>2, <1>0, <2>1, <2>2 DEF DesencolarPorPid, SeguirRastreo, EnManos, En, Ir, InvBase,
       InvReparto, Tipos, TiposDeHilos, TiposDeListas, TiposDeConjuntos, Lineas, Manos,
       Condenados, Hilos, EnCurso, Vivos, Colas, PuntosLargo, PuntosCorto, PuntosConsola,
       ConExecTo, Transiciones, colas, grados, recursos, hiloCorto, hiloConsola
<1>3. CASE AgregarAFinalizar
  BY <1>3, <1>0 DEF AgregarAFinalizar, En, Ir, proceso_a, InvBase, InvReparto, Tipos,
     TiposDeHilos, TiposDeListas, TiposDeConjuntos, Lineas, Manos, Condenados, Hilos,
     EnCurso, Vivos, Colas, PuntosLargo, PuntosCorto, PuntosConsola, ConExecTo,
     Transiciones, colas, grados, recursos, hiloCorto, hiloConsola
<1>4. CASE Reanudar
  BY <1>4, <1>0 DEF Reanudar, En, Ir, InvBase, InvReparto, Tipos, TiposDeHilos,
     TiposDeListas, TiposDeConjuntos, Lineas, Manos, Condenados, Hilos, EnCurso, Vivos,
     Colas, PuntosLargo, PuntosCorto, PuntosConsola, ConExecTo, Transiciones, colas, grados,
     recursos, hiloCorto, hiloConsola
<1>5. CASE TomarDeNew
  <2>1. PICK h \in Pids : h = Head(cola["NEW"])
    BY <1>5, ElementosDe DEF TomarDeNew, InvBase, Tipos, TiposDeListas, Colas
  <2>2. h \in ToSet(cola["NEW"])
    BY <1>5, <2>1, ElementosDe DEF TomarDeNew, InvBase, Tipos, TiposDeListas, Colas
  <2>3. estado[h] = "NEW" /\ ~EnManos(h)
    BY <2>2 DEF InvReparto, Listas, Colas
  <2>4. QED
    BY <1>5, <1>0, <2>1, <2>3 DEF TomarDeNew, En, Ir, InvBase, InvReparto, Tipos,
       TiposDeHilos, TiposDeListas, TiposDeConjuntos, Lineas, Manos, Condenados, Hilos,
       EnCurso, Vivos, Colas, PuntosLargo, PuntosCorto, PuntosConsola, ConExecTo,
       Transiciones, colas, grados, recursos, hiloCorto, hiloConsola
<1>6. CASE RespuestaMemoria
  BY <1>6, <1>0 DEF RespuestaMemoria, En, Ir, proceso_a, InvBase, InvReparto, Tipos,
     TiposDeHilos, TiposDeListas, TiposDeConjuntos, Lineas, Manos, Condenados, Hilos,
     EnCurso, Vivos, Colas, PuntosLargo, PuntosCorto, PuntosConsola, ConExecTo,
     Transiciones, colas, grados, recursos, hiloCorto, hiloConsola
<1>7. CASE EsperarReady
  BY <1>7, <1>0 DEF EsperarReady, En, Ir, InvBase, InvReparto, Tipos, TiposDeHilos,
     TiposDeListas, TiposDeConjuntos, Lineas, Manos, Condenados, Hilos, EnCurso, Vivos,
     Colas, PuntosLargo, PuntosCorto, PuntosConsola, ConExecTo, Transiciones, colas, grados,
     recursos, hiloCorto, hiloConsola
<1>8. CASE Despachar
  <2>1. PICK p \in Pids : p = Head(cola["READY"])
    BY <1>8, ElementosDe DEF Despachar, InvBase, Tipos, TiposDeListas, Colas
  <2>2. p \in ToSet(cola["READY"])
    BY <1>8, <2>1, ElementosDe DEF Despachar, InvBase, Tipos, TiposDeListas, Colas
  <2>3. estado[p] = "READY"
    BY <2>2 DEF InvReparto, Listas, Colas
  <2>4. QED
    BY <1>8, <1>0, <2>1, <2>3 DEF Despachar, En, Ir, mover, InvBase, InvReparto, Tipos,
       TiposDeHilos, TiposDeListas, TiposDeConjuntos, Lineas, Manos, Condenados, Hilos,
       EnCurso, Vivos, Colas, PuntosLargo, PuntosCorto, PuntosConsola, ConExecTo,
       Transiciones, colas, grados, recursos, hiloCorto, hiloConsola
<1>9. ASSUME NEW m \in Motivos, Desalojo(m)
      PROVE  Manos'
  BY <1>9, <1>0 DEF Desalojo, En, Ir, InvBase, InvReparto, Tipos, TiposDeHilos,
     TiposDeListas, TiposDeConjuntos, Lineas, Manos, Condenados, Hilos, EnCurso, Vivos,
     Colas, PuntosLargo, PuntosCorto, PuntosConsola, ConExecTo, Transiciones, colas, grados,
     recursos, hiloCorto, hiloConsola
<1>10. CASE EsperarExecTo
  BY <1>10, <1>0 DEF EsperarExecTo, En, Ir, InvBase, InvReparto, Tipos, TiposDeHilos,
     TiposDeListas, TiposDeConjuntos, Lineas, Manos, Condenados, Hilos, EnCurso, Vivos,
     Colas, PuntosLargo, PuntosCorto, PuntosConsola, ConExecTo, Transiciones, colas, grados,
     recursos, hiloCorto, hiloConsola
<1>11. CASE ConsultarPendiente
  BY <1>11, <1>0 DEF ConsultarPendiente, En, Ir, InvBase, InvReparto, Tipos, TiposDeHilos,
     TiposDeListas, TiposDeConjuntos, Lineas, Manos, Condenados, Hilos, EnCurso, Vivos,
     Colas, PuntosLargo, PuntosCorto, PuntosConsola, ConExecTo, Transiciones, colas, grados,
     recursos, hiloCorto, hiloConsola
<1>12. CASE TomarDeExec
  <2>1. PICK h \in Pids : h = Head(cola["EXEC"])
    BY <1>12, ElementosDe DEF TomarDeExec, InvBase, Tipos, TiposDeListas, Colas
  <2>2. h \in ToSet(cola["EXEC"])
    BY <1>12, <2>1, ElementosDe DEF TomarDeExec, InvBase, Tipos, TiposDeListas, Colas
  <2>3. estado[h] = "EXEC" /\ ~EnManos(h)
    BY <2>2 DEF InvReparto, Listas, Colas
  <2>4. QED
    BY <1>12, <1>0, <2>1, <2>3 DEF TomarDeExec, En, Ir, InvBase, InvReparto, Tipos,
       TiposDeHilos, TiposDeListas, TiposDeConjuntos, Lineas, Manos, Condenados, Hilos,
       EnCurso, Vivos, Colas, PuntosLargo, PuntosCorto, PuntosConsola, ConExecTo,
       Transiciones, EnManos, colas, grados, recursos, hiloCorto, hiloConsola
<1>13. CASE ManejarSalida
  BY <1>13, <1>0 DEF ManejarSalida, FinManejo, En, Ir, proceso_a, InvBase, InvReparto,
     Tipos, TiposDeHilos, TiposDeListas, TiposDeConjuntos, Lineas, Manos, Condenados, Hilos,
     EnCurso, Vivos, Colas, PuntosLargo, PuntosCorto, PuntosConsola, ConExecTo,
     Transiciones, colas, grados, recursos, hiloCorto, hiloConsola
<1>14. CASE ManejarFinQuantum
  BY <1>14, <1>0 DEF ManejarFinQuantum, FinManejo, En, Ir, proceso_a, InvBase, InvReparto,
     Tipos, TiposDeHilos, TiposDeListas, TiposDeConjuntos, Lineas, Manos, Condenados, Hilos,
     EnCurso, Vivos, Colas, PuntosLargo, PuntosCorto, PuntosConsola, ConExecTo,
     Transiciones, colas, grados, recursos, hiloCorto, hiloConsola
<1>15. CASE ManejarIO
  BY <1>15, <1>0 DEF ManejarIO, FinManejo, En, Ir, proceso_a, InvBase, InvReparto, Tipos,
     TiposDeHilos, TiposDeListas, TiposDeConjuntos, Lineas, Manos, Condenados, Hilos,
     EnCurso, Vivos, Colas, PuntosLargo, PuntosCorto, PuntosConsola, ConExecTo,
     Transiciones, colas, grados, recursos, hiloCorto, hiloConsola
<1>16. CASE ManejarWait
  <2>1. PICK p \in Pids : p = pcb["corto"]
    BY <1>16 DEF ManejarWait, En, InvBase, Lineas, EnCurso
  <2>2. estado[p] = "EXEC"
    BY <1>16, <2>1 DEF ManejarWait, En, InvReparto, Manos, EnCurso
  <2>3. CASE UNCHANGED colas /\ UNCHANGED <<porRecurso, pcb>> /\ Ir("corto", "sigue")
    <3>1. QED
      BY <1>16, <1>0, <2>1, <2>2, <2>3 DEF ManejarWait, En, Ir, InvBase, InvReparto, Tipos,
         TiposDeHilos, TiposDeListas, TiposDeConjuntos, Lineas, Manos, Condenados, Hilos,
         EnCurso, Vivos, Colas, PuntosLargo, PuntosCorto, PuntosConsola, ConExecTo,
         Transiciones, colas, grados, recursos, hiloCorto, hiloConsola
  <2>4. CASE proceso_a(p, "BLOCKED") /\ porRecurso' = porRecurso \cup {p} /\ FinManejo
    <3>1. QED
      BY <1>16, <1>0, <2>1, <2>2, <2>4 DEF ManejarWait, FinManejo, proceso_a, En, Ir, InvBase,
         InvReparto, Tipos, TiposDeHilos, TiposDeListas, TiposDeConjuntos, Lineas, Manos,
         Condenados, Hilos, EnCurso, Vivos, Colas, PuntosLargo, PuntosCorto, PuntosConsola,
         ConExecTo, Transiciones, colas, grados, recursos, hiloCorto, hiloConsola
  <2>5. QED
    BY <1>16, <2>1, <2>3, <2>4 DEF ManejarWait
<1>17. CASE ManejarSignal
  BY <1>17, <1>0 DEF ManejarSignal, desbloquear_si_corresponde, En, Ir, mover, InvBase,
     InvReparto, Tipos, TiposDeHilos, TiposDeListas, TiposDeConjuntos, Lineas, Manos,
     Condenados, Hilos, EnCurso, Vivos, Colas, PuntosLargo, PuntosCorto, PuntosConsola,
     ConExecTo, Transiciones, colas, grados, recursos, hiloCorto, hiloConsola
<1>18. CASE SeguirEjecutando
  BY <1>18, <1>0 DEF SeguirEjecutando, En, Ir, proceso_a, InvBase, InvReparto, Tipos,
     TiposDeHilos, TiposDeListas, TiposDeConjuntos, Lineas, Manos, Condenados, Hilos,
     EnCurso, Vivos, Colas, PuntosLargo, PuntosCorto, PuntosConsola, ConExecTo,
     Transiciones, colas, grados, recursos, hiloCorto, hiloConsola
<1>19. ASSUME NEW p \in Pids, FinIO(p)
      PROVE  Manos'
  BY <1>19, <1>0 DEF FinIO, mover, InvBase, InvReparto, Tipos, TiposDeHilos, TiposDeListas,
     TiposDeConjuntos, Lineas, Manos, Condenados, Hilos, EnCurso, Vivos, Colas, PuntosLargo,
     PuntosCorto, PuntosConsola, ConExecTo, Transiciones, colas, grados, recursos,
     hiloCorto, hiloConsola
<1>20. CASE TomarDeExit
  <2>1. PICK h \in Pids : h = Head(cola["EXIT"])
    BY <1>20, ElementosDe DEF TomarDeExit, InvBase, Tipos, TiposDeListas, Colas
  <2>2. h \in ToSet(cola["EXIT"])
    BY <1>20, <2>1, ElementosDe DEF TomarDeExit, InvBase, Tipos, TiposDeListas, Colas
  <2>3. estado[h] = "EXIT" /\ ~EnManos(h)
    BY <2>2 DEF InvReparto, Listas, Colas
  <2>4. QED
    BY <1>20, <1>0, <2>1, <2>3 DEF TomarDeExit, En, Ir, InvBase, InvReparto, Tipos,
       TiposDeHilos, TiposDeListas, TiposDeConjuntos, Lineas, Manos, Condenados, Hilos,
       EnCurso, Vivos, Colas, PuntosLargo, PuntosCorto, PuntosConsola, ConExecTo,
       Transiciones, colas, grados, recursos, hiloCorto, hiloConsola
<1>21. CASE liberar_recurso
  BY <1>21, <1>0 DEF liberar_recurso, desbloquear_si_corresponde, En, mover, InvBase,
     InvReparto, Tipos, TiposDeHilos, TiposDeListas, TiposDeConjuntos, Lineas, Manos,
     Condenados, Hilos, EnCurso, Vivos, Colas, PuntosLargo, PuntosCorto, PuntosConsola,
     ConExecTo, Transiciones, colas, grados, recursos, hiloCorto, hiloConsola
<1>22. CASE eliminar_pcb
  BY <1>22, <1>0 DEF eliminar_pcb, En, Ir, InvBase, InvReparto, Tipos, TiposDeHilos,
     TiposDeListas, TiposDeConjuntos, Lineas, Manos, Condenados, Hilos, EnCurso, Vivos,
     Colas, PuntosLargo, PuntosCorto, PuntosConsola, ConExecTo, Transiciones, colas, grados,
     recursos, hiloCorto, hiloConsola
<1>23. CASE iniciar_planificacion \/ DETENER_PLANIFICACION \/ FinDetener \/ ReducirGrado \/
           MirarCola \/ EsperarControl \/ EsperarGrado \/ EsperarNew \/ (\E p \in Pids :
           FINALIZAR_PROCESO(p)) \/ (\E t \in Transiciones : TomarTransicion(t)) \/ (\E n
           \in Grados : cambiar_grado_multiprogramacion_a(n)) \/ UNCHANGED vars
  BY <1>23, <1>0 DEF vars, iniciar_planificacion, En, DETENER_PLANIFICACION,
     detener_planificacion, Ir, FINALIZAR_PROCESO, TomarTransicion, FinDetener,
     cambiar_grado_multiprogramacion_a, ReducirGrado, MirarCola, SeguirRastreo,
     EsperarControl, EsperarGrado, EsperarNew, InvBase, InvReparto, Tipos, TiposDeHilos,
     TiposDeListas, TiposDeConjuntos, Lineas, Manos, Condenados, Hilos, EnCurso, Vivos,
     Colas, PuntosLargo, PuntosCorto, PuntosConsola, ConExecTo, Transiciones, colas, grados,
     recursos, hiloCorto, hiloConsola
<1>24. QED
  BY <1>1, <1>2, <1>3, <1>4, <1>5, <1>6, <1>7, <1>8, <1>9, <1>10, <1>11, <1>12, <1>13,
     <1>14, <1>15, <1>16, <1>17, <1>18, <1>19, <1>20, <1>21, <1>22, <1>23 DEF Next,
     PasoConsola, PasoLargo, PasoCorto, PasoInterfaz, PasoExit

(* What is pending to finalize. *)
LEMMA CondenadosPaso ==
  ASSUME InvBase, SinExceso, InvReparto, [Next]_vars
  PROVE  Condenados'
<1>0. linea["consola"] \in {"mira", "espera", "agrega", "reanuda"} =>
        (\A t \in Transiciones : plan[t] = 0) /\ linea["largo"] # "memoria"
          /\ linea["corto"] \notin ConExecTo
  BY Excluidos DEF InvBase
<1>1. ASSUME NEW p \in Pids, iniciar_proceso(p)
      PROVE  Condenados'
  BY <1>1, <1>0 DEF iniciar_proceso, En, proceso_a, InvBase, InvReparto, Tipos,
     TiposDeHilos, TiposDeListas, TiposDeConjuntos, Lineas, Manos, Condenados, Hilos,
     EnCurso, Vivos, Colas, PuntosLargo, PuntosCorto, PuntosConsola, ConExecTo,
     Transiciones, colas, grados, recursos, hiloCorto, hiloConsola
<1>2. CASE DesencolarPorPid
  <2>1. PICK p \in Pids, c \in Colas : p = pcb["consola"] /\ c = Rastreo[paso] /\ c # "EXIT"
    BY <1>2 DEF DesencolarPorPid, En, InvBase, Lineas, Tipos, TiposDeHilos, Rastreo, Colas
  <2>2. Contiene(cola[c], p) => estado[p] = c /\ ~EnManos(p)
    BY ContieneEs DEF InvBase, InvReparto, Listas, Tipos, TiposDeListas
  <2>3. QED
    BY <1>2, <1>0, <2>1, <2>2 DEF DesencolarPorPid, SeguirRastreo, EnManos, En, Ir, InvBase,
       InvReparto, Tipos, TiposDeHilos, TiposDeListas, TiposDeConjuntos, Lineas, Manos,
       Condenados, Hilos, EnCurso, Vivos, Colas, PuntosLargo, PuntosCorto, PuntosConsola,
       ConExecTo, Transiciones, colas, grados, recursos, hiloCorto, hiloConsola
<1>3. CASE AgregarAFinalizar
  BY <1>3, <1>0 DEF AgregarAFinalizar, En, Ir, proceso_a, InvBase, InvReparto, Tipos,
     TiposDeHilos, TiposDeListas, TiposDeConjuntos, Lineas, Manos, Condenados, Hilos,
     EnCurso, Vivos, Colas, PuntosLargo, PuntosCorto, PuntosConsola, ConExecTo,
     Transiciones, colas, grados, recursos, hiloCorto, hiloConsola
<1>4. CASE Reanudar
  BY <1>4, <1>0 DEF Reanudar, En, Ir, InvBase, InvReparto, Tipos, TiposDeHilos,
     TiposDeListas, TiposDeConjuntos, Lineas, Manos, Condenados, Hilos, EnCurso, Vivos,
     Colas, PuntosLargo, PuntosCorto, PuntosConsola, ConExecTo, Transiciones, colas, grados,
     recursos, hiloCorto, hiloConsola
<1>5. CASE TomarDeNew
  <2>1. PICK h \in Pids : h = Head(cola["NEW"])
    BY <1>5, ElementosDe DEF TomarDeNew, InvBase, Tipos, TiposDeListas, Colas
  <2>2. h \in ToSet(cola["NEW"])
    BY <1>5, <2>1, ElementosDe DEF TomarDeNew, InvBase, Tipos, TiposDeListas, Colas
  <2>3. estado[h] = "NEW" /\ ~EnManos(h)
    BY <2>2 DEF InvReparto, Listas, Colas
  <2>4. QED
    BY <1>5, <1>0, <2>1, <2>3 DEF TomarDeNew, En, Ir, InvBase, InvReparto, Tipos,
       TiposDeHilos, TiposDeListas, TiposDeConjuntos, Lineas, Manos, Condenados, Hilos,
       EnCurso, Vivos, Colas, PuntosLargo, PuntosCorto, PuntosConsola, ConExecTo,
       Transiciones, colas, grados, recursos, hiloCorto, hiloConsola
<1>6. CASE RespuestaMemoria
  BY <1>6, <1>0 DEF RespuestaMemoria, En, Ir, proceso_a, InvBase, InvReparto, Tipos,
     TiposDeHilos, TiposDeListas, TiposDeConjuntos, Lineas, Manos, Condenados, Hilos,
     EnCurso, Vivos, Colas, PuntosLargo, PuntosCorto, PuntosConsola, ConExecTo,
     Transiciones, colas, grados, recursos, hiloCorto, hiloConsola
<1>7. CASE EsperarReady
  BY <1>7, <1>0 DEF EsperarReady, En, Ir, InvBase, InvReparto, Tipos, TiposDeHilos,
     TiposDeListas, TiposDeConjuntos, Lineas, Manos, Condenados, Hilos, EnCurso, Vivos,
     Colas, PuntosLargo, PuntosCorto, PuntosConsola, ConExecTo, Transiciones, colas, grados,
     recursos, hiloCorto, hiloConsola
<1>8. CASE Despachar
  <2>1. PICK p \in Pids : p = Head(cola["READY"])
    BY <1>8, ElementosDe DEF Despachar, InvBase, Tipos, TiposDeListas, Colas
  <2>2. p \in ToSet(cola["READY"])
    BY <1>8, <2>1, ElementosDe DEF Despachar, InvBase, Tipos, TiposDeListas, Colas
  <2>3. estado[p] = "READY"
    BY <2>2 DEF InvReparto, Listas, Colas
  <2>4. QED
    BY <1>8, <1>0, <2>1, <2>3 DEF Despachar, En, Ir, mover, InvBase, InvReparto, Tipos,
       TiposDeHilos, TiposDeListas, TiposDeConjuntos, Lineas, Manos, Condenados, Hilos,
       EnCurso, Vivos, Colas, PuntosLargo, PuntosCorto, PuntosConsola, ConExecTo,
       Transiciones, colas, grados, recursos, hiloCorto, hiloConsola
<1>9. ASSUME NEW m \in Motivos, Desalojo(m)
      PROVE  Condenados'
  BY <1>9, <1>0 DEF Desalojo, En, Ir, InvBase, InvReparto, Tipos, TiposDeHilos,
     TiposDeListas, TiposDeConjuntos, Lineas, Manos, Condenados, Hilos, EnCurso, Vivos,
     Colas, PuntosLargo, PuntosCorto, PuntosConsola, ConExecTo, Transiciones, colas, grados,
     recursos, hiloCorto, hiloConsola
<1>10. CASE EsperarExecTo
  BY <1>10, <1>0 DEF EsperarExecTo, En, Ir, InvBase, InvReparto, Tipos, TiposDeHilos,
     TiposDeListas, TiposDeConjuntos, Lineas, Manos, Condenados, Hilos, EnCurso, Vivos,
     Colas, PuntosLargo, PuntosCorto, PuntosConsola, ConExecTo, Transiciones, colas, grados,
     recursos, hiloCorto, hiloConsola
<1>11. CASE ConsultarPendiente
  BY <1>11, <1>0 DEF ConsultarPendiente, En, Ir, InvBase, InvReparto, Tipos, TiposDeHilos,
     TiposDeListas, TiposDeConjuntos, Lineas, Manos, Condenados, Hilos, EnCurso, Vivos,
     Colas, PuntosLargo, PuntosCorto, PuntosConsola, ConExecTo, Transiciones, colas, grados,
     recursos, hiloCorto, hiloConsola
<1>12. CASE TomarDeExec
  <2>1. PICK h \in Pids : h = Head(cola["EXEC"])
    BY <1>12, ElementosDe DEF TomarDeExec, InvBase, Tipos, TiposDeListas, Colas
  <2>2. h \in ToSet(cola["EXEC"])
    BY <1>12, <2>1, ElementosDe DEF TomarDeExec, InvBase, Tipos, TiposDeListas, Colas
  <2>3. estado[h] = "EXEC" /\ ~EnManos(h)
    BY <2>2 DEF InvReparto, Listas, Colas
  <2>4. QED
    BY <1>12, <1>0, <2>1, <2>3 DEF TomarDeExec, En, Ir, InvBase, InvReparto, Tipos,
       TiposDeHilos, TiposDeListas, TiposDeConjuntos, Lineas, Manos, Condenados, Hilos,
       EnCurso, Vivos, Colas, PuntosLargo, PuntosCorto, PuntosConsola, ConExecTo,
       Transiciones, EnManos, colas, grados, recursos, hiloCorto, hiloConsola
<1>13. CASE ManejarSalida
  BY <1>13, <1>0 DEF ManejarSalida, FinManejo, En, Ir, proceso_a, InvBase, InvReparto,
     Tipos, TiposDeHilos, TiposDeListas, TiposDeConjuntos, Lineas, Manos, Condenados, Hilos,
     EnCurso, Vivos, Colas, PuntosLargo, PuntosCorto, PuntosConsola, ConExecTo,
     Transiciones, colas, grados, recursos, hiloCorto, hiloConsola
<1>14. CASE ManejarFinQuantum
  BY <1>14, <1>0 DEF ManejarFinQuantum, FinManejo, En, Ir, proceso_a, InvBase, InvReparto,
     Tipos, TiposDeHilos, TiposDeListas, TiposDeConjuntos, Lineas, Manos, Condenados, Hilos,
     EnCurso, Vivos, Colas, PuntosLargo, PuntosCorto, PuntosConsola, ConExecTo,
     Transiciones, colas, grados, recursos, hiloCorto, hiloConsola
<1>15. CASE ManejarIO
  BY <1>15, <1>0 DEF ManejarIO, FinManejo, En, Ir, proceso_a, InvBase, InvReparto, Tipos,
     TiposDeHilos, TiposDeListas, TiposDeConjuntos, Lineas, Manos, Condenados, Hilos,
     EnCurso, Vivos, Colas, PuntosLargo, PuntosCorto, PuntosConsola, ConExecTo,
     Transiciones, colas, grados, recursos, hiloCorto, hiloConsola
<1>16. CASE ManejarWait
  <2>1. PICK p \in Pids : p = pcb["corto"]
    BY <1>16 DEF ManejarWait, En, InvBase, Lineas, EnCurso
  <2>2. estado[p] = "EXEC"
    BY <1>16, <2>1 DEF ManejarWait, En, InvReparto, Manos, EnCurso
  <2>3. CASE UNCHANGED colas /\ UNCHANGED <<porRecurso, pcb>> /\ Ir("corto", "sigue")
    <3>1. QED
      BY <1>16, <1>0, <2>1, <2>2, <2>3 DEF ManejarWait, En, Ir, InvBase, InvReparto, Tipos,
         TiposDeHilos, TiposDeListas, TiposDeConjuntos, Lineas, Manos, Condenados, Hilos,
         EnCurso, Vivos, Colas, PuntosLargo, PuntosCorto, PuntosConsola, ConExecTo,
         Transiciones, colas, grados, recursos, hiloCorto, hiloConsola
  <2>4. CASE proceso_a(p, "BLOCKED") /\ porRecurso' = porRecurso \cup {p} /\ FinManejo
    <3>1. QED
      BY <1>16, <1>0, <2>1, <2>2, <2>4 DEF ManejarWait, FinManejo, proceso_a, En, Ir, InvBase,
         InvReparto, Tipos, TiposDeHilos, TiposDeListas, TiposDeConjuntos, Lineas, Manos,
         Condenados, Hilos, EnCurso, Vivos, Colas, PuntosLargo, PuntosCorto, PuntosConsola,
         ConExecTo, Transiciones, colas, grados, recursos, hiloCorto, hiloConsola
  <2>5. QED
    BY <1>16, <2>1, <2>3, <2>4 DEF ManejarWait
<1>17. CASE ManejarSignal
  BY <1>17, <1>0 DEF ManejarSignal, desbloquear_si_corresponde, En, Ir, mover, InvBase,
     InvReparto, Tipos, TiposDeHilos, TiposDeListas, TiposDeConjuntos, Lineas, Manos,
     Condenados, Hilos, EnCurso, Vivos, Colas, PuntosLargo, PuntosCorto, PuntosConsola,
     ConExecTo, Transiciones, colas, grados, recursos, hiloCorto, hiloConsola
<1>18. CASE SeguirEjecutando
  BY <1>18, <1>0 DEF SeguirEjecutando, En, Ir, proceso_a, InvBase, InvReparto, Tipos,
     TiposDeHilos, TiposDeListas, TiposDeConjuntos, Lineas, Manos, Condenados, Hilos,
     EnCurso, Vivos, Colas, PuntosLargo, PuntosCorto, PuntosConsola, ConExecTo,
     Transiciones, colas, grados, recursos, hiloCorto, hiloConsola
<1>19. ASSUME NEW p \in Pids, FinIO(p)
      PROVE  Condenados'
  BY <1>19, <1>0 DEF FinIO, mover, InvBase, InvReparto, Tipos, TiposDeHilos, TiposDeListas,
     TiposDeConjuntos, Lineas, Manos, Condenados, Hilos, EnCurso, Vivos, Colas, PuntosLargo,
     PuntosCorto, PuntosConsola, ConExecTo, Transiciones, colas, grados, recursos,
     hiloCorto, hiloConsola
<1>20. CASE TomarDeExit
  <2>1. PICK h \in Pids : h = Head(cola["EXIT"])
    BY <1>20, ElementosDe DEF TomarDeExit, InvBase, Tipos, TiposDeListas, Colas
  <2>2. h \in ToSet(cola["EXIT"])
    BY <1>20, <2>1, ElementosDe DEF TomarDeExit, InvBase, Tipos, TiposDeListas, Colas
  <2>3. estado[h] = "EXIT" /\ ~EnManos(h)
    BY <2>2 DEF InvReparto, Listas, Colas
  <2>4. QED
    BY <1>20, <1>0, <2>1, <2>3 DEF TomarDeExit, En, Ir, InvBase, InvReparto, Tipos,
       TiposDeHilos, TiposDeListas, TiposDeConjuntos, Lineas, Manos, Condenados, Hilos,
       EnCurso, Vivos, Colas, PuntosLargo, PuntosCorto, PuntosConsola, ConExecTo,
       Transiciones, colas, grados, recursos, hiloCorto, hiloConsola
<1>21. CASE liberar_recurso
  BY <1>21, <1>0 DEF liberar_recurso, desbloquear_si_corresponde, En, mover, InvBase,
     InvReparto, Tipos, TiposDeHilos, TiposDeListas, TiposDeConjuntos, Lineas, Manos,
     Condenados, Hilos, EnCurso, Vivos, Colas, PuntosLargo, PuntosCorto, PuntosConsola,
     ConExecTo, Transiciones, colas, grados, recursos, hiloCorto, hiloConsola
<1>22. CASE eliminar_pcb
  BY <1>22, <1>0 DEF eliminar_pcb, En, Ir, InvBase, InvReparto, Tipos, TiposDeHilos,
     TiposDeListas, TiposDeConjuntos, Lineas, Manos, Condenados, Hilos, EnCurso, Vivos,
     Colas, PuntosLargo, PuntosCorto, PuntosConsola, ConExecTo, Transiciones, colas, grados,
     recursos, hiloCorto, hiloConsola
<1>23. CASE iniciar_planificacion \/ DETENER_PLANIFICACION \/ FinDetener \/ ReducirGrado \/
           MirarCola \/ EsperarControl \/ EsperarGrado \/ EsperarNew \/ (\E p \in Pids :
           FINALIZAR_PROCESO(p)) \/ (\E t \in Transiciones : TomarTransicion(t)) \/ (\E n
           \in Grados : cambiar_grado_multiprogramacion_a(n)) \/ UNCHANGED vars
  BY <1>23, <1>0 DEF vars, iniciar_planificacion, En, DETENER_PLANIFICACION,
     detener_planificacion, Ir, FINALIZAR_PROCESO, TomarTransicion, FinDetener,
     cambiar_grado_multiprogramacion_a, ReducirGrado, MirarCola, SeguirRastreo,
     EsperarControl, EsperarGrado, EsperarNew, InvBase, InvReparto, Tipos, TiposDeHilos,
     TiposDeListas, TiposDeConjuntos, Lineas, Manos, Condenados, Hilos, EnCurso, Vivos,
     Colas, PuntosLargo, PuntosCorto, PuntosConsola, ConExecTo, Transiciones, colas, grados,
     recursos, hiloCorto, hiloConsola
<1>24. QED
  BY <1>1, <1>2, <1>3, <1>4, <1>5, <1>6, <1>7, <1>8, <1>9, <1>10, <1>11, <1>12, <1>13,
     <1>14, <1>15, <1>16, <1>17, <1>18, <1>19, <1>20, <1>21, <1>22, <1>23 DEF Next,
     PasoConsola, PasoLargo, PasoCorto, PasoInterfaz, PasoExit

(* The search of the console. *)
LEMMA BusquedaPaso ==
  ASSUME InvBase, SinExceso, InvReparto, [Next]_vars
  PROVE  Busqueda'
<1>0. linea["consola"] \in {"mira", "espera", "agrega", "reanuda"} =>
        (\A t \in Transiciones : plan[t] = 0) /\ linea["largo"] # "memoria"
          /\ linea["corto"] \notin ConExecTo
  BY Excluidos DEF InvBase
<1>a. \A k \in 1..4 : Rastreo[k] \in Colas \ {"EXIT"}
  BY DEF Rastreo, Colas
<1>1. ASSUME NEW p \in Pids, iniciar_proceso(p)
      PROVE  Busqueda'
  BY <1>1, <1>0, <1>a DEF iniciar_proceso, En, proceso_a, Busqueda, InvBase, InvReparto,
     Tipos, TiposDeHilos, TiposDeListas, Lineas, Hilos, EnCurso, ConExecTo, Transiciones,
     colas, grados, recursos, hiloCorto, hiloConsola
<1>2. CASE DETENER_PLANIFICACION
  BY <1>2, <1>0, <1>a DEF DETENER_PLANIFICACION, detener_planificacion, En, Ir, Busqueda,
     InvBase, InvReparto, Tipos, TiposDeHilos, TiposDeListas, Lineas, Hilos, EnCurso,
     ConExecTo, Transiciones, colas, grados, recursos, hiloCorto, hiloConsola
<1>3. ASSUME NEW p \in Pids, FINALIZAR_PROCESO(p)
      PROVE  Busqueda'
  BY <1>3, <1>0, <1>a DEF FINALIZAR_PROCESO, detener_planificacion, En, Ir, Busqueda,
     InvBase, InvReparto, Tipos, TiposDeHilos, TiposDeListas, Lineas, Hilos, EnCurso,
     ConExecTo, Transiciones, colas, grados, recursos, hiloCorto, hiloConsola
<1>4. CASE FinDetener
  BY <1>4, <1>0, <1>a DEF FinDetener, En, Ir, Busqueda, InvBase, InvReparto, Tipos,
     TiposDeHilos, TiposDeListas, Lineas, Hilos, EnCurso, ConExecTo, Transiciones, colas,
     grados, recursos, hiloCorto, hiloConsola
<1>5. ASSUME NEW n \in Grados, cambiar_grado_multiprogramacion_a(n)
      PROVE  Busqueda'
  BY <1>5, <1>0, <1>a DEF cambiar_grado_multiprogramacion_a, En, Ir, Busqueda, InvBase,
     InvReparto, Tipos, TiposDeHilos, TiposDeListas, Lineas, Hilos, EnCurso, ConExecTo,
     Transiciones, colas, grados, recursos, hiloCorto, hiloConsola
<1>6. CASE ReducirGrado
  BY <1>6, <1>0, <1>a DEF ReducirGrado, En, Ir, Busqueda, InvBase, InvReparto, Tipos,
     TiposDeHilos, TiposDeListas, Lineas, Hilos, EnCurso, ConExecTo, Transiciones, colas,
     grados, recursos, hiloCorto, hiloConsola
<1>7. CASE MirarCola
  <2>1. UNCHANGED <<cola, pcb>> /\ linea["consola"] = "mira"
    BY <1>7 DEF MirarCola, En, colas
  <2>2. CASE linea'["consola"] \notin {"mira", "espera"} \/ paso' = paso
    BY <2>1, <2>2 DEF Busqueda, InvReparto
  <2>3. CASE paso' = paso + 1 /\ cola[Rastreo[paso]] = <<>>
    <3>1. ToSet(cola[Rastreo[paso]]) = {}
      BY <2>3, ElementosDe DEF ToSet
    <3>2. \A k \in 1..paso - 1 : pcb["consola"] \notin ToSet(cola[Rastreo[k]])
      BY <2>1 DEF Busqueda, InvReparto
    <3>3. paso \in Int
      BY DEF InvBase, Tipos, TiposDeHilos
    <3>4. QED
      BY <2>1, <2>3, <3>1, <3>2, <3>3 DEF Busqueda
  <2>4. QED
    BY <1>7, <2>2, <2>3 DEF MirarCola, SeguirRastreo, Ir, InvBase, Tipos, TiposDeHilos, Hilos
<1>8. CASE DesencolarPorPid
  <2> DEFINE c == Rastreo[paso]
  <2>1. UNCHANGED pcb /\ linea["consola"] = "espera" /\ cola[c] \in Seq(Pids)
    BY <1>8, <1>a DEF DesencolarPorPid, En, InvBase, Tipos, TiposDeHilos, TiposDeListas
  <2>2. CASE Contiene(cola[c], pcb["consola"])
    BY <1>8, <2>2 DEF DesencolarPorPid, Ir, Busqueda, InvBase, Tipos, TiposDeHilos, Hilos
  <2>3. CASE ~Contiene(cola[c], pcb["consola"])
    <3>1. pcb["consola"] \notin ToSet(cola[c]) /\ cola' = cola
      BY <1>8, <2>1, <2>3, ContieneEs DEF DesencolarPorPid
    <3>2. \A k \in 1..paso - 1 : pcb["consola"] \notin ToSet(cola[Rastreo[k]])
      BY <2>1 DEF Busqueda, InvReparto
    <3>3. paso \in Int
      BY DEF InvBase, Tipos, TiposDeHilos
    <3>4. \/ paso' = paso + 1
          \/ linea'["consola"] = "reanuda"
      BY <1>8, <2>3 DEF DesencolarPorPid, SeguirRastreo, Ir, InvBase, Tipos, TiposDeHilos, Hilos
    <3>5. QED
      BY <2>1, <3>1, <3>2, <3>3, <3>4 DEF Busqueda
  <2>4. QED
    BY <2>2, <2>3
<1>9. CASE AgregarAFinalizar
  BY <1>9, <1>0, <1>a DEF AgregarAFinalizar, En, Ir, proceso_a, Busqueda, InvBase,
     InvReparto, Tipos, TiposDeHilos, TiposDeListas, Lineas, Hilos, EnCurso, ConExecTo,
     Transiciones, colas, grados, recursos, hiloCorto, hiloConsola
<1>10. CASE Reanudar
  BY <1>10, <1>0, <1>a DEF Reanudar, En, Ir, Busqueda, InvBase, InvReparto, Tipos,
     TiposDeHilos, TiposDeListas, Lineas, Hilos, EnCurso, ConExecTo, Transiciones, colas,
     grados, recursos, hiloCorto, hiloConsola
<1>11. CASE TomarDeNew
  BY <1>11, <1>0, <1>a DEF TomarDeNew, En, Ir, Busqueda, InvBase, InvReparto, Tipos,
     TiposDeHilos, TiposDeListas, Lineas, Hilos, EnCurso, ConExecTo, Transiciones, colas,
     grados, recursos, hiloCorto, hiloConsola
<1>12. CASE RespuestaMemoria
  BY <1>12, <1>0, <1>a DEF RespuestaMemoria, En, Ir, proceso_a, Busqueda, InvBase,
     InvReparto, Tipos, TiposDeHilos, TiposDeListas, Lineas, Hilos, EnCurso, ConExecTo,
     Transiciones, colas, grados, recursos, hiloCorto, hiloConsola
<1>13. CASE Despachar
  BY <1>13, <1>0, <1>a DEF Despachar, En, Ir, mover, Busqueda, InvBase, InvReparto, Tipos,
     TiposDeHilos, TiposDeListas, Lineas, Hilos, EnCurso, ConExecTo, Transiciones, colas,
     grados, recursos, hiloCorto, hiloConsola
<1>14. CASE TomarDeExec
  BY <1>14, <1>0, <1>a DEF TomarDeExec, En, Ir, Busqueda, InvBase, InvReparto, Tipos,
     TiposDeHilos, TiposDeListas, Lineas, Hilos, EnCurso, ConExecTo, Transiciones, colas,
     grados, recursos, hiloCorto, hiloConsola
<1>15. CASE ManejarSalida
  BY <1>15, <1>0, <1>a DEF ManejarSalida, FinManejo, En, Ir, proceso_a, Busqueda, InvBase,
     InvReparto, Tipos, TiposDeHilos, TiposDeListas, Lineas, Hilos, EnCurso, ConExecTo,
     Transiciones, colas, grados, recursos, hiloCorto, hiloConsola
<1>16. CASE ManejarFinQuantum
  BY <1>16, <1>0, <1>a DEF ManejarFinQuantum, FinManejo, En, Ir, proceso_a, Busqueda,
     InvBase, InvReparto, Tipos, TiposDeHilos, TiposDeListas, Lineas, Hilos, EnCurso,
     ConExecTo, Transiciones, colas, grados, recursos, hiloCorto, hiloConsola
<1>17. CASE ManejarIO
  BY <1>17, <1>0, <1>a DEF ManejarIO, FinManejo, En, Ir, proceso_a, Busqueda, InvBase,
     InvReparto, Tipos, TiposDeHilos, TiposDeListas, Lineas, Hilos, EnCurso, ConExecTo,
     Transiciones, colas, grados, recursos, hiloCorto, hiloConsola
<1>18. CASE ManejarWait
  BY <1>18, <1>0, <1>a DEF ManejarWait, FinManejo, En, Ir, proceso_a, Busqueda, InvBase,
     InvReparto, Tipos, TiposDeHilos, TiposDeListas, Lineas, Hilos, EnCurso, ConExecTo,
     Transiciones, colas, grados, recursos, hiloCorto, hiloConsola
<1>19. CASE ManejarSignal
  BY <1>19, <1>0, <1>a DEF ManejarSignal, desbloquear_si_corresponde, En, Ir, mover,
     Busqueda, InvBase, InvReparto, Tipos, TiposDeHilos, TiposDeListas, Lineas, Hilos,
     EnCurso, ConExecTo, Transiciones, colas, grados, recursos, hiloCorto, hiloConsola
<1>20. CASE SeguirEjecutando
  BY <1>20, <1>0, <1>a DEF SeguirEjecutando, En, Ir, proceso_a, Busqueda, InvBase,
     InvReparto, Tipos, TiposDeHilos, TiposDeListas, Lineas, Hilos, EnCurso, ConExecTo,
     Transiciones, colas, grados, recursos, hiloCorto, hiloConsola
<1>21. ASSUME NEW p \in Pids, FinIO(p)
      PROVE  Busqueda'
  BY <1>21, <1>0, <1>a DEF FinIO, mover, Busqueda, InvBase, InvReparto, Tipos, TiposDeHilos,
     TiposDeListas, Lineas, Hilos, EnCurso, ConExecTo, Transiciones, colas, grados,
     recursos, hiloCorto, hiloConsola
<1>22. CASE TomarDeExit
  <2>1. UNCHANGED paso /\ linea'["consola"] = linea["consola"] /\ pcb'["consola"] = pcb["consola"]
    BY <1>22 DEF TomarDeExit, Ir, InvBase, Tipos, TiposDeHilos, Hilos, hiloConsola
  <2>2. \A c \in Colas \ {"EXIT"} : cola'[c] = cola[c]
    BY <1>22 DEF TomarDeExit, InvBase, Tipos, TiposDeListas
  <2>3. paso \in 1..4
    BY DEF InvBase, Tipos, TiposDeHilos
  <2>4. QED
    BY <1>a, <2>1, <2>2, <2>3 DEF Busqueda, InvReparto
<1>23. CASE liberar_recurso
  BY <1>23, <1>0, <1>a DEF liberar_recurso, desbloquear_si_corresponde, En, mover, Busqueda,
     InvBase, InvReparto, Tipos, TiposDeHilos, TiposDeListas, Lineas, Hilos, EnCurso,
     ConExecTo, Transiciones, colas, grados, recursos, hiloCorto, hiloConsola
<1>24. CASE iniciar_planificacion \/ EsperarControl \/ EsperarGrado \/ EsperarNew \/
           EsperarReady \/ EsperarExecTo \/ ConsultarPendiente \/ eliminar_pcb \/ (\E t \in
           Transiciones : TomarTransicion(t)) \/ (\E m \in Motivos : Desalojo(m)) \/
           UNCHANGED vars
  BY <1>24, <1>0, <1>a DEF vars, iniciar_planificacion, En, TomarTransicion, EsperarControl,
     Ir, EsperarGrado, EsperarNew, EsperarReady, Desalojo, EsperarExecTo,
     ConsultarPendiente, eliminar_pcb, Busqueda, InvBase, InvReparto, Tipos, TiposDeHilos,
     TiposDeListas, Lineas, Hilos, EnCurso, ConExecTo, Transiciones, colas, grados,
     recursos, hiloCorto, hiloConsola
<1>25. QED
  BY <1>1, <1>2, <1>3, <1>4, <1>5, <1>6, <1>7, <1>8, <1>9, <1>10, <1>11, <1>12, <1>13,
     <1>14, <1>15, <1>16, <1>17, <1>18, <1>19, <1>20, <1>21, <1>22, <1>23, <1>24 DEF Next,
     PasoConsola, PasoLargo, PasoCorto, PasoInterfaz, PasoExit

(* Neither the lists, nor their semaphores, nor the promises change. *)
LEMMA SemaforosIgual ==
  ASSUME SemaforosCoherentes, UNCHANGED <<cola, semEstado>>,
         \A c \in Colas : Prometidos(c)' = Prometidos(c)
  PROVE  SemaforosCoherentes'
  BY DEF SemaforosCoherentes

(* A process goes to a list, with its post. *)
LEMMA SemaforosTrasProcesoA ==
  ASSUME Tipos, SemaforosCoherentes, NEW p \in Pids, NEW c \in Colas, proceso_a(p, c),
         \A d \in Colas : Prometidos(d)' = Prometidos(d)
  PROVE  SemaforosCoherentes'
<1>1. TiposDeListas' /\ \A d \in Colas :
        Len(cola'[d]) - semEstado'[d] = Len(cola[d]) - semEstado[d]
  BY TrasProcesoA DEF Tipos
<1>2. ASSUME NEW d \in Colas
      PROVE  Len(cola'[d]) = semEstado'[d] + Prometidos(d)'
  <2>1. /\ Len(cola[d]) \in Nat /\ Len(cola'[d]) \in Nat
        /\ semEstado[d] \in Nat /\ semEstado'[d] \in Nat
    BY <1>1, ElementosDe DEF Tipos, TiposDeListas
  <2>2. Prometidos(d) \in {0, 1} /\ Prometidos(d)' = Prometidos(d)
    BY DEF Prometidos
  <2>3. QED
    BY <1>1, <2>1, <2>2 DEF SemaforosCoherentes
<1>3. QED
  BY <1>2 DEF SemaforosCoherentes

(* A process goes from its list to another one, with the token of the list *)
(* that it leaves or with the one that was taken before.                   *)
LEMMA SemaforosTrasMover ==
  ASSUME Tipos, Listas, SemaforosCoherentes, NEW p \in Pids, NEW de \in Colas,
         NEW c \in Colas \ {de}, NEW token \in {0, 1}, mover(p, de, c, token),
         p \in ToSet(cola[de]), p \notin ToSet(cola[c]),
         \A d \in Colas \ {de} : Prometidos(d)' = Prometidos(d),
         Prometidos(de)' = Prometidos(de) - 1 + token
  PROVE  SemaforosCoherentes'
<1>1. /\ TiposDeListas'
      /\ \A d \in Colas \ {de, c} : cola'[d] = cola[d] /\ semEstado'[d] = semEstado[d]
      /\ semEstado'[de] = semEstado[de] - token /\ semEstado'[c] = semEstado[c] + 1
  BY MoverTipo DEF Tipos
<1>2. Distintos(cola[de]) /\ Distintos(cola[c]) /\ TiposDeListas
  BY DEF Listas, Tipos
<1>3. Len(cola'[de]) = Len(cola[de]) - 1 /\ Len(cola'[c]) = Len(cola[c]) + 1
  BY <1>2, TrasMover
<1>4. ASSUME NEW d \in Colas
      PROVE  Len(cola'[d]) = semEstado'[d] + Prometidos(d)'
  <2>1. /\ Len(cola[d]) \in Nat /\ Len(cola'[d]) \in Nat
        /\ semEstado[d] \in Nat /\ semEstado'[d] \in Nat
    BY <1>1, ElementosDe DEF Tipos, TiposDeListas
  <2>2. Prometidos(d) \in {0, 1} /\ Len(cola[d]) = semEstado[d] + Prometidos(d)
    BY DEF Prometidos, SemaforosCoherentes
  <2>3. CASE d = de
    BY <1>1, <1>3, <2>1, <2>2, <2>3
  <2>4. CASE d = c
    BY <1>1, <1>3, <2>1, <2>2, <2>4
  <2>5. CASE d \notin {de, c}
    BY <1>1, <2>1, <2>2, <2>5
  <2>6. QED
    BY <2>3, <2>4, <2>5
<1>5. QED
  BY <1>4 DEF SemaforosCoherentes

(* A thread takes a process out of a list. *)
LEMMA SemaforosTrasSacar ==
  ASSUME Tipos, TiposDeListas', SemaforosCoherentes, NEW c \in Colas, NEW s,
         cola' = [cola EXCEPT ![c] = s], Len(s) = Len(cola[c]) - 1,
         semEstado'[c] - semEstado[c] = Prometidos(c) - Prometidos(c)' - 1,
         \A d \in Colas \ {c} : semEstado'[d] = semEstado[d] /\ Prometidos(d)' = Prometidos(d)
  PROVE  SemaforosCoherentes'
<1>1. cola'[c] = s /\ \A d \in Colas \ {c} : cola'[d] = cola[d]
  BY DEF Tipos, TiposDeListas
<1>2. ASSUME NEW d \in Colas
      PROVE  Len(cola'[d]) = semEstado'[d] + Prometidos(d)'
  <2>1. /\ Len(cola[d]) \in Nat /\ Len(cola'[d]) \in Nat
        /\ semEstado[d] \in Nat /\ semEstado'[d] \in Nat
    BY ElementosDe DEF Tipos, TiposDeListas
  <2>2. /\ Prometidos(d) \in {0, 1} /\ Prometidos(d)' \in {0, 1}
        /\ Len(cola[d]) = semEstado[d] + Prometidos(d)
    BY DEF Prometidos, SemaforosCoherentes
  <2>3. CASE d = c
    BY <1>1, <2>1, <2>2, <2>3
  <2>4. CASE d # c
    BY <1>1, <2>1, <2>2, <2>4
  <2>5. QED
    BY <2>3, <2>4
<1>3. QED
  BY <1>2 DEF SemaforosCoherentes

(* The lists and their semaphores. *)
LEMMA SemaforosPaso ==
  ASSUME InvBase, SinExceso, InvReparto, [Next]_vars
  PROVE  SemaforosCoherentes'
<1>0. TiposDeListas'
  BY TiposDeListasPaso DEF InvBase
<1>b. linea["consola"] \in {"mira", "espera", "agrega", "reanuda"} =>
        (\A t \in Transiciones : plan[t] = 0) /\ linea["largo"] # "memoria"
          /\ linea["corto"] \notin ConExecTo
  BY Excluidos DEF InvBase
<1>1. ASSUME NEW p \in Pids, iniciar_proceso(p)
      PROVE  SemaforosCoherentes'
  <2>2. proceso_a(p, "NEW")
    BY <1>1 DEF iniciar_proceso, En
  <2>3. \A c \in Colas : Prometidos(c)' = Prometidos(c)
    BY <1>1 DEF iniciar_proceso, En, Prometidos, Ir, InvBase, Tipos, TiposDeHilos,
       TiposDeListas, TiposDeConjuntos, Lineas, Hilos, EnCurso, Colas
  <2>4. QED
    BY <2>2, <2>3, SemaforosTrasProcesoA DEF InvBase, InvReparto, Colas
<1>2. CASE DesencolarPorPid
  <2>1. PICK p \in Pids, c \in Colas : p = pcb["consola"] /\ c = Rastreo[paso]
    BY <1>2 DEF DesencolarPorPid, En, InvBase, Lineas, Tipos, TiposDeHilos, Rastreo, Colas
  <2> DEFINE s == Sin(cola[c], p)
  <2>2. \A d \in Colas : Prometidos(d)' = Prometidos(d)
    BY <1>2 DEF DesencolarPorPid, SeguirRastreo, Prometidos, En, Ir, InvBase, Tipos,
       TiposDeHilos, TiposDeListas, TiposDeConjuntos, Lineas, Hilos, EnCurso, Colas
  <2>3. CASE Contiene(cola[c], p)
    <3>1. cola[c] \in Seq(Pids) /\ semEstado[c] \in Nat
      BY DEF InvBase, Tipos, TiposDeListas
    <3>2. Len(s) = Len(cola[c]) - 1
      BY <2>3, <3>1, ContieneEs, SinUno
    <3>3. /\ cola' = [cola EXCEPT ![c] = s] /\ semEstado'[c] = semEstado[c] - 1
          /\ \A d \in Colas \ {c} : semEstado'[d] = semEstado[d]
      BY <1>2, <2>1, <2>3 DEF DesencolarPorPid, InvBase, Tipos, TiposDeListas
    <3>4. Prometidos(c) \in {0, 1} /\ Prometidos(c)' = Prometidos(c)
      BY <2>2 DEF Prometidos
    <3>5. semEstado'[c] - semEstado[c] = Prometidos(c) - Prometidos(c)' - 1
      BY <3>1, <3>3, <3>4
    <3> HIDE DEF s
    <3>6. QED
      BY <1>0, <2>2, <3>2, <3>3, <3>5, SemaforosTrasSacar DEF InvBase, InvReparto
  <2>4. CASE ~Contiene(cola[c], p)
    <3>1. UNCHANGED <<cola, semEstado>>
      BY <1>2, <2>1, <2>4 DEF DesencolarPorPid
    <3>2. QED
      BY <2>2, <3>1, SemaforosIgual DEF InvReparto
  <2>5. QED
    BY <2>3, <2>4
<1>3. CASE AgregarAFinalizar
  <2>1. PICK p \in Pids : p = pcb["consola"]
    BY <1>3 DEF AgregarAFinalizar, En, InvBase, Lineas, EnCurso
  <2>2. \A c \in Colas : Prometidos(c)' = Prometidos(c)
    BY <1>3 DEF AgregarAFinalizar, En, Ir, Prometidos, InvBase, Tipos, TiposDeHilos,
       TiposDeListas, TiposDeConjuntos, Lineas, Hilos, EnCurso, Colas
  <2>3. CASE UNCHANGED colas
    BY <2>2, <2>3, SemaforosIgual DEF colas, InvReparto
  <2>4. CASE proceso_a(p, "EXIT")
    BY <2>2, <2>4, SemaforosTrasProcesoA DEF InvBase, InvReparto, Colas
  <2>5. QED
    BY <1>3, <2>1, <2>3, <2>4 DEF AgregarAFinalizar
<1>4. CASE EsperarNew
  <2>1. cola' = cola /\ \A c \in Colas : semEstado'[c] + Prometidos(c)' = semEstado[c] +
       Prometidos(c)
    BY <1>4 DEF EsperarNew, Prometidos, En, Ir, InvBase, Tipos, TiposDeHilos, TiposDeListas,
       TiposDeConjuntos, Lineas, Hilos, EnCurso, Colas
  <2>2. QED
    BY <2>1 DEF SemaforosCoherentes, InvReparto
<1>5. CASE TomarDeNew
  <2> DEFINE s == Tail(cola["NEW"])
  <2>1. cola["NEW"] \in Seq(Pids) /\ cola["NEW"] # <<>>
    BY <1>5 DEF TomarDeNew, InvBase, Tipos, TiposDeListas, Colas
  <2>2. Len(s) = Len(cola["NEW"]) - 1
    BY <2>1, ElementosSinElPrimero
  <2>3. cola' = [cola EXCEPT !["NEW"] = s]
    BY <1>5 DEF TomarDeNew
  <2> HIDE DEF s
  <2>4. semEstado'["NEW"] - semEstado["NEW"] = Prometidos("NEW") - Prometidos("NEW")' - 1
    BY <1>5 DEF TomarDeNew, Prometidos, En, Ir, InvBase, Tipos, TiposDeHilos, TiposDeListas,
       TiposDeConjuntos, Lineas, Hilos, EnCurso, Colas
  <2>5. \A d \in Colas \ {"NEW"} : semEstado'[d] = semEstado[d] /\ Prometidos(d)' =
       Prometidos(d)
    BY <1>5 DEF TomarDeNew, Prometidos, En, Ir, InvBase, Tipos, TiposDeHilos, TiposDeListas,
       TiposDeConjuntos, Lineas, Hilos, EnCurso, Colas
  <2>6. QED
    BY <1>0, <2>2, <2>3, <2>4, <2>5, SemaforosTrasSacar DEF InvBase, InvReparto, Colas
<1>6. CASE RespuestaMemoria
  <2>1. PICK p \in Pids : p = pcb["largo"]
    BY <1>6 DEF RespuestaMemoria, En, InvBase, Lineas, EnCurso
  <2>2. \A c \in Colas : Prometidos(c)' = Prometidos(c)
    BY <1>6 DEF RespuestaMemoria, En, Ir, Prometidos, InvBase, Tipos, TiposDeHilos,
       TiposDeListas, TiposDeConjuntos, Lineas, Hilos, EnCurso, Colas
  <2>3. PICK c \in {"READY", "EXIT"} : proceso_a(p, c)
    BY <1>6, <2>1 DEF RespuestaMemoria
  <2>4. QED
    BY <2>2, <2>3, SemaforosTrasProcesoA DEF InvBase, InvReparto, Colas
<1>7. CASE EsperarReady
  <2>1. cola' = cola /\ \A c \in Colas : semEstado'[c] + Prometidos(c)' = semEstado[c] +
       Prometidos(c)
    BY <1>7 DEF EsperarReady, Prometidos, En, Ir, InvBase, Tipos, TiposDeHilos, TiposDeListas,
       TiposDeConjuntos, Lineas, Hilos, EnCurso, Colas
  <2>2. QED
    BY <2>1 DEF SemaforosCoherentes, InvReparto
<1>8. CASE Despachar
  <2>1. PICK p \in Pids : p = Head(cola["READY"])
    BY <1>8, ElementosDe DEF Despachar, InvBase, Tipos, TiposDeListas, Colas
  <2>2. p \in ToSet(cola["READY"])
    BY <1>8, <2>1, ElementosDe DEF Despachar, InvBase, Tipos, TiposDeListas, Colas
  <2>3. mover(p, "READY", "EXEC", 0) /\ p \notin ToSet(cola["EXEC"])
    BY <1>8, <2>1, <2>2 DEF Despachar, InvReparto, Listas, Colas
  <2>4. Prometidos("READY")' = Prometidos("READY") - 1 + 0 /\ \A d \in Colas \ {"READY"} :
       Prometidos(d)' = Prometidos(d)
    BY <1>8 DEF Despachar, Prometidos, En, Ir, InvBase, Tipos, TiposDeHilos, TiposDeListas,
       TiposDeConjuntos, Lineas, Hilos, EnCurso, Colas
  <2>5. QED
    BY <2>2, <2>3, <2>4, SemaforosTrasMover DEF InvBase, InvReparto, Colas
<1>9. CASE TomarDeExec
  <2> DEFINE s == Tail(cola["EXEC"])
  <2>1. cola["EXEC"] \in Seq(Pids) /\ cola["EXEC"] # <<>>
    BY <1>9 DEF TomarDeExec, InvBase, Tipos, TiposDeListas, Colas
  <2>2. Len(s) = Len(cola["EXEC"]) - 1
    BY <2>1, ElementosSinElPrimero
  <2>3. cola' = [cola EXCEPT !["EXEC"] = s]
    BY <1>9 DEF TomarDeExec
  <2> HIDE DEF s
  <2>4. semEstado'["EXEC"] - semEstado["EXEC"] = Prometidos("EXEC") - Prometidos("EXEC")' -
       1
    BY <1>9 DEF TomarDeExec, Prometidos, En, Ir, InvBase, Tipos, TiposDeHilos, TiposDeListas,
       TiposDeConjuntos, Lineas, Hilos, EnCurso, Colas
  <2>5. \A d \in Colas \ {"EXEC"} : semEstado'[d] = semEstado[d] /\ Prometidos(d)' =
       Prometidos(d)
    BY <1>9 DEF TomarDeExec, Prometidos, En, Ir, InvBase, Tipos, TiposDeHilos, TiposDeListas,
       TiposDeConjuntos, Lineas, Hilos, EnCurso, Colas
  <2>6. QED
    BY <1>0, <2>2, <2>3, <2>4, <2>5, SemaforosTrasSacar DEF InvBase, InvReparto, Colas
<1>10. CASE ManejarSalida
  <2>1. PICK p \in Pids : p = pcb["corto"]
    BY <1>10 DEF ManejarSalida, En, InvBase, Lineas, EnCurso
  <2>2. proceso_a(p, "EXIT")
    BY <1>10, <2>1 DEF ManejarSalida, FinManejo, En, Ir
  <2>3. \A c \in Colas : Prometidos(c)' = Prometidos(c)
    BY <1>10 DEF ManejarSalida, FinManejo, En, Ir, Prometidos, InvBase, Tipos, TiposDeHilos,
       TiposDeListas, TiposDeConjuntos, Lineas, Hilos, EnCurso, Colas
  <2>4. QED
    BY <2>2, <2>3, SemaforosTrasProcesoA DEF InvBase, InvReparto, Colas
<1>11. CASE ManejarFinQuantum
  <2>1. PICK p \in Pids : p = pcb["corto"]
    BY <1>11 DEF ManejarFinQuantum, En, InvBase, Lineas, EnCurso
  <2>2. proceso_a(p, "READY")
    BY <1>11, <2>1 DEF ManejarFinQuantum, FinManejo, En, Ir
  <2>3. \A c \in Colas : Prometidos(c)' = Prometidos(c)
    BY <1>11 DEF ManejarFinQuantum, FinManejo, En, Ir, Prometidos, InvBase, Tipos,
       TiposDeHilos, TiposDeListas, TiposDeConjuntos, Lineas, Hilos, EnCurso, Colas
  <2>4. QED
    BY <2>2, <2>3, SemaforosTrasProcesoA DEF InvBase, InvReparto, Colas
<1>12. CASE ManejarIO
  <2>1. PICK p \in Pids : p = pcb["corto"]
    BY <1>12 DEF ManejarIO, En, InvBase, Lineas, EnCurso
  <2>2. proceso_a(p, "BLOCKED")
    BY <1>12, <2>1 DEF ManejarIO, FinManejo, En, Ir
  <2>3. \A c \in Colas : Prometidos(c)' = Prometidos(c)
    BY <1>12 DEF ManejarIO, FinManejo, En, Ir, Prometidos, InvBase, Tipos, TiposDeHilos,
       TiposDeListas, TiposDeConjuntos, Lineas, Hilos, EnCurso, Colas
  <2>4. QED
    BY <2>2, <2>3, SemaforosTrasProcesoA DEF InvBase, InvReparto, Colas
<1>13. CASE ManejarWait
  <2>1. PICK p \in Pids : p = pcb["corto"]
    BY <1>13 DEF ManejarWait, En, InvBase, Lineas, EnCurso
  <2>2. \A c \in Colas : Prometidos(c)' = Prometidos(c)
    BY <1>13 DEF ManejarWait, FinManejo, En, Ir, Prometidos, InvBase, Tipos, TiposDeHilos,
       TiposDeListas, TiposDeConjuntos, Lineas, Hilos, EnCurso, Colas
  <2>3. CASE UNCHANGED colas
    BY <2>2, <2>3, SemaforosIgual DEF colas, InvReparto
  <2>4. CASE proceso_a(p, "BLOCKED")
    BY <2>2, <2>4, SemaforosTrasProcesoA DEF InvBase, InvReparto, Colas
  <2>5. QED
    BY <1>13, <2>1, <2>3, <2>4 DEF ManejarWait
<1>14. CASE ManejarSignal
  <2>1. \A c \in Colas : Prometidos(c)' = Prometidos(c)
    BY <1>14 DEF ManejarSignal, En, Ir, Prometidos, InvBase, Tipos, TiposDeHilos,
       TiposDeListas, TiposDeConjuntos, Lineas, Hilos, EnCurso, Colas
  <2>2. CASE UNCHANGED colas
    BY <2>1, <2>2, SemaforosIgual DEF colas, InvReparto
  <2>3. ASSUME NEW w \in porRecurso, mover(w, "BLOCKED", "READY", 1)
        PROVE  SemaforosCoherentes'
    <3>1. w \in Pids /\ estado[w] = "BLOCKED" /\ ~EnManos(w)
      BY <1>14, <1>b DEF ManejarSignal, En, TiposDeConjuntos, EnManos, InvBase, InvReparto,
         Tipos, TiposDeHilos, TiposDeListas, Lineas, Manos, Condenados, Hilos, EnCurso,
         Vivos, Colas, PuntosLargo, PuntosCorto, PuntosConsola, ConExecTo, Transiciones
    <3>2. w \in ToSet(cola["BLOCKED"]) /\ w \notin ToSet(cola["READY"])
      BY <3>1 DEF InvReparto, Listas, Colas
    <3>3. Prometidos("BLOCKED")' = Prometidos("BLOCKED") - 1 + 1
      BY <2>1 DEF Prometidos, Colas
    <3>4. QED
      BY <2>1, <2>3, <3>1, <3>2, <3>3, SemaforosTrasMover DEF InvBase, InvReparto, Colas
  <2>4. QED
    BY <1>14, <2>2, <2>3 DEF ManejarSignal, desbloquear_si_corresponde
<1>15. CASE SeguirEjecutando
  <2>1. PICK p \in Pids : p = pcb["corto"]
    BY <1>15 DEF SeguirEjecutando, En, InvBase, Lineas, EnCurso
  <2>2. proceso_a(p, "EXEC")
    BY <1>15, <2>1 DEF SeguirEjecutando, En, Ir
  <2>3. \A c \in Colas : Prometidos(c)' = Prometidos(c)
    BY <1>15 DEF SeguirEjecutando, En, Ir, Prometidos, InvBase, Tipos, TiposDeHilos,
       TiposDeListas, TiposDeConjuntos, Lineas, Hilos, EnCurso, Colas
  <2>4. QED
    BY <2>2, <2>3, SemaforosTrasProcesoA DEF InvBase, InvReparto, Colas
<1>16. ASSUME NEW p \in Pids, FinIO(p)
      PROVE  SemaforosCoherentes'
  <2>1. \A c \in Colas : Prometidos(c)' = Prometidos(c)
    BY <1>16 DEF FinIO, Prometidos, En, Ir, InvBase, Tipos, TiposDeHilos, TiposDeListas,
       TiposDeConjuntos, Lineas, Hilos, EnCurso, Colas
  <2>2. estado[p] = "BLOCKED" /\ ~EnManos(p) /\ mover(p, "BLOCKED", "READY", 1)
    BY <1>16, <1>b DEF FinIO, En, ConExecTo, Transiciones, EnManos, InvBase, InvReparto, Tipos,
       TiposDeHilos, TiposDeListas, Lineas, Manos, Condenados, Hilos, EnCurso, Vivos, Colas,
       PuntosLargo, PuntosCorto, PuntosConsola
  <2>3. p \in ToSet(cola["BLOCKED"]) /\ p \notin ToSet(cola["READY"])
    BY <2>2 DEF InvReparto, Listas, Colas
  <2>4. Prometidos("BLOCKED")' = Prometidos("BLOCKED") - 1 + 1
    BY <2>1 DEF Prometidos, Colas
  <2>5. QED
    BY <2>1, <2>2, <2>3, <2>4, SemaforosTrasMover DEF InvBase, InvReparto, Colas
<1>17. CASE TomarDeExit
  <2> DEFINE s == Tail(cola["EXIT"])
  <2>1. cola["EXIT"] \in Seq(Pids) /\ cola["EXIT"] # <<>>
    BY <1>17 DEF TomarDeExit, InvBase, Tipos, TiposDeListas, Colas
  <2>2. Len(s) = Len(cola["EXIT"]) - 1
    BY <2>1, ElementosSinElPrimero
  <2>3. cola' = [cola EXCEPT !["EXIT"] = s]
    BY <1>17 DEF TomarDeExit
  <2> HIDE DEF s
  <2>4. semEstado'["EXIT"] - semEstado["EXIT"] = Prometidos("EXIT") - Prometidos("EXIT")' -
       1
    BY <1>17 DEF TomarDeExit, Prometidos, En, Ir, InvBase, Tipos, TiposDeHilos, TiposDeListas,
       TiposDeConjuntos, Lineas, Hilos, EnCurso, Colas
  <2>5. \A d \in Colas \ {"EXIT"} : semEstado'[d] = semEstado[d] /\ Prometidos(d)' =
       Prometidos(d)
    BY <1>17 DEF TomarDeExit, Prometidos, En, Ir, InvBase, Tipos, TiposDeHilos, TiposDeListas,
       TiposDeConjuntos, Lineas, Hilos, EnCurso, Colas
  <2>6. QED
    BY <1>0, <2>2, <2>3, <2>4, <2>5, SemaforosTrasSacar DEF InvBase, InvReparto, Colas
<1>18. CASE liberar_recurso
  <2>1. \A c \in Colas : Prometidos(c)' = Prometidos(c)
    BY <1>18 DEF liberar_recurso, En, Prometidos, Ir, InvBase, Tipos, TiposDeHilos,
       TiposDeListas, TiposDeConjuntos, Lineas, Hilos, EnCurso, Colas
  <2>2. CASE UNCHANGED colas
    BY <2>1, <2>2, SemaforosIgual DEF colas, InvReparto
  <2>3. ASSUME NEW w \in porRecurso, mover(w, "BLOCKED", "READY", 1)
        PROVE  SemaforosCoherentes'
    <3>1. w \in Pids /\ estado[w] = "BLOCKED" /\ ~EnManos(w)
      BY <1>18, <1>b DEF liberar_recurso, En, TiposDeConjuntos, EnManos, InvBase, InvReparto,
         Tipos, TiposDeHilos, TiposDeListas, Lineas, Manos, Condenados, Hilos, EnCurso,
         Vivos, Colas, PuntosLargo, PuntosCorto, PuntosConsola, ConExecTo, Transiciones
    <3>2. w \in ToSet(cola["BLOCKED"]) /\ w \notin ToSet(cola["READY"])
      BY <3>1 DEF InvReparto, Listas, Colas
    <3>3. Prometidos("BLOCKED")' = Prometidos("BLOCKED") - 1 + 1
      BY <2>1 DEF Prometidos, Colas
    <3>4. QED
      BY <2>1, <2>3, <3>1, <3>2, <3>3, SemaforosTrasMover DEF InvBase, InvReparto, Colas
  <2>4. QED
    BY <1>18, <2>2, <2>3 DEF liberar_recurso, desbloquear_si_corresponde
<1>19. CASE iniciar_planificacion \/ DETENER_PLANIFICACION \/ FinDetener \/ ReducirGrado \/
           MirarCola \/ Reanudar \/ EsperarControl \/ EsperarGrado \/ EsperarExecTo \/
           ConsultarPendiente \/ eliminar_pcb \/ (\E p \in Pids : FINALIZAR_PROCESO(p)) \/
           (\E t \in Transiciones : TomarTransicion(t)) \/ (\E n \in Grados :
           cambiar_grado_multiprogramacion_a(n)) \/ (\E m \in Motivos : Desalojo(m)) \/
           UNCHANGED vars
  <2>1. UNCHANGED <<cola, semEstado>> /\ \A c \in Colas : Prometidos(c)' = Prometidos(c)
    BY <1>19 DEF vars, iniciar_planificacion, En, postear_todas, DETENER_PLANIFICACION,
       detener_planificacion, Ir, FINALIZAR_PROCESO, TomarTransicion, FinDetener,
       cambiar_grado_multiprogramacion_a, ReducirGrado, MirarCola, SeguirRastreo, Reanudar,
       EsperarControl, EsperarGrado, Desalojo, EsperarExecTo, ConsultarPendiente,
       eliminar_pcb, Prometidos, InvBase, Tipos, TiposDeHilos, TiposDeListas,
       TiposDeConjuntos, Lineas, Hilos, EnCurso, Colas, colas, grados, recursos, hiloCorto,
       hiloConsola
  <2>2. QED
    BY <2>1, SemaforosIgual DEF InvReparto
<1>20. QED
  BY <1>1, <1>2, <1>3, <1>4, <1>5, <1>6, <1>7, <1>8, <1>9, <1>10, <1>11, <1>12, <1>13,
     <1>14, <1>15, <1>16, <1>17, <1>18, <1>19 DEF Next, PasoConsola, PasoLargo, PasoCorto,
     PasoInterfaz, PasoExit

-----------------------------------------------------------------------------
(* The invariant.                                                          *)

(* What holds at the start, and what every step preserves. *)
LEMMA InicioInv ==
  ASSUME Init
  PROVE  InvPlanificacion
<1>1. Tipos
  <2>1. TiposDeListas /\ TiposDeConjuntos
    BY DEF Init, TiposDeListas, TiposDeConjuntos, Estados
  <2>2. TiposDeContadores
    BY PlanificacionAssumption DEF Init, TiposDeContadores
  <2>3. TiposDeHilos
    BY DEF Init, TiposDeHilos, Hilos, Puntos, PuntosLargo, PuntosCorto, PuntosConsola
  <2>4. QED
    BY <2>1, <2>2, <2>3 DEF Tipos
<1>2. Lineas /\ Parada /\ Marcos
  BY PlanificacionAssumption DEF Init, Lineas, Parada, Marcos, Hilos, PuntosLargo, PuntosCorto,
     PuntosConsola, EnCurso
<1>3. \A c \in Colas : ToSet(cola[c]) = {} /\ Distintos(cola[c]) /\ Len(cola[c]) = 0
  BY DEF Init, ToSet, Distintos
<1>4. SinUnidad
  BY <1>3 DEF Init, SinUnidad, Colas
<1>5. Binarios
  BY DEF Init, Binarios, Unidades, Tomado, Retenido, Hilos, ExecTo
<1>6. CuposConservados
  BY PlanificacionAssumption, FS_EmptySet DEF Init, CuposConservados, Hilos
<1>7. Listas
  BY <1>3 DEF Init, Listas, Colas
<1>8. Manos /\ Condenados /\ Busqueda
  BY DEF Init, Manos, Condenados, Busqueda, Hilos, EnCurso
<1>9. SemaforosCoherentes
  BY <1>3 DEF Init, SemaforosCoherentes, Prometidos, En, Hilos
<1>10. QED
  BY <1>1, <1>2, <1>4, <1>5, <1>6, <1>7, <1>8, <1>9 DEF InvPlanificacion, InvBase, InvReparto

(* The invariant is inductive. *)
LEMMA PasoInv ==
  ASSUME InvPlanificacion, [Next]_vars
  PROVE  InvPlanificacion'
<1>1. InvBase'
  <2>1. Tipos'
    BY TiposDeListasPaso, TiposDeConjuntosPaso, TiposDeContadoresPaso, TiposDeHilosPaso
       DEF InvPlanificacion, InvBase, Tipos
  <2>2. Lineas' /\ Parada' /\ Marcos'
    BY TiposDeHilosPaso, ParadaPaso, MarcosPaso DEF InvPlanificacion, InvBase
  <2>3. SinUnidad' /\ Binarios' /\ CuposConservados'
    BY SinUnidadPaso, BinariosPaso, CuposPaso DEF InvPlanificacion, InvBase
  <2>4. QED
    BY <2>1, <2>2, <2>3 DEF InvBase
<1>2. ASSUME SinExceso'
      PROVE  InvReparto'
  <2>1. InvBase /\ SinExceso /\ InvReparto
    BY <1>2, SinExcesoPaso DEF InvPlanificacion, InvBase
  <2>2. Listas' /\ Manos' /\ Condenados' /\ Busqueda' /\ SemaforosCoherentes'
    BY <2>1, ListasPaso, ManosPaso, CondenadosPaso, BusquedaPaso, SemaforosPaso
  <2>3. QED
    BY <2>2 DEF InvReparto
<1>3. QED
  BY <1>1, <1>2 DEF InvPlanificacion

(* The lists, the counters and the threads are always well formed, and,    *)
(* while no semaphore of the planning has an excess of posts, every        *)
(* process is where its state says and every list has as many tokens as    *)
(* elements.                                                               *)
THEOREM InvarianteDePlanificacion == Spec => []InvPlanificacion
<1>1. Init => InvPlanificacion
  BY InicioInv
<1>2. InvPlanificacion /\ [Next]_vars => InvPlanificacion'
  BY PasoInv
<1>3. QED
  BY <1>1, <1>2, PTL DEF Spec

(* Every variable has its type, whatever the user and the CPU do. *)
THEOREM TiposDePlanificacion == Spec => []TypeOK
<1>1. InvPlanificacion => TypeOK
  BY PlanificacionAssumption DEF InvPlanificacion, InvBase, Tipos, TiposDeListas,
     TiposDeConjuntos,
     TiposDeContadores, TiposDeHilos, Marcos, TypeOK, Estados, Rastreo
<1>2. QED
  BY <1>1, InvarianteDePlanificacion, PTL

(* A unit of the degree of multiprogramming is never lost: it is free,     *)
(* with a process, with the long-term planner or owed to a reduction.      *)
(* Units may be made up: deMas counts them, one for each process that took *)
(* none and is freed.  GradoSinMuertesEnNew says when there are none.      *)
THEOREM GradoSinPerdidas == Spec => []CuposConservados
<1>1. InvPlanificacion => CuposConservados
  BY DEF InvPlanificacion, InvBase
<1>2. QED
  BY <1>1, InvarianteDePlanificacion, PTL

(* An excess of posts of sem_estado_planificacion_exec_to... stays for ever:*)
(* nobody takes the units that are too many.                               *)
THEOREM ExcesoParaSiempre == Spec => [][SinExceso' => SinExceso]_vars
<1>1. InvPlanificacion /\ [Next]_vars => (SinExceso' => SinExceso)
  BY SinExcesoPaso DEF InvPlanificacion, InvBase
<1>2. QED
  BY <1>1, InvarianteDePlanificacion, PTL DEF Spec

(* While there is no excess of posts, lists and semaphores count the same: *)
(* no thread takes an element from an empty list.                          *)
THEOREM ListasConSuSemaforo == Spec => [](SinExceso => SemaforosCoherentes)
<1>1. InvPlanificacion => (SinExceso => SemaforosCoherentes)
  BY DEF InvPlanificacion, InvReparto
<1>2. QED
  BY <1>1, InvarianteDePlanificacion, PTL

-----------------------------------------------------------------------------
(* Where each process is.                                                  *)

(* A list without repetitions is not longer than the number of processes.  *)
LEMMA LargoDeLista ==
  ASSUME NEW s \in Seq(Pids), Distintos(s)
  PROVE  Len(s) <= Cardinality(Pids)
<1>1. s \in [1..Len(s) -> Pids] /\ Len(s) \in Nat
  BY LenProperties, ElementOfSeq
<1>2. s \in Injection(1..Len(s), Pids)
  BY <1>1 DEF Distintos, Injection, IsInjective
<1>3. Cardinality(1..Len(s)) <= Cardinality(Pids)
  BY <1>2, PlanificacionAssumption, FS_Injection
<1>4. Cardinality(1..Len(s)) = IF 1 > Len(s) THEN 0 ELSE Len(s) - 1 + 1
  BY <1>1, FS_Interval
<1>5. QED
  BY <1>1, <1>3, <1>4

(* The lists of the invariant give every process its one place. *)
LEMMA ListasDanUnLugar ==
  ASSUME Tipos, Listas
  PROVE  UnSoloLugar
<1> DEFINE L(p) == {l \in Colas \X (1..Cardinality(Pids)) :
                      l[2] \in DOMAIN cola[l[1]] /\ cola[l[1]][l[2]] = p}
<1>1. ASSUME NEW p \in Pids, NEW l \in L(p)
      PROVE  estado[p] = l[1] /\ ~EnManos(p)
  <2>1. l[1] \in Colas /\ l[2] \in DOMAIN cola[l[1]] /\ cola[l[1]][l[2]] = p
    OBVIOUS
  <2>2. p \in ToSet(cola[l[1]])
    BY <2>1 DEF ToSet
  <2>3. QED
    BY <2>1, <2>2 DEF Listas
<1>2. ASSUME NEW p \in Pids, estado[p] \in {"SIN_CREAR", "LIBERADO"} \/ EnManos(p)
      PROVE  L(p) = {}
  <2>1. ASSUME NEW l \in L(p)
        PROVE  FALSE
    <3>1. l[1] \in Colas
      OBVIOUS
    <3>2. QED
      BY <1>1, <1>2, <3>1 DEF Colas
  <2>2. QED
    BY <2>1
<1>3. ASSUME NEW p \in Pids, ~(estado[p] \in {"SIN_CREAR", "LIBERADO"} \/ EnManos(p))
      PROVE  Cardinality(L(p)) = 1 /\ \A l \in L(p) : l[1] = estado[p]
  <2> DEFINE c == estado[p]
  <2>1. c \in Colas
    BY <1>3 DEF Tipos, TiposDeListas, Estados
  <2>2. p \in ToSet(cola[c]) /\ Distintos(cola[c]) /\ cola[c] \in Seq(Pids)
    BY <1>3, <2>1 DEF Tipos, TiposDeListas, Listas
  <2>3. PICK i \in 1..Len(cola[c]) : cola[c][i] = p
    BY <2>2, ElementosDe
  <2>4. i \in 1..Cardinality(Pids) /\ i \in DOMAIN cola[c]
    <3>1. Len(cola[c]) <= Cardinality(Pids) /\ Cardinality(Pids) \in Nat
      BY <2>2, LargoDeLista, PlanificacionAssumption, FS_CardinalityType
    <3>2. Len(cola[c]) \in Nat /\ DOMAIN cola[c] = 1..Len(cola[c])
      BY <2>2, LenProperties
    <3>3. QED
      BY <3>1, <3>2
  <2>5. <<c, i>> \in L(p)
    BY <2>1, <2>3, <2>4
  <2>6. ASSUME NEW l \in L(p)
        PROVE  l = <<c, i>>
    <3>1. /\ l = <<l[1], l[2]>> /\ l[2] \in DOMAIN cola[l[1]] /\ cola[l[1]][l[2]] = p
          /\ l[1] = c
      BY <1>1
    <3>2. DOMAIN cola[c] = 1..Len(cola[c])
      BY <2>2, LenProperties
    <3>3. l[2] = i
      BY <2>2, <2>3, <3>1, <3>2 DEF Distintos
    <3>4. QED
      BY <3>1, <3>3
  <2>7. L(p) = {<<c, i>>}
    BY <2>5, <2>6
  <2>8. <<c, i>>[1] = estado[p]
    OBVIOUS
  <2> HIDE DEF L, c
  <2>9. Cardinality(L(p)) = 1
    BY <2>7, FS_Singleton
  <2>10. QED
    BY <2>6, <2>8, <2>9
<1>4. QED
  BY <1>2, <1>3 DEF UnSoloLugar

(* While there is no excess of posts, a process is in one place: in the    *)
(* list of its state, once, or with the one thread that took it out of it. *)
THEOREM CadaProcesoEnUnLugar == Spec => [](SinExceso => UnSoloLugar)
<1>1. InvPlanificacion => (SinExceso => UnSoloLugar)
  BY ListasDanUnLugar DEF InvPlanificacion, InvBase, InvReparto
<1>2. QED
  BY <1>1, InvarianteDePlanificacion, PTL

(* While there is no excess of posts, the console finds the process that   *)
(* it looks for: it is in a list that the search has not reached yet.      *)
THEOREM LaBusquedaEncuentra == Spec => [](SinExceso => RastreoCompleto)
<1>1. ASSUME InvPlanificacion, SinExceso
      PROVE  RastreoCompleto
  <2>1. SUFFICES ASSUME NEW p \in Pids, linea["consola"] \in {"mira", "espera"},
                        pcb["consola"] = p, p \notin aFinalizar, estado[p] \in Vivos
                 PROVE  \E k \in paso..Len(Rastreo) : Contiene(cola[Rastreo[k]], p)
    BY DEF RastreoCompleto, Vivos
  <2>2. InvBase /\ InvReparto
    BY <1>1 DEF InvPlanificacion
  <2>3. linea["largo"] # "memoria" /\ linea["corto"] \notin ConExecTo
    BY <1>1, <2>1, <2>2, Excluidos DEF InvBase
  <2>4. ~EnManos(p)
    BY <2>1, <2>2, <2>3 DEF EnManos, En, InvReparto, Manos, ConExecTo, Vivos
  <2>5. PICK k \in 1..4 : Rastreo[k] = estado[p] /\ Rastreo[k] \in Colas
    <3>1. /\ Rastreo[1] = "NEW" /\ Rastreo[2] = "READY"
          /\ Rastreo[3] = "BLOCKED" /\ Rastreo[4] = "EXEC"
      BY DEF Rastreo
    <3>2. QED
      BY <2>1, <3>1 DEF Vivos, Colas
  <2>6. p \in ToSet(cola[Rastreo[k]]) /\ cola[Rastreo[k]] \in Seq(Pids)
    BY <2>2, <2>4, <2>5 DEF InvReparto, Listas, InvBase, Tipos, TiposDeListas
  <2>7. paso \in 1..4 /\ Len(Rastreo) = 4
    BY <2>2 DEF InvBase, Tipos, TiposDeHilos, Rastreo
  <2>8. ~(k \in 1..paso - 1)
    BY <2>1, <2>2, <2>6 DEF InvReparto, Busqueda
  <2>9. k \in paso..Len(Rastreo)
    BY <2>7, <2>8
  <2>10. QED
    BY <2>6, <2>9, ContieneEs
<1>2. InvPlanificacion => (SinExceso => RastreoCompleto)
  BY <1>1
<1>3. QED
  BY <1>2, InvarianteDePlanificacion, PTL

-----------------------------------------------------------------------------
(* What a stop stops.                                                      *)

(* With the planning stopped, what may change state. *)
LEMMA DetenidaPaso ==
  ASSUME InvBase, SinExceso, InvReparto, Detenida, linea'["consola"] = linea["consola"],
         [Next]_vars
  PROVE  \A p \in Pids : estado'[p] # estado[p] => estado[p] \in {"SIN_CREAR", "EXIT"}
<1>0. (\A t \in Transiciones : plan[t] = 0) /\ linea["largo"] # "memoria"
        /\ linea["corto"] \notin ConExecTo
  BY ParadaExcluye DEF InvBase, Detenida
<1>1. ASSUME NEW p \in Pids, iniciar_proceso(p)
      PROVE  \A q \in Pids : estado'[q] # estado[q] => estado[q] \in {"SIN_CREAR", "EXIT"}
  BY <1>1, <1>0 DEF iniciar_proceso, En, proceso_a, InvBase, InvReparto, Manos, Tipos,
     TiposDeHilos, TiposDeListas, TiposDeConjuntos, Hilos, ConExecTo, Transiciones, colas,
     grados, recursos, hiloCorto, hiloConsola
<1>2. CASE AgregarAFinalizar
  BY <1>2, <1>0 DEF AgregarAFinalizar, En, Ir, proceso_a, InvBase, InvReparto, Manos, Tipos,
     TiposDeHilos, TiposDeListas, TiposDeConjuntos, Hilos, ConExecTo, Transiciones, colas,
     grados, recursos, hiloCorto, hiloConsola
<1>3. CASE RespuestaMemoria
  BY <1>3, <1>0 DEF RespuestaMemoria, En, Ir, proceso_a, InvBase, InvReparto, Manos, Tipos,
     TiposDeHilos, TiposDeListas, TiposDeConjuntos, Hilos, ConExecTo, Transiciones, colas,
     grados, recursos, hiloCorto, hiloConsola
<1>4. CASE Despachar
  BY <1>4, <1>0 DEF Despachar, En, Ir, mover, InvBase, InvReparto, Manos, Tipos,
     TiposDeHilos, TiposDeListas, TiposDeConjuntos, Hilos, ConExecTo, Transiciones, colas,
     grados, recursos, hiloCorto, hiloConsola
<1>5. CASE ManejarSalida
  BY <1>5, <1>0 DEF ManejarSalida, FinManejo, En, Ir, proceso_a, InvBase, InvReparto, Manos,
     Tipos, TiposDeHilos, TiposDeListas, TiposDeConjuntos, Hilos, ConExecTo, Transiciones,
     colas, grados, recursos, hiloCorto, hiloConsola
<1>6. CASE ManejarFinQuantum
  BY <1>6, <1>0 DEF ManejarFinQuantum, FinManejo, En, Ir, proceso_a, InvBase, InvReparto,
     Manos, Tipos, TiposDeHilos, TiposDeListas, TiposDeConjuntos, Hilos, ConExecTo,
     Transiciones, colas, grados, recursos, hiloCorto, hiloConsola
<1>7. CASE ManejarIO
  BY <1>7, <1>0 DEF ManejarIO, FinManejo, En, Ir, proceso_a, InvBase, InvReparto, Manos,
     Tipos, TiposDeHilos, TiposDeListas, TiposDeConjuntos, Hilos, ConExecTo, Transiciones,
     colas, grados, recursos, hiloCorto, hiloConsola
<1>8. CASE ManejarWait
  BY <1>8, <1>0 DEF ManejarWait, FinManejo, En, Ir, proceso_a, InvBase, InvReparto, Manos,
     Tipos, TiposDeHilos, TiposDeListas, TiposDeConjuntos, Hilos, ConExecTo, Transiciones,
     colas, grados, recursos, hiloCorto, hiloConsola
<1>9. CASE ManejarSignal
  BY <1>9, <1>0 DEF ManejarSignal, desbloquear_si_corresponde, En, Ir, mover, InvBase,
     InvReparto, Manos, Tipos, TiposDeHilos, TiposDeListas, TiposDeConjuntos, Hilos,
     ConExecTo, Transiciones, colas, grados, recursos, hiloCorto, hiloConsola
<1>10. CASE SeguirEjecutando
  BY <1>10, <1>0 DEF SeguirEjecutando, En, Ir, proceso_a, InvBase, InvReparto, Manos, Tipos,
     TiposDeHilos, TiposDeListas, TiposDeConjuntos, Hilos, ConExecTo, Transiciones, colas,
     grados, recursos, hiloCorto, hiloConsola
<1>11. ASSUME NEW p \in Pids, FinIO(p)
      PROVE  \A q \in Pids : estado'[q] # estado[q] => estado[q] \in {"SIN_CREAR", "EXIT"}
  BY <1>11, <1>0 DEF FinIO, mover, InvBase, InvReparto, Manos, Tipos, TiposDeHilos,
     TiposDeListas, TiposDeConjuntos, Hilos, ConExecTo, Transiciones, colas, grados,
     recursos, hiloCorto, hiloConsola
<1>12. CASE liberar_recurso
  BY <1>12, <1>0 DEF liberar_recurso, desbloquear_si_corresponde, En, mover, InvBase,
     InvReparto, Manos, Tipos, TiposDeHilos, TiposDeListas, TiposDeConjuntos, Hilos,
     ConExecTo, Transiciones, colas, grados, recursos, hiloCorto, hiloConsola
<1>13. CASE eliminar_pcb
  BY <1>13, <1>0 DEF eliminar_pcb, En, Ir, InvBase, InvReparto, Manos, Tipos, TiposDeHilos,
     TiposDeListas, TiposDeConjuntos, Hilos, ConExecTo, Transiciones, colas, grados,
     recursos, hiloCorto, hiloConsola
<1>14. CASE iniciar_planificacion \/ DETENER_PLANIFICACION \/ FinDetener \/ ReducirGrado \/
           MirarCola \/ DesencolarPorPid \/ Reanudar \/ EsperarControl \/ EsperarGrado \/
           EsperarNew \/ TomarDeNew \/ EsperarReady \/ EsperarExecTo \/ ConsultarPendiente
           \/ TomarDeExec \/ TomarDeExit \/ (\E p \in Pids : FINALIZAR_PROCESO(p)) \/ (\E t
           \in Transiciones : TomarTransicion(t)) \/ (\E n \in Grados :
           cambiar_grado_multiprogramacion_a(n)) \/ (\E m \in Motivos : Desalojo(m)) \/
           UNCHANGED vars
  BY <1>14, <1>0 DEF vars, iniciar_planificacion, En, DETENER_PLANIFICACION,
     detener_planificacion, Ir, FINALIZAR_PROCESO, TomarTransicion, FinDetener,
     cambiar_grado_multiprogramacion_a, ReducirGrado, MirarCola, SeguirRastreo,
     DesencolarPorPid, Reanudar, EsperarControl, EsperarGrado, EsperarNew, TomarDeNew,
     EsperarReady, Desalojo, EsperarExecTo, ConsultarPendiente, TomarDeExec, TomarDeExit,
     InvBase, InvReparto, Manos, Tipos, TiposDeHilos, TiposDeListas, TiposDeConjuntos,
     Hilos, ConExecTo, Transiciones, colas, grados, recursos, hiloCorto, hiloConsola
<1>15. QED
  BY <1>1, <1>2, <1>3, <1>4, <1>5, <1>6, <1>7, <1>8, <1>9, <1>10, <1>11, <1>12, <1>13, <1>14
     DEF Next, PasoConsola, PasoLargo, PasoCorto, PasoInterfaz, PasoExit

(* While there is no excess of posts, nothing changes state once the       *)
(* console has stopped the planning, but new processes and those in EXIT.  *)
THEOREM LaParadaDetiene == Spec /\ []SinExceso => DetenidaNoMueve
<1>1. ASSUME InvPlanificacion, SinExceso, [Next]_vars
      PROVE  Detenida /\ linea'["consola"] = linea["consola"] =>
               \A p \in Pids : estado'[p] # estado[p] => estado[p] \in {"SIN_CREAR", "EXIT"}
  BY <1>1, DetenidaPaso DEF InvPlanificacion
<1>2. QED
  BY <1>1, InvarianteDePlanificacion, PTL DEF Spec, DetenidaNoMueve

-----------------------------------------------------------------------------
(* The diagram of states.                                                  *)

(* Every step is a move of the diagram, or leaves the states alone. *)
LEMMA CicloPaso ==
  ASSUME InvBase, SinExceso, InvReparto, [Next]_vars
  PROVE  [Ciclo!Next]_estado
<1>1. ASSUME NEW p \in Pids, iniciar_proceso(p)
      PROVE  [Ciclo!Next]_estado
  BY <1>1 DEF iniciar_proceso, En, proceso_a, Ciclo!Next, Ciclo!Pasar, Ciclo!Crear,
     Ciclo!Admitir, Ciclo!Despachar, Ciclo!Replanificar, Ciclo!Bloquear, Ciclo!Desbloquear,
     Ciclo!Salir, Ciclo!Liberar, Ciclo!Vivas, Vivos, InvBase, InvReparto, Manos, Lineas,
     Tipos, TiposDeListas, TiposDeConjuntos, EnCurso, colas, grados, recursos, hiloCorto,
     hiloConsola
<1>2. CASE AgregarAFinalizar
  BY <1>2 DEF AgregarAFinalizar, En, Ir, proceso_a, Ciclo!Next, Ciclo!Pasar, Ciclo!Crear,
     Ciclo!Admitir, Ciclo!Despachar, Ciclo!Replanificar, Ciclo!Bloquear, Ciclo!Desbloquear,
     Ciclo!Salir, Ciclo!Liberar, Ciclo!Vivas, Vivos, InvBase, InvReparto, Manos, Lineas,
     Tipos, TiposDeListas, TiposDeConjuntos, EnCurso, colas, grados, recursos, hiloCorto,
     hiloConsola
<1>3. CASE RespuestaMemoria
  <2>1. PICK p \in Pids : p = pcb["largo"] /\ estado[p] = "NEW"
    BY <1>3 DEF RespuestaMemoria, En, InvReparto, Manos, InvBase, Lineas, Tipos
  <2>2. PICK c \in {"READY", "EXIT"} : estado' = [estado EXCEPT ![p] = c]
    BY <1>3, <2>1 DEF RespuestaMemoria, proceso_a
  <2>3. Ciclo!Admitir(p) \/ Ciclo!Salir(p)
    BY <2>1, <2>2 DEF Ciclo!Admitir, Ciclo!Salir, Ciclo!Pasar, Ciclo!Vivas
  <2>4. QED
    BY <2>3 DEF Ciclo!Next
<1>4. CASE Despachar
  <2>1. PICK p \in Pids : p = Head(cola["READY"])
    BY <1>4, ElementosDe DEF Despachar, InvBase, Tipos, TiposDeListas, Colas
  <2>2. p \in ToSet(cola["READY"])
    BY <1>4, <2>1, ElementosDe DEF Despachar, InvBase, Tipos, TiposDeListas, Colas
  <2>3. estado[p] = "READY" /\ estado' = [estado EXCEPT ![p] = "EXEC"]
    BY <1>4, <2>1, <2>2 DEF Despachar, mover, InvReparto, Listas, Colas
  <2>4. \A q \in Pids : estado[q] # "EXEC"
    BY <1>4 DEF Despachar, En, InvReparto, Manos, EnCurso
  <2>5. Ciclo!Despachar(p)
    BY <2>3, <2>4 DEF Ciclo!Despachar, Ciclo!Pasar
  <2>6. QED
    BY <2>5 DEF Ciclo!Next
<1>5. CASE ManejarSalida
  BY <1>5 DEF ManejarSalida, FinManejo, En, Ir, proceso_a, Ciclo!Next, Ciclo!Pasar,
     Ciclo!Crear, Ciclo!Admitir, Ciclo!Despachar, Ciclo!Replanificar, Ciclo!Bloquear,
     Ciclo!Desbloquear, Ciclo!Salir, Ciclo!Liberar, Ciclo!Vivas, Vivos, InvBase, InvReparto,
     Manos, Lineas, Tipos, TiposDeListas, TiposDeConjuntos, EnCurso, colas, grados,
     recursos, hiloCorto, hiloConsola
<1>6. CASE ManejarFinQuantum
  BY <1>6 DEF ManejarFinQuantum, FinManejo, En, Ir, proceso_a, Ciclo!Next, Ciclo!Pasar,
     Ciclo!Crear, Ciclo!Admitir, Ciclo!Despachar, Ciclo!Replanificar, Ciclo!Bloquear,
     Ciclo!Desbloquear, Ciclo!Salir, Ciclo!Liberar, Ciclo!Vivas, Vivos, InvBase, InvReparto,
     Manos, Lineas, Tipos, TiposDeListas, TiposDeConjuntos, EnCurso, colas, grados,
     recursos, hiloCorto, hiloConsola
<1>7. CASE ManejarIO
  BY <1>7 DEF ManejarIO, FinManejo, En, Ir, proceso_a, Ciclo!Next, Ciclo!Pasar, Ciclo!Crear,
     Ciclo!Admitir, Ciclo!Despachar, Ciclo!Replanificar, Ciclo!Bloquear, Ciclo!Desbloquear,
     Ciclo!Salir, Ciclo!Liberar, Ciclo!Vivas, Vivos, InvBase, InvReparto, Manos, Lineas,
     Tipos, TiposDeListas, TiposDeConjuntos, EnCurso, colas, grados, recursos, hiloCorto,
     hiloConsola
<1>8. CASE ManejarWait
  BY <1>8 DEF ManejarWait, FinManejo, En, Ir, proceso_a, Ciclo!Next, Ciclo!Pasar,
     Ciclo!Crear, Ciclo!Admitir, Ciclo!Despachar, Ciclo!Replanificar, Ciclo!Bloquear,
     Ciclo!Desbloquear, Ciclo!Salir, Ciclo!Liberar, Ciclo!Vivas, Vivos, InvBase, InvReparto,
     Manos, Lineas, Tipos, TiposDeListas, TiposDeConjuntos, EnCurso, colas, grados,
     recursos, hiloCorto, hiloConsola
<1>9. CASE ManejarSignal
  BY <1>9 DEF ManejarSignal, desbloquear_si_corresponde, En, Ir, mover, Ciclo!Next,
     Ciclo!Pasar, Ciclo!Crear, Ciclo!Admitir, Ciclo!Despachar, Ciclo!Replanificar,
     Ciclo!Bloquear, Ciclo!Desbloquear, Ciclo!Salir, Ciclo!Liberar, Ciclo!Vivas, Vivos,
     InvBase, InvReparto, Manos, Lineas, Tipos, TiposDeListas, TiposDeConjuntos, EnCurso,
     colas, grados, recursos, hiloCorto, hiloConsola
<1>10. CASE SeguirEjecutando
  BY <1>10 DEF SeguirEjecutando, En, Ir, proceso_a, Ciclo!Next, Ciclo!Pasar, Ciclo!Crear,
     Ciclo!Admitir, Ciclo!Despachar, Ciclo!Replanificar, Ciclo!Bloquear, Ciclo!Desbloquear,
     Ciclo!Salir, Ciclo!Liberar, Ciclo!Vivas, Vivos, InvBase, InvReparto, Manos, Lineas,
     Tipos, TiposDeListas, TiposDeConjuntos, EnCurso, colas, grados, recursos, hiloCorto,
     hiloConsola
<1>11. ASSUME NEW p \in Pids, FinIO(p)
      PROVE  [Ciclo!Next]_estado
  BY <1>11 DEF FinIO, mover, Ciclo!Next, Ciclo!Pasar, Ciclo!Crear, Ciclo!Admitir,
     Ciclo!Despachar, Ciclo!Replanificar, Ciclo!Bloquear, Ciclo!Desbloquear, Ciclo!Salir,
     Ciclo!Liberar, Ciclo!Vivas, Vivos, InvBase, InvReparto, Manos, Lineas, Tipos,
     TiposDeListas, TiposDeConjuntos, EnCurso, colas, grados, recursos, hiloCorto,
     hiloConsola
<1>12. CASE liberar_recurso
  BY <1>12 DEF liberar_recurso, desbloquear_si_corresponde, En, mover, Ciclo!Next,
     Ciclo!Pasar, Ciclo!Crear, Ciclo!Admitir, Ciclo!Despachar, Ciclo!Replanificar,
     Ciclo!Bloquear, Ciclo!Desbloquear, Ciclo!Salir, Ciclo!Liberar, Ciclo!Vivas, Vivos,
     InvBase, InvReparto, Manos, Lineas, Tipos, TiposDeListas, TiposDeConjuntos, EnCurso,
     colas, grados, recursos, hiloCorto, hiloConsola
<1>13. CASE eliminar_pcb
  BY <1>13 DEF eliminar_pcb, En, Ir, Ciclo!Next, Ciclo!Pasar, Ciclo!Crear, Ciclo!Admitir,
     Ciclo!Despachar, Ciclo!Replanificar, Ciclo!Bloquear, Ciclo!Desbloquear, Ciclo!Salir,
     Ciclo!Liberar, Ciclo!Vivas, Vivos, InvBase, InvReparto, Manos, Lineas, Tipos,
     TiposDeListas, TiposDeConjuntos, EnCurso, colas, grados, recursos, hiloCorto,
     hiloConsola
<1>14. CASE iniciar_planificacion \/ DETENER_PLANIFICACION \/ FinDetener \/ ReducirGrado \/
           MirarCola \/ DesencolarPorPid \/ Reanudar \/ EsperarControl \/ EsperarGrado \/
           EsperarNew \/ TomarDeNew \/ EsperarReady \/ EsperarExecTo \/ ConsultarPendiente
           \/ TomarDeExec \/ TomarDeExit \/ (\E p \in Pids : FINALIZAR_PROCESO(p)) \/ (\E t
           \in Transiciones : TomarTransicion(t)) \/ (\E n \in Grados :
           cambiar_grado_multiprogramacion_a(n)) \/ (\E m \in Motivos : Desalojo(m)) \/
           UNCHANGED vars
  BY <1>14 DEF vars, iniciar_planificacion, En, DETENER_PLANIFICACION,
     detener_planificacion, Ir, FINALIZAR_PROCESO, TomarTransicion, FinDetener,
     cambiar_grado_multiprogramacion_a, ReducirGrado, MirarCola, SeguirRastreo,
     DesencolarPorPid, Reanudar, EsperarControl, EsperarGrado, EsperarNew, TomarDeNew,
     EsperarReady, Desalojo, EsperarExecTo, ConsultarPendiente, TomarDeExec, TomarDeExit,
     Ciclo!Next, Ciclo!Pasar, Ciclo!Crear, Ciclo!Admitir, Ciclo!Despachar,
     Ciclo!Replanificar, Ciclo!Bloquear, Ciclo!Desbloquear, Ciclo!Salir, Ciclo!Liberar,
     Ciclo!Vivas, Vivos, InvBase, InvReparto, Manos, Lineas, Tipos, TiposDeListas,
     TiposDeConjuntos, EnCurso, colas, grados, recursos, hiloCorto, hiloConsola
<1>15. QED
  BY <1>1, <1>2, <1>3, <1>4, <1>5, <1>6, <1>7, <1>8, <1>9, <1>10, <1>11, <1>12, <1>13, <1>14
     DEF Next, PasoConsola, PasoLargo, PasoCorto, PasoInterfaz, PasoExit

(* While there is no excess of posts, the threads bring about only the     *)
(* moves of the diagram of states, with one process at a time in the CPU.  *)
THEOREM ElCicloSeCumple == Spec /\ []SinExceso => ImplementaCiclo
<1>1. Init => Ciclo!Init
  BY DEF Init, Ciclo!Init
<1>2. InvPlanificacion /\ SinExceso /\ [Next]_vars => [Ciclo!Next]_estado
  BY CicloPaso DEF InvPlanificacion
<1>3. QED
  BY <1>1, <1>2, InvarianteDePlanificacion, PTL DEF Spec, ImplementaCiclo, Ciclo!Spec

-----------------------------------------------------------------------------
(* Who has a unit of the degree, and when none is made up.                 *)

(* The states of the processes that the degree is meant to limit. *)
Admitidos == {"READY", "EXEC", "BLOCKED"}

(* Every process that was let into READY has a unit, and so has the one    *)
(* that is being asked of memory.                                          *)
ConCupo ==
  /\ \A p \in Pids : estado[p] \in Admitidos => p \in admitidos
  /\ linea["largo"] = "memoria" => pcb["largo"] \in admitidos

(* A process is killed in NEW, before it takes a unit. *)
MuereEnNew == \E p \in Pids : p \notin admitidos /\ estado[p] = "NEW" /\ estado'[p] = "EXIT"

(* No unit was made up, nor is there a process about to make one up. *)
SinDeMas ==
  /\ deMas = 0
  /\ \A p \in Pids : estado[p] = "EXIT" => p \in admitidos

(* A process gives its unit back when it is freed, only a process of EXIT  *)
(* without one makes one up, and the long-term planner lets processes in   *)
(* one by one.                                                             *)
LEMMA AdmitidosPaso ==
  ASSUME InvBase, SinExceso, InvReparto, [Next]_vars
  PROVE  /\ \A p \in admitidos : p \in admitidos' \/ (estado[p] = "EXIT" /\ estado'[p] = "LIBERADO")
         /\ deMas' = deMas \/ \E p \in Pids : estado[p] = "EXIT" /\ p \notin admitidos
         /\ linea'["largo"] = "memoria" =>
              \/ pcb'["largo"] \in admitidos'
              \/ linea["largo"] = "memoria" /\ pcb'["largo"] = pcb["largo"]
         /\ \A p \in Pids : estado[p] = "NEW" /\ estado'[p] = "READY" =>
              linea["largo"] = "memoria" /\ p = pcb["largo"]
<1> DEFINE Meta ==
         /\ \A p \in admitidos : p \in admitidos' \/ (estado[p] = "EXIT" /\ estado'[p] = "LIBERADO")
         /\ deMas' = deMas \/ \E p \in Pids : estado[p] = "EXIT" /\ p \notin admitidos
         /\ linea'["largo"] = "memoria" =>
              \/ pcb'["largo"] \in admitidos'
              \/ linea["largo"] = "memoria" /\ pcb'["largo"] = pcb["largo"]
         /\ \A p \in Pids : estado[p] = "NEW" /\ estado'[p] = "READY" =>
              linea["largo"] = "memoria" /\ p = pcb["largo"]
<1>1. CASE TomarDeNew
  BY <1>1 DEF TomarDeNew, InvBase, Tipos, TiposDeHilos, Hilos
<1>2. CASE RespuestaMemoria
  <2>1. /\ UNCHANGED <<admitidos, deMas>>
        /\ linea["largo"] = "memoria" /\ linea'["largo"] = "control"
    BY <1>2 DEF RespuestaMemoria, En, Ir, InvBase, Tipos, TiposDeHilos, Hilos, grados
  <2>2. \A p \in Pids : p # pcb["largo"] => estado'[p] = estado[p]
    BY <1>2 DEF RespuestaMemoria, proceso_a, InvBase, Tipos, TiposDeListas
  <2>3. QED
    BY <2>1, <2>2
<1>3. CASE eliminar_pcb
  <2>1. PICK p \in Pids : p = pcb["exit"] /\ estado[p] = "EXIT"
    BY <1>3 DEF eliminar_pcb, En, InvReparto, Manos, InvBase, Lineas
  <2>2. /\ admitidos' = admitidos \ {p} /\ deMas' = IF p \in admitidos THEN deMas ELSE deMas + 1
        /\ linea'["largo"] = linea["largo"] /\ pcb'["largo"] = pcb["largo"]
        /\ estado' = [estado EXCEPT ![p] = "LIBERADO"]
    BY <1>3, <2>1 DEF eliminar_pcb, Ir, InvBase, Tipos, TiposDeHilos, Hilos
  <2>3. estado'[p] = "LIBERADO" /\ \A q : q # p => estado'[q] = estado[q]
    BY <2>2 DEF InvBase, Tipos, TiposDeListas
  <2>4. QED
    BY <2>1, <2>2, <2>3
<1>4. ASSUME UNCHANGED <<admitidos, deMas>>,
             linea'["largo"] = "memoria" =>
               linea["largo"] = "memoria" /\ pcb'["largo"] = pcb["largo"],
             \A p \in Pids : estado[p] = "NEW" => estado'[p] # "READY"
      PROVE  Meta
  BY <1>4
<1>5. CASE EsperarControl \/ EsperarGrado \/ EsperarNew
  BY <1>4, <1>5 DEF EsperarControl, EsperarGrado, EsperarNew, Ir, InvBase, Tipos, TiposDeHilos,
     Hilos, colas, grados
<1>6. CASE iniciar_planificacion \/ DETENER_PLANIFICACION \/ FinDetener \/ ReducirGrado \/
           MirarCola \/ DesencolarPorPid \/ Reanudar \/ EsperarReady \/ EsperarExecTo \/
           ConsultarPendiente \/ TomarDeExec \/ TomarDeExit \/
           (\E p \in Pids : FINALIZAR_PROCESO(p)) \/
           (\E t \in Transiciones : TomarTransicion(t)) \/
           (\E n \in Grados : cambiar_grado_multiprogramacion_a(n)) \/
           (\E m \in Motivos : Desalojo(m)) \/ UNCHANGED vars
  BY <1>4, <1>6 DEF vars, iniciar_planificacion, DETENER_PLANIFICACION,
     detener_planificacion, Ir, FINALIZAR_PROCESO, TomarTransicion, FinDetener,
     cambiar_grado_multiprogramacion_a, ReducirGrado, MirarCola, SeguirRastreo,
     DesencolarPorPid, Reanudar, EsperarReady, Desalojo, EsperarExecTo, ConsultarPendiente,
     TomarDeExec, TomarDeExit, InvBase, Tipos, TiposDeHilos, Hilos, colas, grados, recursos,
     hiloCorto, hiloConsola
<1>7. CASE (\E p \in Pids : iniciar_proceso(p)) \/ AgregarAFinalizar
  BY <1>4, <1>7 DEF iniciar_proceso, AgregarAFinalizar, proceso_a, Ir, InvBase, Tipos,
     TiposDeListas, TiposDeHilos, Hilos, colas, grados
<1>8. CASE Despachar
  <2>1. PICK p \in Pids : p = Head(cola["READY"]) /\ p \in ToSet(cola["READY"])
    BY <1>8, ElementosDe DEF Despachar, InvBase, Tipos, TiposDeListas, Colas
  <2>2. estado' = [estado EXCEPT ![p] = "EXEC"]
    BY <1>8, <2>1 DEF Despachar, mover
  <2>3. QED
    BY <1>4, <1>8, <2>2 DEF Despachar, Ir, InvBase, Tipos, TiposDeListas, TiposDeHilos, Hilos,
       grados
<1>9. CASE ManejarSalida \/ ManejarFinQuantum \/ ManejarIO \/ ManejarWait \/ SeguirEjecutando
  <2>1. PICK p \in Pids : p = pcb["corto"] /\ estado[p] = "EXEC"
    BY <1>9 DEF ManejarSalida, ManejarFinQuantum, ManejarIO, ManejarWait, SeguirEjecutando, En,
       InvReparto, Manos, InvBase, Lineas, EnCurso
  <2>2. \A q \in Pids : q # p => estado'[q] = estado[q]
    BY <1>9, <2>1 DEF ManejarSalida, ManejarFinQuantum, ManejarIO, ManejarWait,
       SeguirEjecutando, proceso_a, InvBase, Tipos, TiposDeListas, colas
  <2>3. /\ UNCHANGED <<admitidos, deMas>>
        /\ linea'["largo"] = linea["largo"] /\ pcb'["largo"] = pcb["largo"]
    BY <1>9 DEF ManejarSalida, ManejarFinQuantum, ManejarIO, ManejarWait, SeguirEjecutando,
       FinManejo, Ir, InvBase, Tipos, TiposDeHilos, Hilos, grados
  <2>4. QED
    BY <1>4, <2>1, <2>2, <2>3
<1>10. CASE ManejarSignal \/ liberar_recurso \/ \E p \in Pids : FinIO(p)
  <2>1. \A q \in Pids : estado'[q] # estado[q] => estado[q] = "BLOCKED"
    <3>1. CASE desbloquear_si_corresponde
      BY <3>1 DEF desbloquear_si_corresponde, mover, InvReparto, Manos, InvBase, Tipos,
         TiposDeListas, TiposDeConjuntos, colas
    <3>2. ASSUME NEW p \in Pids, FinIO(p)
          PROVE  \A q \in Pids : estado'[q] # estado[q] => estado[q] = "BLOCKED"
      BY <3>2 DEF FinIO, mover, InvBase, Tipos, TiposDeListas
    <3>3. QED
      BY <1>10, <3>1, <3>2 DEF ManejarSignal, liberar_recurso
  <2>2. /\ UNCHANGED <<admitidos, deMas>>
        /\ linea'["largo"] = linea["largo"] /\ pcb'["largo"] = pcb["largo"]
    BY <1>10 DEF ManejarSignal, liberar_recurso, FinIO, Ir, InvBase, Tipos, TiposDeHilos, Hilos,
       grados
  <2>3. QED
    BY <1>4, <2>1, <2>2
<1>11. QED
  BY <1>1, <1>2, <1>3, <1>5, <1>6, <1>7, <1>8, <1>9, <1>10
     DEF Next, PasoConsola, PasoLargo, PasoCorto, PasoInterfaz, PasoExit

(* Nobody gets to READY, EXEC or BLOCKED without a unit. *)
LEMMA ConCupoPaso ==
  ASSUME InvBase, SinExceso, InvReparto, ConCupo, [Next]_vars
  PROVE  ConCupo'
<1>1. /\ \A p \in admitidos : p \in admitidos' \/ (estado[p] = "EXIT" /\ estado'[p] = "LIBERADO")
      /\ linea'["largo"] = "memoria" =>
           \/ pcb'["largo"] \in admitidos'
           \/ linea["largo"] = "memoria" /\ pcb'["largo"] = pcb["largo"]
      /\ \A p \in Pids : estado[p] = "NEW" /\ estado'[p] = "READY" =>
           linea["largo"] = "memoria" /\ p = pcb["largo"]
  BY AdmitidosPaso
<1>2. ASSUME NEW p \in Pids, estado'[p] \in Admitidos
      PROVE  estado[p] \in Admitidos \/ (estado[p] = "NEW" /\ estado'[p] = "READY")
  <2>1. [Ciclo!Next]_estado /\ estado \in [Pids -> Estados]
    BY CicloPaso DEF InvBase, Tipos, TiposDeListas
  <2>2. QED
    BY <1>2, <2>1 DEF Admitidos, Ciclo!Next, Ciclo!Pasar, Ciclo!Crear, Ciclo!Admitir,
       Ciclo!Despachar, Ciclo!Replanificar, Ciclo!Bloquear, Ciclo!Desbloquear, Ciclo!Salir,
       Ciclo!Liberar
<1>3. ASSUME NEW p \in Pids, estado'[p] \in Admitidos
      PROVE  p \in admitidos'
  BY <1>1, <1>2, <1>3 DEF ConCupo, Admitidos
<1>4. ASSUME linea'["largo"] = "memoria"
      PROVE  pcb'["largo"] \in admitidos'
  <2>1. linea["largo"] = "memoria" => estado[pcb["largo"]] = "NEW" /\ pcb["largo"] \in admitidos
    BY DEF InvReparto, Manos, ConCupo
  <2>2. QED
    BY <1>1, <1>4, <2>1
<1>5. QED
  BY <1>3, <1>4 DEF ConCupo

(* While there is no excess of posts, every process that is ready, runs or *)
(* waits has a unit of the degree: none is let in twice on the same one.   *)
THEOREM LosAdmitidosTienenCupo == Spec /\ []SinExceso => []ConCupo
<1>1. Init => ConCupo
  BY DEF Init, ConCupo, Admitidos, Hilos
<1>2. InvPlanificacion /\ SinExceso /\ ConCupo /\ [Next]_vars => ConCupo'
  BY ConCupoPaso DEF InvPlanificacion
<1>3. QED
  BY <1>1, <1>2, InvarianteDePlanificacion, PTL DEF Spec

(* A unit is made up by a process killed in NEW, and by nothing else. *)
LEMMA SinDeMasPaso ==
  ASSUME InvBase, SinExceso, InvReparto, ConCupo, SinDeMas, [Next]_vars, [~MuereEnNew]_vars
  PROVE  SinDeMas'
<1>1. /\ \A p \in admitidos : p \in admitidos' \/ (estado[p] = "EXIT" /\ estado'[p] = "LIBERADO")
      /\ deMas' = deMas \/ \E p \in Pids : estado[p] = "EXIT" /\ p \notin admitidos
  BY AdmitidosPaso
<1>2. deMas' = 0
  BY <1>1 DEF SinDeMas
<1>3. ASSUME NEW p \in Pids, estado'[p] = "EXIT"
      PROVE  estado[p] = "EXIT" \/ estado[p] \in Admitidos \/ estado[p] = "NEW"
  <2>1. [Ciclo!Next]_estado /\ estado \in [Pids -> Estados]
    BY CicloPaso DEF InvBase, Tipos, TiposDeListas
  <2>2. QED
    BY <1>3, <2>1 DEF Admitidos, Ciclo!Next, Ciclo!Pasar, Ciclo!Crear, Ciclo!Admitir,
       Ciclo!Despachar, Ciclo!Replanificar, Ciclo!Bloquear, Ciclo!Desbloquear, Ciclo!Salir,
       Ciclo!Liberar, Ciclo!Vivas
<1>4. ~MuereEnNew \/ UNCHANGED estado
  BY DEF vars, colas
<1>5. ASSUME NEW p \in Pids, estado'[p] = "EXIT"
      PROVE  p \in admitidos
  BY <1>3, <1>4, <1>5 DEF ConCupo, SinDeMas, MuereEnNew
<1>6. QED
  BY <1>1, <1>2, <1>5 DEF SinDeMas

(* If no process is killed in NEW, no unit is made up, and the processes   *)
(* in the system are never more than the degree (but for a reduction under *)
(* way): what the post for every PCB that is freed would otherwise break.  *)
THEOREM GradoSinMuertesEnNew ==
  Spec /\ []SinExceso /\ [][~MuereEnNew]_vars => [](deMas = 0 /\ GradoRespetado)
<1>1. Init => SinDeMas
  BY DEF Init, SinDeMas
<1>2. /\ InvPlanificacion /\ SinExceso /\ ConCupo /\ SinDeMas
      /\ [Next]_vars /\ [~MuereEnNew]_vars
      => SinDeMas'
  BY SinDeMasPaso DEF InvPlanificacion
<1>3. InvPlanificacion /\ SinDeMas => deMas = 0 /\ GradoRespetado
  <2>1. ASSUME InvPlanificacion, SinDeMas, linea["consola"] # "reduciendo"
        PROVE  Cardinality(admitidos) <= grado
    <3>1. /\ CuposConservados /\ deMas = 0 /\ semGrado \in Nat /\ grado \in Nat
          /\ cuantos \in Nat /\ ~(cuantos > 0) /\ admitidos \subseteq Pids
      BY <2>1 DEF InvPlanificacion, InvBase, SinDeMas, Tipos, TiposDeContadores,
         TiposDeConjuntos, Lineas
    <3>2. Cardinality(admitidos) \in Nat
      BY <3>1, PlanificacionAssumption, FS_Subset, FS_CardinalityType
    <3>3. QED
      BY <3>1, <3>2 DEF CuposConservados
  <2>2. QED
    BY <2>1 DEF SinDeMas, GradoRespetado, En
<1>4. QED
  BY <1>1, <1>2, <1>3, InvarianteDePlanificacion, LosAdmitidosTienenCupo, PTL DEF Spec

-----------------------------------------------------------------------------
(* When there is no excess.                                                *)

(* No process that does a WAIT or a SIGNAL. *)
InvSinRecursos ==
  /\ motivo \notin {"COP_WAIT", "COP_SIGNAL"}
  /\ linea["corto"] # "sigue"
  /\ marcos = 0
  /\ Unidades(ExecTo) = 1

(* The semaphore exec_to is binary then. *)
LEMMA SinRecursosPaso ==
  ASSUME Motivos \cap {"COP_WAIT", "COP_SIGNAL"} = {}, InvPlanificacion, InvSinRecursos,
         [Next]_vars
  PROVE  InvSinRecursos'
<1>1. CASE iniciar_planificacion
  BY <1>1 DEF iniciar_planificacion, En, postear_todas, InvSinRecursos, InvPlanificacion,
     InvBase, Tipos, TiposDeHilos, TiposDeContadores, Lineas, Parada, Unidades, Tomado,
     Retenido, ExecTo, ConExecTo, Hilos, Transiciones, colas, grados, recursos, hiloCorto,
     hiloConsola
<1>2. CASE DETENER_PLANIFICACION
  BY <1>2 DEF DETENER_PLANIFICACION, detener_planificacion, En, Ir, InvSinRecursos,
     InvPlanificacion, InvBase, Tipos, TiposDeHilos, TiposDeContadores, Lineas, Parada,
     Unidades, Tomado, Retenido, ExecTo, ConExecTo, Hilos, Transiciones, colas, grados,
     recursos, hiloCorto, hiloConsola
<1>3. ASSUME NEW p \in Pids, FINALIZAR_PROCESO(p)
      PROVE  InvSinRecursos'
  BY <1>3 DEF FINALIZAR_PROCESO, detener_planificacion, En, Ir, InvSinRecursos,
     InvPlanificacion, InvBase, Tipos, TiposDeHilos, TiposDeContadores, Lineas, Parada,
     Unidades, Tomado, Retenido, ExecTo, ConExecTo, Hilos, Transiciones, colas, grados,
     recursos, hiloCorto, hiloConsola
<1>4. ASSUME NEW t \in Transiciones, TomarTransicion(t)
      PROVE  InvSinRecursos'
  BY <1>4 DEF TomarTransicion, En, InvSinRecursos, InvPlanificacion, InvBase, Tipos,
     TiposDeHilos, TiposDeContadores, Lineas, Parada, Unidades, Tomado, Retenido, ExecTo,
     ConExecTo, Hilos, Transiciones, colas, grados, recursos, hiloCorto, hiloConsola
<1>5. CASE FinDetener
  BY <1>5 DEF FinDetener, En, Ir, InvSinRecursos, InvPlanificacion, InvBase, Tipos,
     TiposDeHilos, TiposDeContadores, Lineas, Parada, Unidades, Tomado, Retenido, ExecTo,
     ConExecTo, Hilos, Transiciones, colas, grados, recursos, hiloCorto, hiloConsola
<1>6. ASSUME NEW n \in Grados, cambiar_grado_multiprogramacion_a(n)
      PROVE  InvSinRecursos'
  BY <1>6 DEF cambiar_grado_multiprogramacion_a, En, Ir, InvSinRecursos, InvPlanificacion,
     InvBase, Tipos, TiposDeHilos, TiposDeContadores, Lineas, Parada, Unidades, Tomado,
     Retenido, ExecTo, ConExecTo, Hilos, Transiciones, colas, grados, recursos, hiloCorto,
     hiloConsola
<1>7. CASE ReducirGrado
  BY <1>7 DEF ReducirGrado, En, Ir, InvSinRecursos, InvPlanificacion, InvBase, Tipos,
     TiposDeHilos, TiposDeContadores, Lineas, Parada, Unidades, Tomado, Retenido, ExecTo,
     ConExecTo, Hilos, Transiciones, colas, grados, recursos, hiloCorto, hiloConsola
<1>8. CASE MirarCola
  BY <1>8 DEF MirarCola, SeguirRastreo, En, Ir, InvSinRecursos, InvPlanificacion, InvBase,
     Tipos, TiposDeHilos, TiposDeContadores, Lineas, Parada, Unidades, Tomado, Retenido,
     ExecTo, ConExecTo, Hilos, Transiciones, colas, grados, recursos, hiloCorto, hiloConsola
<1>9. CASE DesencolarPorPid
  BY <1>9 DEF DesencolarPorPid, SeguirRastreo, En, Ir, InvSinRecursos, InvPlanificacion,
     InvBase, Tipos, TiposDeHilos, TiposDeContadores, Lineas, Parada, Unidades, Tomado,
     Retenido, ExecTo, ConExecTo, Hilos, Transiciones, colas, grados, recursos, hiloCorto,
     hiloConsola
<1>10. CASE AgregarAFinalizar
  BY <1>10 DEF AgregarAFinalizar, En, Ir, InvSinRecursos, InvPlanificacion, InvBase, Tipos,
     TiposDeHilos, TiposDeContadores, Lineas, Parada, Unidades, Tomado, Retenido, ExecTo,
     ConExecTo, Hilos, Transiciones, colas, grados, recursos, hiloCorto, hiloConsola
<1>11. CASE Reanudar
  BY <1>11 DEF Reanudar, postear_todas, En, Ir, InvSinRecursos, InvPlanificacion, InvBase,
     Tipos, TiposDeHilos, TiposDeContadores, Lineas, Parada, Unidades, Tomado, Retenido,
     ExecTo, ConExecTo, Hilos, Transiciones, colas, grados, recursos, hiloCorto, hiloConsola
<1>12. CASE TomarDeNew
  BY <1>12 DEF TomarDeNew, En, Ir, InvSinRecursos, InvPlanificacion, InvBase, Tipos,
     TiposDeHilos, TiposDeContadores, Lineas, Parada, Unidades, Tomado, Retenido, ExecTo,
     ConExecTo, Hilos, Transiciones, colas, grados, recursos, hiloCorto, hiloConsola
<1>13. CASE RespuestaMemoria
  BY <1>13 DEF RespuestaMemoria, En, Ir, InvSinRecursos, InvPlanificacion, InvBase, Tipos,
     TiposDeHilos, TiposDeContadores, Lineas, Parada, Unidades, Tomado, Retenido, ExecTo,
     ConExecTo, Hilos, Transiciones, colas, grados, recursos, hiloCorto, hiloConsola
<1>14. CASE EsperarReady
  BY <1>14 DEF EsperarReady, En, Ir, InvSinRecursos, InvPlanificacion, InvBase, Tipos,
     TiposDeHilos, TiposDeContadores, Lineas, Parada, Unidades, Tomado, Retenido, ExecTo,
     ConExecTo, Hilos, Transiciones, colas, grados, recursos, hiloCorto, hiloConsola
<1>15. CASE Despachar
  BY <1>15 DEF Despachar, En, Ir, InvSinRecursos, InvPlanificacion, InvBase, Tipos,
     TiposDeHilos, TiposDeContadores, Lineas, Parada, Unidades, Tomado, Retenido, ExecTo,
     ConExecTo, Hilos, Transiciones, colas, grados, recursos, hiloCorto, hiloConsola
<1>16. ASSUME NEW m \in Motivos, Desalojo(m)
      PROVE  InvSinRecursos'
  BY <1>16 DEF Desalojo, En, Ir, InvSinRecursos, InvPlanificacion, InvBase, Tipos,
     TiposDeHilos, TiposDeContadores, Lineas, Parada, Unidades, Tomado, Retenido, ExecTo,
     ConExecTo, Hilos, Transiciones, colas, grados, recursos, hiloCorto, hiloConsola
<1>17. CASE EsperarExecTo
  BY <1>17 DEF EsperarExecTo, En, Ir, InvSinRecursos, InvPlanificacion, InvBase, Tipos,
     TiposDeHilos, TiposDeContadores, Lineas, Parada, Unidades, Tomado, Retenido, ExecTo,
     ConExecTo, Hilos, Transiciones, colas, grados, recursos, hiloCorto, hiloConsola
<1>18. CASE ConsultarPendiente
  BY <1>18 DEF ConsultarPendiente, En, Ir, InvSinRecursos, InvPlanificacion, InvBase, Tipos,
     TiposDeHilos, TiposDeContadores, Lineas, Parada, Unidades, Tomado, Retenido, ExecTo,
     ConExecTo, Hilos, Transiciones, colas, grados, recursos, hiloCorto, hiloConsola
<1>19. CASE TomarDeExec
  BY <1>19 DEF TomarDeExec, En, Ir, InvSinRecursos, InvPlanificacion, InvBase, Tipos,
     TiposDeHilos, TiposDeContadores, Lineas, Parada, Unidades, Tomado, Retenido, ExecTo,
     ConExecTo, Hilos, Transiciones, colas, grados, recursos, hiloCorto, hiloConsola
<1>20. CASE ManejarSalida
  BY <1>20 DEF ManejarSalida, FinManejo, En, Ir, InvSinRecursos, InvPlanificacion, InvBase,
     Tipos, TiposDeHilos, TiposDeContadores, Lineas, Parada, Unidades, Tomado, Retenido,
     ExecTo, ConExecTo, Hilos, Transiciones, colas, grados, recursos, hiloCorto, hiloConsola
<1>21. CASE ManejarFinQuantum
  BY <1>21 DEF ManejarFinQuantum, FinManejo, En, Ir, InvSinRecursos, InvPlanificacion,
     InvBase, Tipos, TiposDeHilos, TiposDeContadores, Lineas, Parada, Unidades, Tomado,
     Retenido, ExecTo, ConExecTo, Hilos, Transiciones, colas, grados, recursos, hiloCorto,
     hiloConsola
<1>22. CASE ManejarIO
  BY <1>22 DEF ManejarIO, FinManejo, En, Ir, InvSinRecursos, InvPlanificacion, InvBase,
     Tipos, TiposDeHilos, TiposDeContadores, Lineas, Parada, Unidades, Tomado, Retenido,
     ExecTo, ConExecTo, Hilos, Transiciones, colas, grados, recursos, hiloCorto, hiloConsola
<1>23. CASE ManejarWait
  BY <1>23 DEF ManejarWait, FinManejo, En, Ir, InvSinRecursos, InvPlanificacion, InvBase,
     Tipos, TiposDeHilos, TiposDeContadores, Lineas, Parada, Unidades, Tomado, Retenido,
     ExecTo, ConExecTo, Hilos, Transiciones, colas, grados, recursos, hiloCorto, hiloConsola
<1>24. CASE ManejarSignal
  BY <1>24 DEF ManejarSignal, En, Ir, InvSinRecursos, InvPlanificacion, InvBase, Tipos,
     TiposDeHilos, TiposDeContadores, Lineas, Parada, Unidades, Tomado, Retenido, ExecTo,
     ConExecTo, Hilos, Transiciones, colas, grados, recursos, hiloCorto, hiloConsola
<1>25. CASE SeguirEjecutando
  BY <1>25 DEF SeguirEjecutando, En, Ir, InvSinRecursos, InvPlanificacion, InvBase, Tipos,
     TiposDeHilos, TiposDeContadores, Lineas, Parada, Unidades, Tomado, Retenido, ExecTo,
     ConExecTo, Hilos, Transiciones, colas, grados, recursos, hiloCorto, hiloConsola
<1>26. CASE EsperarControl \/ EsperarGrado \/ EsperarNew \/ TomarDeExit \/ liberar_recurso
           \/ eliminar_pcb \/ (\E p \in Pids : iniciar_proceso(p) \/ FinIO(p)) \/ UNCHANGED
           vars
  BY <1>26 DEF vars, iniciar_proceso, En, EsperarControl, Ir, EsperarGrado, EsperarNew,
     FinIO, TomarDeExit, liberar_recurso, eliminar_pcb, InvSinRecursos, InvPlanificacion,
     InvBase, Tipos, TiposDeHilos, TiposDeContadores, Lineas, Parada, Unidades, Tomado,
     Retenido, ExecTo, ConExecTo, Hilos, Transiciones, colas, grados, recursos, hiloCorto,
     hiloConsola
<1>27. QED
  BY <1>1, <1>2, <1>3, <1>4, <1>5, <1>6, <1>7, <1>8, <1>9, <1>10, <1>11, <1>12, <1>13,
     <1>14, <1>15, <1>16, <1>17, <1>18, <1>19, <1>20, <1>21, <1>22, <1>23, <1>24, <1>25,
     <1>26 DEF Next, PasoConsola, PasoLargo, PasoCorto, PasoInterfaz, PasoExit

(* If no process does a WAIT or a SIGNAL there is never an excess of posts, *)
(* and everything above holds for ever.                                    *)
THEOREM SinRecursosNoHayExceso ==
  ASSUME Motivos \cap {"COP_WAIT", "COP_SIGNAL"} = {}
  PROVE  Spec => []SinExceso
<1>1. Init => InvSinRecursos
  BY DEF Init, InvSinRecursos, Unidades, Tomado, Retenido, ExecTo, ConExecTo, Hilos, Transiciones
<1>2. InvPlanificacion /\ InvSinRecursos /\ [Next]_vars => InvSinRecursos'
  BY SinRecursosPaso
<1>3. InvSinRecursos => SinExceso
  BY DEF InvSinRecursos, SinExceso
<1>4. QED
  BY <1>1, <1>2, <1>3, InvarianteDePlanificacion, PTL DEF Spec

=============================================================================
