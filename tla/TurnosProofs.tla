----------------------------- MODULE TurnosProofs -----------------------------
(***************************************************************************)
(* Proofs about Turnos, for every set of processes, every quantum, the     *)
(* three algorithms and every bound of the interrupts and of the timers.   *)
(***************************************************************************)
EXTENDS Turnos, SecuenciasProofs, SequenceTheorems, TLAPS

-----------------------------------------------------------------------------
(* The inductive invariant.                                                *)

Estados == {"NEW", "READY", "READY_PLUS", "EXEC", "BLOCKED", "EXIT"}
Listas == {"READY", "READY_PLUS"}
EnTurno == {"despacha", "recibe", "traba", "cancela", "maneja", "sigue"}
Quien == Procesos \cup {Ninguno}

TiposDeProcesos ==
  /\ algoritmo \in Algoritmos
  /\ estado \in [Procesos -> Estados]
  /\ listos \in [Listas -> Seq(Procesos)]
  /\ inicial \in [Procesos -> Int]
  /\ restante \in [Procesos -> Int]

TiposDelTurno ==
  /\ linea \in {"elige", "espera"} \cup EnTurno
  /\ elegida \in Listas
  /\ cuenta \in [quantum : Int, pid : Quien]
  /\ reloj \in Nat

TiposDelTimer ==
  timer \in [estado : {"no", "duerme", "despierto", "envia", "enviado"},
             falta : Int, pid : Quien]

TiposDeLaCpu ==
  cpu \in [linea : {"recibe", "ejecuta", "chequea"}, pid : Quien, salir : BOOLEAN]

Tipos == TiposDeProcesos /\ TiposDelTurno /\ TiposDelTimer /\ TiposDeLaCpu

(* Each process of the list is in the state l, and there once. *)
ColaDe(s, l, e) ==
  \A i, j \in 1..Len(s) : e[s[i]] = l /\ (s[i] = s[j] => i = j)

Colas == \A l \in Listas : ColaDe(listos[l], l, estado)

(* The process of the turn is in EXEC, whatever the console and the        *)
(* interfaces do meanwhile, and those that wait for a resource in BLOCKED. *)
TurnoEnExec ==
  /\ linea \in EnTurno => pcb \in Procesos /\ estado[pcb] = "EXEC"
  /\ \A p \in porRecurso : p \in Procesos /\ estado[p] = "BLOCKED"

(* The quantums of every process, wherever it is. *)
Quantums ==
  \A p \in Procesos :
    /\ inicial[p] \in 1..QUANTUM
    /\ restante[p] <= inicial[p]
    /\ algoritmo # "VRR" => restante[p] = QUANTUM

(* Where the context of the turn is. *)
UnaVuelta ==
  /\ cpu.linea = "ejecuta" => ~cpu.salir
  /\ IF linea = "recibe"
       THEN \/ alCpu = <<pcb>> /\ ~EnCpu /\ alKernel = <<>>
            \/ alCpu = <<>> /\ EnCpu /\ cpu.pid = pcb /\ alKernel = <<>>
            \/ alCpu = <<>> /\ ~EnCpu
                 /\ alKernel = <<[pid |-> pcb, motivo |-> Head(alKernel).motivo]>>
       ELSE alCpu = <<>> /\ ~EnCpu /\ alKernel = <<>>

(* The quantum that the turn started with. *)
limite == IF algoritmo = "VRR" THEN inicial[pcb] ELSE QUANTUM

(* What the clock, the parameters of the timer and the timer add up to.    *)
Relojes ==
  /\ linea \in {"elige", "espera"} => reloj = 0
  /\ linea = "despacha" => cuenta.quantum + reloj <= limite
  /\ linea \in {"maneja", "sigue"} /\ algoritmo = "VRR" => restante[pcb] = inicial[pcb] - reloj
  /\ timer.estado = "duerme" => linea \in {"recibe", "traba", "cancela"}
  /\ algoritmo = "FIFO" => timer.estado = "no"
  /\ timer.estado = "duerme" /\ timer.falta > 0 => timer.falta + reloj <= limite

InvTurnos ==
  Tipos /\ Colas /\ TurnoEnExec /\ Quantums /\ QuantumEnRango /\ UnaVuelta /\ Relojes

-----------------------------------------------------------------------------
(* Lists of processes.                                                     *)

(* A list without a process: the others, in their places or the next ones. *)
LEMMA SinProceso ==
  ASSUME NEW s \in Seq(Procesos), NEW p, NEW e, NEW l, ColaDe(s, l, e)
  PROVE  /\ Sin(s, p) \in Seq(Procesos)
         /\ ColaDe(Sin(s, p), l, e)
         /\ \A i \in 1..Len(Sin(s, p)) : Sin(s, p)[i] # p
<1>1. Len(s) \in Nat /\ DOMAIN s = 1..Len(s)
  BY LenProperties
<1>2. CASE \E i \in DOMAIN s : s[i] = p
  <2> DEFINE x == CHOOSE i \in DOMAIN s : s[i] = p
             t == RemoveAt(s, x)
             viejo(j) == IF j < x THEN j ELSE j + 1
  <2>1. x \in 1..Len(s) /\ s[x] = p
    BY <1>1, <1>2
  <2>2. Sin(s, p) = t
    BY <1>2 DEF Sin
  <2> HIDE DEF x
  <2>3. t \in Seq(Procesos) /\ Len(t) = Len(s) - 1 /\ \A j \in 1..Len(s) - 1 : t[j] = s[viejo(j)]
    BY <2>1, SinElemento
  <2> HIDE DEF t
  <2>4. \A j \in 1..Len(t) : viejo(j) \in 1..Len(s) /\ viejo(j) # x /\ t[j] = s[viejo(j)]
    BY <1>1, <2>1, <2>3
  <2>5. \A i, j \in 1..Len(t) : viejo(i) = viejo(j) => i = j
    BY <1>1, <2>1, <2>3
  <2> HIDE DEF viejo
  <2>6. ASSUME NEW i \in 1..Len(t), NEW j \in 1..Len(t)
        PROVE  /\ e[t[i]] = l /\ t[i] # p
               /\ t[i] = t[j] => i = j
    <3>1. /\ viejo(i) \in 1..Len(s) /\ viejo(i) # x /\ t[i] = s[viejo(i)]
          /\ viejo(j) \in 1..Len(s) /\ t[j] = s[viejo(j)]
      BY <2>4
    <3>2. /\ e[s[viejo(i)]] = l
          /\ s[viejo(i)] = s[viejo(j)] => viejo(i) = viejo(j)
          /\ s[viejo(i)] = s[x] => viejo(i) = x
      BY <2>1, <3>1 DEF ColaDe
    <3>3. QED
      BY <2>1, <2>5, <3>1, <3>2
  <2>7. ColaDe(t, l, e) /\ \A i \in 1..Len(t) : t[i] # p
    BY <2>6 DEF ColaDe
  <2>8. QED
    BY <2>2, <2>3, <2>7
<1>3. CASE ~\E i \in DOMAIN s : s[i] = p
  BY <1>1, <1>3 DEF Sin
<1>4. QED
  BY <1>2, <1>3

(* The state of a process that is not in the list changes. *)
LEMMA ColaConOtro ==
  ASSUME NEW s \in Seq(Procesos), NEW e \in [Procesos -> Estados], NEW l, ColaDe(s, l, e),
         NEW p \in Procesos, NEW m, \A i \in 1..Len(s) : s[i] # p
  PROVE  ColaDe(s, l, [e EXCEPT ![p] = m])
<1>1. \A i \in 1..Len(s) : s[i] \in Procesos
  BY ElementOfSeq
<1>2. QED
  BY <1>1 DEF ColaDe

(* A process goes to the end of the list. *)
LEMMA ColaConUnoMas ==
  ASSUME NEW s \in Seq(Procesos), NEW e \in [Procesos -> Estados], NEW l, ColaDe(s, l, e),
         NEW p \in Procesos, e[p] # l
  PROVE  ColaDe(Append(s, p), l, [e EXCEPT ![p] = l])
<1> DEFINE t == Append(s, p)
           f == [e EXCEPT ![p] = l]
<1>1. /\ Len(s) \in Nat
      /\ Len(t) = Len(s) + 1
      /\ \A i \in 1..Len(s) : t[i] = s[i]
      /\ t[Len(s) + 1] = p
  BY AppendProperties, LenProperties
<1>2. \A i \in 1..Len(s) : s[i] \in Procesos /\ e[s[i]] = l /\ s[i] # p
  BY ElementOfSeq DEF ColaDe
<1>3. f[p] = l /\ \A i \in 1..Len(s) : f[s[i]] = l
  BY <1>2
<1> HIDE DEF t, f
<1>4. ASSUME NEW i \in 1..Len(t), NEW j \in 1..Len(t)
      PROVE  f[t[i]] = l /\ (t[i] = t[j] => i = j)
  <2>1. i \in 1..Len(s) \/ i = Len(s) + 1
    BY <1>1
  <2>2. j \in 1..Len(s) \/ j = Len(s) + 1
    BY <1>1
  <2>3. QED
    BY <1>1, <1>2, <1>3, <2>1, <2>2 DEF ColaDe
<1>5. QED
  BY <1>4 DEF ColaDe, t, f

(* The first of the list leaves it. *)
LEMMA ColaConUnoMenos ==
  ASSUME NEW s \in Seq(Procesos), NEW e, NEW l, ColaDe(s, l, e), s # <<>>
  PROVE  /\ Head(s) \in Procesos /\ e[Head(s)] = l
         /\ Tail(s) \in Seq(Procesos) /\ ColaDe(Tail(s), l, e)
         /\ \A i \in 1..Len(Tail(s)) : Tail(s)[i] # Head(s)
<1> DEFINE t == Tail(s)
           h == Head(s)
<1>1. /\ Len(s) \in Nat /\ 1 \in 1..Len(s)
      /\ h \in Procesos /\ h = s[1]
      /\ t \in Seq(Procesos) /\ Len(t) = Len(s) - 1
      /\ \A i \in 1..Len(t) : t[i] = s[i + 1] /\ i + 1 \in 1..Len(s)
  <2>1. Len(s) \in Nat /\ Len(s) # 0
    BY LenProperties, EmptySeq
  <2>2. QED
    BY <2>1, HeadTailProperties
<1> HIDE DEF t, h
<1>2. e[h] = l /\ ColaDe(t, l, e) /\ \A i \in 1..Len(t) : t[i] # h
  BY <1>1 DEF ColaDe
<1>3. QED
  BY <1>1, <1>2 DEF t, h

(* What the steps below do to the state, the lists and the quantums. *)
LEMMA EncolarTipo ==
  ASSUME TiposDeProcesos, NEW p \in Procesos, NEW l \in Listas, encolar(p, l)
  PROVE  /\ estado' = [estado EXCEPT ![p] = l] /\ estado' \in [Procesos -> Estados]
         /\ listos' \in [Listas -> Seq(Procesos)]
<1>1. Append(listos[l], p) \in Seq(Procesos)
  BY AppendProperties DEF TiposDeProcesos
<1>2. QED
  BY <1>1 DEF encolar, TiposDeProcesos, Listas, Estados

\* poner_quantum writes both fields of the PCB of one process.
LEMMA PonerTipo ==
  ASSUME TiposDeProcesos, NEW p \in Procesos, NEW n \in Int, poner_quantum(p, n)
  PROVE  /\ inicial' = [inicial EXCEPT ![p] = n] /\ inicial' \in [Procesos -> Int]
         /\ restante' = [restante EXCEPT ![p] = n] /\ restante' \in [Procesos -> Int]
  BY DEF poner_quantum, TiposDeProcesos

\* A change of state leaves the two lists as they were.
LEMMA PasarTipo ==
  ASSUME TiposDeProcesos, NEW p \in Procesos, NEW e \in Estados, pasar(p, e)
  PROVE  /\ estado' = [estado EXCEPT ![p] = e] /\ estado' \in [Procesos -> Estados]
         /\ listos' = listos /\ listos' \in [Listas -> Seq(Procesos)]
  BY DEF pasar, TiposDeProcesos

-----------------------------------------------------------------------------
(* The lists and the states.                                               *)

(* A process that is in no list changes its state and stays in none. *)
LEMMA ColasTrasPasar ==
  ASSUME TiposDeProcesos, Colas, NEW p \in Procesos, NEW m, estado[p] \notin Listas,
         estado' = [estado EXCEPT ![p] = m], listos' = listos
  PROVE  Colas'
<1>1. ASSUME NEW l \in Listas
      PROVE  ColaDe(listos[l], l, [estado EXCEPT ![p] = m])
  <2>1. listos[l] \in Seq(Procesos) /\ ColaDe(listos[l], l, estado)
    BY DEF TiposDeProcesos, Colas
  <2>2. \A i \in 1..Len(listos[l]) : listos[l][i] # p
    BY <2>1 DEF ColaDe
  <2>3. QED
    BY <2>1, <2>2, ColaConOtro DEF TiposDeProcesos
<1>2. QED
  BY <1>1 DEF Colas

(* A process that is in no list goes to one. *)
LEMMA ColasTrasEncolar ==
  ASSUME TiposDeProcesos, Colas, NEW p \in Procesos, NEW l \in Listas, estado[p] \notin Listas,
         encolar(p, l)
  PROVE  Colas'
<1>1. estado' = [estado EXCEPT ![p] = l] /\ listos' = [listos EXCEPT ![l] = Append(@, p)]
  BY DEF encolar
<1>2. ASSUME NEW k \in Listas
      PROVE  ColaDe(listos'[k], k, estado')
  <2>1. listos[k] \in Seq(Procesos) /\ ColaDe(listos[k], k, estado)
    BY DEF TiposDeProcesos, Colas
  <2>2. CASE k = l
    <3>1. listos'[k] = Append(listos[k], p)
      BY <1>1, <2>2 DEF TiposDeProcesos
    <3>2. ColaDe(Append(listos[k], p), k, [estado EXCEPT ![p] = k])
      BY <2>1, ColaConUnoMas DEF TiposDeProcesos
    <3>3. QED
      BY <1>1, <2>2, <3>1, <3>2
  <2>3. CASE k # l
    <3>1. listos'[k] = listos[k]
      BY <1>1, <2>3 DEF TiposDeProcesos
    <3>2. \A i \in 1..Len(listos[k]) : listos[k][i] # p
      BY <2>1 DEF ColaDe
    <3>3. ColaDe(listos[k], k, [estado EXCEPT ![p] = l])
      BY <2>1, <3>2, ColaConOtro DEF TiposDeProcesos
    <3>4. QED
      BY <1>1, <3>1, <3>3
  <2>4. QED
    BY <2>2, <2>3
<1>3. QED
  BY <1>2 DEF Colas

(* The process that leaves its turn without going back to a list. *)
LEMMA TrasSalir ==
  ASSUME TiposDeProcesos, Colas, pcb \in Procesos, estado[pcb] = "EXEC",
         NEW e \in {"BLOCKED", "EXIT"}, salir_a(e), UNCHANGED algoritmo
  PROVE  /\ TiposDeProcesos' /\ Colas'
         /\ estado' = [estado EXCEPT ![pcb] = e]
         /\ listos' = listos
         /\ \/ e = "BLOCKED" /\ inicial' = inicial /\ restante' = restante
            \/ e = "EXIT" /\ inicial' = [inicial EXCEPT ![pcb] = QUANTUM]
                          /\ restante' = [restante EXCEPT ![pcb] = QUANTUM]
<1>1. e \in Estados
  BY DEF Estados
<1>2. pasar(pcb, e) /\ al_pasar(pcb, e)
  BY DEF salir_a
<1>3. /\ estado' = [estado EXCEPT ![pcb] = e] /\ estado' \in [Procesos -> Estados]
      /\ listos' = listos /\ listos' \in [Listas -> Seq(Procesos)]
  BY <1>1, <1>2, PasarTipo
<1>4. Colas'
  BY <1>3, ColasTrasPasar DEF Listas
<1>5. CASE e = "EXIT"
  <2>1. poner_quantum(pcb, QUANTUM)
    BY <1>2, <1>5 DEF al_pasar
  <2>2. QED
    BY <1>3, <1>4, <1>5, <2>1, PonerTipo, TurnosAssumption DEF TiposDeProcesos
<1>6. CASE e = "BLOCKED"
  BY <1>2, <1>3, <1>4, <1>6 DEF al_pasar, TiposDeProcesos
<1>7. QED
  BY <1>5, <1>6

(* The process that goes to READY with its quantum complete. *)
LEMMA TrasReponer ==
  ASSUME TiposDeProcesos, Colas, NEW p \in Procesos, estado[p] \notin Listas,
         encolar(p, "READY"), poner_quantum(p, QUANTUM), UNCHANGED algoritmo
  PROVE  /\ TiposDeProcesos' /\ Colas'
         /\ estado' = [estado EXCEPT ![p] = "READY"]
         /\ inicial' = [inicial EXCEPT ![p] = QUANTUM]
         /\ restante' = [restante EXCEPT ![p] = QUANTUM]
<1>1. "READY" \in Listas /\ QUANTUM \in Int
  BY TurnosAssumption DEF Listas
<1>2. QED
  BY <1>1, EncolarTipo, PonerTipo, ColasTrasEncolar DEF TiposDeProcesos

(* The process that is killed out of EXEC. *)
LEMMA TrasMatar ==
  ASSUME TiposDeProcesos, Colas, NEW p \in Procesos, estado[p] # "EXEC", finalizar_proceso(p)
  PROVE  /\ TiposDeProcesos' /\ Colas'
         /\ estado' = [estado EXCEPT ![p] = "EXIT"]
         /\ inicial' = [inicial EXCEPT ![p] = QUANTUM]
         /\ restante' = [restante EXCEPT ![p] = QUANTUM]
<1>1. /\ estado' = [estado EXCEPT ![p] = "EXIT"]
      /\ poner_quantum(p, QUANTUM)
      /\ listos' = [l \in DOMAIN listos |-> Sin(listos[l], p)]
      /\ UNCHANGED algoritmo
  BY DEF finalizar_proceso, al_pasar
<1>2. estado' \in [Procesos -> Estados]
  BY <1>1 DEF TiposDeProcesos, Estados
<1>3. ASSUME NEW l \in Listas
      PROVE  /\ listos'[l] = Sin(listos[l], p) /\ listos'[l] \in Seq(Procesos)
             /\ ColaDe(listos'[l], l, estado')
  <2>1. listos[l] \in Seq(Procesos) /\ ColaDe(listos[l], l, estado)
    BY DEF TiposDeProcesos, Colas
  <2>2. /\ Sin(listos[l], p) \in Seq(Procesos)
        /\ ColaDe(Sin(listos[l], p), l, estado)
        /\ \A i \in 1..Len(Sin(listos[l], p)) : Sin(listos[l], p)[i] # p
    BY <2>1, SinProceso
  <2>3. ColaDe(Sin(listos[l], p), l, [estado EXCEPT ![p] = "EXIT"])
    BY <2>2, ColaConOtro DEF TiposDeProcesos
  <2>4. listos'[l] = Sin(listos[l], p)
    BY <1>1 DEF TiposDeProcesos
  <2>5. QED
    BY <1>1, <2>2, <2>3, <2>4
<1>4. listos' \in [Listas -> Seq(Procesos)]
  BY <1>1, <1>3 DEF TiposDeProcesos
<1>5. Colas'
  BY <1>3 DEF Colas
<1>6. /\ inicial' = [inicial EXCEPT ![p] = QUANTUM] /\ inicial' \in [Procesos -> Int]
      /\ restante' = [restante EXCEPT ![p] = QUANTUM] /\ restante' \in [Procesos -> Int]
  <2>1. QUANTUM \in Int
    BY TurnosAssumption
  <2>2. QED
    BY <1>1, <2>1, PonerTipo
<1>7. QED
  BY <1>1, <1>2, <1>4, <1>5, <1>6 DEF TiposDeProcesos

(* The planner takes the first of a list. *)
LEMMA TrasDesencolar ==
  ASSUME Tipos, Colas, Desencolar
  PROVE  /\ pcb' \in Procesos /\ estado[pcb'] = elegida
         /\ estado' = [estado EXCEPT ![pcb'] = "EXEC"]
         /\ listos' \in [Listas -> Seq(Procesos)]
         /\ Colas'
<1> DEFINE s == listos[elegida]
<1>1. /\ elegida \in Listas /\ s \in Seq(Procesos) /\ ColaDe(s, elegida, estado) /\ s # <<>>
      /\ estado \in [Procesos -> Estados]
  BY DEF Tipos, TiposDeProcesos, TiposDelTurno, Colas, Desencolar
<1>2. /\ pcb' = Head(s)
      /\ estado' = [estado EXCEPT ![Head(s)] = "EXEC"]
      /\ listos' = [listos EXCEPT ![elegida] = Tail(s)]
  BY DEF Desencolar
<1>3. /\ Head(s) \in Procesos /\ estado[Head(s)] = elegida
      /\ Tail(s) \in Seq(Procesos) /\ ColaDe(Tail(s), elegida, estado)
      /\ \A i \in 1..Len(Tail(s)) : Tail(s)[i] # Head(s)
  BY <1>1, ColaConUnoMenos
<1>4. ColaDe(Tail(s), elegida, [estado EXCEPT ![Head(s)] = "EXEC"])
  BY <1>1, <1>3, ColaConOtro
<1>5. ASSUME NEW l \in Listas, l # elegida
      PROVE  ColaDe(listos[l], l, [estado EXCEPT ![Head(s)] = "EXEC"])
  <2>1. listos[l] \in Seq(Procesos) /\ ColaDe(listos[l], l, estado)
    BY DEF Tipos, TiposDeProcesos, Colas
  <2>2. \A i \in 1..Len(listos[l]) : listos[l][i] # Head(s)
    BY <1>3, <1>5, <2>1 DEF ColaDe
  <2>3. QED
    BY <1>1, <1>3, <2>1, <2>2, ColaConOtro
<1>6. listos \in [Listas -> Seq(Procesos)]
  BY DEF Tipos, TiposDeProcesos
<1> HIDE DEF s
<1>7. listos' \in [Listas -> Seq(Procesos)]
  BY <1>1, <1>2, <1>3, <1>6
<1>8. \A l \in Listas : listos'[l] = IF l = elegida THEN Tail(s) ELSE listos[l]
  BY <1>1, <1>2, <1>6
<1>9. Colas'
  BY <1>2, <1>4, <1>5, <1>8 DEF Colas
<1>10. QED
  BY <1>2, <1>3, <1>7, <1>9

-----------------------------------------------------------------------------
(* Every step preserves each part of the invariant.                        *)

(* The processes and the lists that they are in. *)
LEMMA ProcesosPaso ==
  ASSUME Tipos, Colas, TurnoEnExec, [Next]_vars
  PROVE  TiposDeProcesos' /\ Colas'
<1>1. CASE Desencolar
  BY <1>1, TrasDesencolar DEF Desencolar, Tipos, TiposDeProcesos, Estados
<1>2. CASE CancelarTimer
  <2>1. pcb \in Procesos /\ inicial[pcb] - reloj \in Int
    BY <1>2 DEF CancelarTimer, Tipos, TiposDeProcesos, TiposDelTurno, TurnoEnExec, EnTurno
  <2>2. QED
    BY <1>2, <2>1 DEF CancelarTimer, Tipos, TiposDeProcesos, Colas
<1>3. CASE ManejarFin
  BY <1>3, TrasSalir DEF ManejarFin, Tipos, TurnoEnExec, EnTurno, Listas
<1>4. CASE ManejarQuantum
  BY <1>4, TrasReponer DEF ManejarQuantum, manejar, fin_quantum, Tipos, TurnoEnExec, EnTurno, Listas
<1>5. CASE ManejarIO
  BY <1>5, TrasSalir DEF ManejarIO, manejar, Tipos, TurnoEnExec, EnTurno, Listas
<1>6. CASE ManejarWait
  <2>1. pcb \in Procesos /\ estado[pcb] = "EXEC" /\ estado[pcb] \notin Listas /\ UNCHANGED algoritmo
    BY <1>6 DEF ManejarWait, manejar, TurnoEnExec, EnTurno, Listas
  <2>2. CASE UNCHANGED <<estado, listos, inicial, restante>>
    BY <1>6, <2>1, <2>2 DEF Tipos, TiposDeProcesos, Colas
  <2>3. CASE \E e \in {"BLOCKED", "EXIT"} : salir_a(e)
    BY <2>1, <2>3, TrasSalir DEF Tipos
  <2>4. QED
    BY <1>6, <2>2, <2>3 DEF ManejarWait
<1>7. CASE ManejarSignal
  <2>1. pcb \in Procesos /\ estado[pcb] = "EXEC" /\ estado[pcb] \notin Listas /\ UNCHANGED algoritmo
    BY <1>7 DEF ManejarSignal, manejar, TurnoEnExec, EnTurno, Listas
  <2>2. CASE UNCHANGED <<estado, listos, inicial, restante>>
    BY <1>7, <2>1, <2>2 DEF Tipos, TiposDeProcesos, Colas
  <2>3. CASE \E w \in porRecurso : despertar(w)
    BY <2>1, <2>3, TrasReponer DEF despertar, Tipos, TurnoEnExec, Listas
  <2>4. CASE salir_a("EXIT")
    BY <2>1, <2>4, TrasSalir DEF Tipos
  <2>5. QED
    BY <1>7, <2>2, <2>3, <2>4 DEF ManejarSignal
<1>8. CASE Seguir
  <2>1. pcb \in Procesos /\ estado[pcb] = "EXEC" /\ estado[pcb] \notin Listas /\ UNCHANGED algoritmo
    BY <1>8 DEF Seguir, TurnoEnExec, EnTurno, Listas
  <2>2. CASE UNCHANGED <<estado, listos, inicial, restante>>
    BY <1>8, <2>1, <2>2 DEF Tipos, TiposDeProcesos, Colas
  <2>3. CASE fin_quantum(pcb)
    BY <2>1, <2>3, TrasReponer DEF fin_quantum, Tipos
  <2>4. QED
    BY <1>8, <2>2, <2>3 DEF Seguir
<1>9. ASSUME NEW p \in Procesos, Admitir(p)
      PROVE  TiposDeProcesos' /\ Colas'
  BY <1>9, EncolarTipo, ColasTrasEncolar DEF Admitir, Tipos, TiposDeProcesos, Listas
<1>10. ASSUME NEW p \in Procesos, FinIO(p)
      PROVE  TiposDeProcesos' /\ Colas'
  <2>1. estado[p] \notin Listas /\ UNCHANGED algoritmo
    BY <1>10 DEF FinIO, Listas
  <2>2. CASE encolar(p, "READY") /\ UNCHANGED <<inicial, restante>>
    BY <2>1, <2>2, EncolarTipo, ColasTrasEncolar DEF Tipos, TiposDeProcesos, Listas
  <2>3. CASE encolar(p, "READY_PLUS") /\ poner_quantum(p, restante[p])
    <3>1. restante[p] \in Int /\ "READY_PLUS" \in Listas
      BY DEF Tipos, TiposDeProcesos, Listas
    <3>2. QED
      BY <2>1, <2>3, <3>1, EncolarTipo, PonerTipo, ColasTrasEncolar DEF Tipos, TiposDeProcesos
  <2>4. CASE fin_quantum(p)
    BY <2>1, <2>4, TrasReponer DEF fin_quantum, Tipos
  <2>5. QED
    BY <1>10, <2>2, <2>3, <2>4 DEF FinIO
<1>11. ASSUME NEW p \in Procesos, LiberarRecurso(p)
      PROVE  TiposDeProcesos' /\ Colas'
  BY <1>11, TrasReponer DEF LiberarRecurso, despertar, Tipos, TurnoEnExec, Listas
<1>12. ASSUME NEW p \in Procesos, finalizar_proceso(p)
      PROVE  TiposDeProcesos' /\ Colas'
  <2>1. CASE estado[p] = "EXEC"
    BY <1>12, <2>1 DEF finalizar_proceso, Tipos, TiposDeProcesos, Colas
  <2>2. CASE estado[p] # "EXEC"
    BY <1>12, <2>2, TrasMatar DEF Tipos
  <2>3. QED
    BY <2>1, <2>2
<1>13. CASE ElegirLista \/ Despachar \/ Recibir \/ TomarMutexQuantum \/
           Despertar \/ ProbarMutex \/ EnviarQuantum \/ TimerTardio \/ Tick \/
           RecibirContexto \/ Ejecutar \/ check_interrupt \/
           atender_cpu_kernel_interrupt \/ UNCHANGED vars
  BY <1>13 DEF vars, ElegirLista, Despachar, SinTimer, Recibir, TomarMutexQuantum,
     Despertar, ProbarMutex, EnviarQuantum, TimerTardio, Tick, duerme, corre_reloj,
     RecibirContexto, Ejecutar, enviar_pcb_kernel, check_interrupt, CpuLibre,
     atender_cpu_kernel_interrupt, Tipos, TiposDeProcesos, Colas, procesos,
     planificador, contador, ladoCpu
<1>14. QED
  BY <1>1, <1>2, <1>3, <1>4, <1>5, <1>6, <1>7, <1>8, <1>9, <1>10, <1>11, <1>12, <1>13
     DEF Next, Planificador, ContarQuantum, CicloCpu

(* Nobody takes the process of the turn out of EXEC but the turn itself. *)
LEMMA TurnoEnExecPaso ==
  ASSUME Tipos, Colas, TurnoEnExec, [Next]_vars
  PROVE  TurnoEnExec'
<1>1. CASE Desencolar
  BY <1>1, TrasDesencolar
     DEF Desencolar, TurnoEnExec, EnTurno, Tipos, TiposDeProcesos, TiposDelTurno, Listas
<1>2. CASE CancelarTimer
  BY <1>2 DEF CancelarTimer, SinTimer, TurnoEnExec, EnTurno
<1>3. CASE ManejarFin
  <2>1. pcb \in Procesos /\ estado[pcb] = "EXEC"
    BY <1>3 DEF ManejarFin, TurnoEnExec, EnTurno
  <2>2. QED
    BY <1>3, <2>1, TrasSalir DEF ManejarFin, salir_a, FinTurno, TurnoEnExec, EnTurno, Tipos,
       TiposDeProcesos
<1>4. CASE ManejarQuantum
  <2>1. pcb \in Procesos /\ estado[pcb] = "EXEC"
    BY <1>4 DEF ManejarQuantum, manejar, TurnoEnExec, EnTurno
  <2>2. estado' = [estado EXCEPT ![pcb] = "READY"]
    <3>1. /\ encolar(pcb, "READY") /\ poner_quantum(pcb, QUANTUM) /\ UNCHANGED algoritmo
          /\ estado[pcb] \notin Listas /\ TiposDeProcesos
      BY <1>4, <2>1 DEF ManejarQuantum, manejar, fin_quantum, Tipos, Listas
    <3>2. QED
      BY <2>1, <3>1, TrasReponer
  <2>3. linea' = "elige" /\ porRecurso' = porRecurso
    BY <1>4 DEF ManejarQuantum, FinTurno
  <2>4. QED
    BY <2>1, <2>2, <2>3 DEF TurnoEnExec, EnTurno, Tipos, TiposDeProcesos
<1>5. CASE ManejarIO
  <2>1. pcb \in Procesos /\ estado[pcb] = "EXEC"
    BY <1>5 DEF ManejarIO, manejar, TurnoEnExec, EnTurno
  <2>2. QED
    BY <1>5, <2>1, TrasSalir DEF ManejarIO, manejar, salir_a, FinTurno, TurnoEnExec, EnTurno,
       Tipos, TiposDeProcesos
<1>6. CASE ManejarWait
  <2>1. pcb \in Procesos /\ estado[pcb] = "EXEC"
    BY <1>6 DEF ManejarWait, manejar, TurnoEnExec, EnTurno
  <2>2. CASE a_seguir /\ UNCHANGED <<estado, porRecurso>>
    BY <2>1, <2>2 DEF a_seguir, TurnoEnExec, EnTurno
  <2>3. CASE salir_a("BLOCKED") /\ porRecurso' = porRecurso \cup {pcb}
    BY <1>6, <2>1, <2>3, TrasSalir DEF ManejarWait, manejar, salir_a, FinTurno, TurnoEnExec,
       EnTurno, Tipos, TiposDeProcesos
  <2>4. CASE salir_a("EXIT") /\ UNCHANGED porRecurso
    BY <1>6, <2>1, <2>4, TrasSalir DEF ManejarWait, manejar, salir_a, FinTurno, TurnoEnExec,
       EnTurno, Tipos, TiposDeProcesos
  <2>5. QED
    BY <1>6, <2>2, <2>3, <2>4 DEF ManejarWait
<1>7. CASE ManejarSignal
  <2>1. pcb \in Procesos /\ estado[pcb] = "EXEC"
    BY <1>7 DEF ManejarSignal, manejar, TurnoEnExec, EnTurno
  <2>2. CASE a_seguir /\ UNCHANGED <<estado, porRecurso>>
    BY <2>1, <2>2 DEF a_seguir, TurnoEnExec, EnTurno
  <2>3. ASSUME a_seguir, NEW w \in porRecurso, despertar(w)
        PROVE  TurnoEnExec'
    <3>1. w \in Procesos /\ w # pcb /\ estado[w] = "BLOCKED"
      BY <2>1 DEF TurnoEnExec
    <3>2. /\ estado' = [estado EXCEPT ![w] = "READY"]
          /\ porRecurso' = porRecurso \ {w}
          /\ linea' = "sigue" /\ pcb' = pcb
      BY <2>3 DEF a_seguir, despertar, encolar
    <3>3. QED
      BY <2>1, <3>1, <3>2 DEF TurnoEnExec, EnTurno, Tipos, TiposDeProcesos
  <2>4. CASE salir_a("EXIT") /\ UNCHANGED porRecurso
    BY <1>7, <2>1, <2>4, TrasSalir DEF ManejarSignal, manejar, salir_a, FinTurno, TurnoEnExec,
       EnTurno, Tipos, TiposDeProcesos
  <2>5. QED
    BY <1>7, <2>2, <2>3, <2>4 DEF ManejarSignal
<1>8. CASE Seguir
  <2>1. pcb \in Procesos /\ estado[pcb] = "EXEC"
    BY <1>8 DEF Seguir, TurnoEnExec, EnTurno
  <2>2. CASE linea' = "despacha" /\ UNCHANGED <<estado, pcb>>
    BY <1>8, <2>1, <2>2 DEF Seguir, TurnoEnExec, EnTurno
  <2>3. CASE fin_quantum(pcb) /\ FinTurno
    BY <1>8, <2>1, <2>3, TrasReponer DEF Seguir, fin_quantum, FinTurno, TurnoEnExec,
       EnTurno, Tipos, TiposDeProcesos, Listas
  <2>4. QED
    BY <1>8, <2>2, <2>3 DEF Seguir
<1>9. ASSUME NEW p \in Procesos, Admitir(p)
      PROVE  TurnoEnExec'
  BY <1>9 DEF Admitir, encolar, planificador, TurnoEnExec, EnTurno, Tipos, TiposDeProcesos
<1>10. ASSUME NEW p \in Procesos, FinIO(p)
      PROVE  TurnoEnExec'
  <2>1. \E l \in Listas : estado' = [estado EXCEPT ![p] = l]
    BY <1>10 DEF FinIO, fin_quantum, encolar, Listas
  <2>2. QED
    BY <1>10, <2>1 DEF FinIO, planificador, TurnoEnExec, EnTurno, Tipos, TiposDeProcesos
<1>11. ASSUME NEW p \in Procesos, LiberarRecurso(p)
      PROVE  TurnoEnExec'
  BY <1>11 DEF LiberarRecurso, despertar, encolar, planificador, TurnoEnExec, EnTurno, Tipos,
     TiposDeProcesos
<1>12. ASSUME NEW p \in Procesos, finalizar_proceso(p)
      PROVE  TurnoEnExec'
  <2>1. CASE estado[p] = "EXEC"
    BY <1>12, <2>1 DEF finalizar_proceso, planificador, TurnoEnExec, EnTurno
  <2>2. CASE estado[p] # "EXEC"
    BY <1>12, <2>2, TrasMatar
       DEF finalizar_proceso, planificador, TurnoEnExec, EnTurno, Tipos, TiposDeProcesos
  <2>3. QED
    BY <2>1, <2>2
<1>13. CASE ElegirLista \/ Despachar \/ Recibir \/ TomarMutexQuantum \/
           Despertar \/ ProbarMutex \/ EnviarQuantum \/ TimerTardio \/ Tick \/
           RecibirContexto \/ Ejecutar \/ check_interrupt \/
           atender_cpu_kernel_interrupt \/ UNCHANGED vars
  BY <1>13 DEF vars, ElegirLista, Despachar, SinTimer, Recibir, TomarMutexQuantum,
     Despertar, ProbarMutex, EnviarQuantum, TimerTardio, Tick, duerme, corre_reloj,
     RecibirContexto, Ejecutar, enviar_pcb_kernel, check_interrupt, CpuLibre,
     atender_cpu_kernel_interrupt, TurnoEnExec, EnTurno, procesos, planificador,
     contador, ladoCpu
<1>14. QED
  BY <1>1, <1>2, <1>3, <1>4, <1>5, <1>6, <1>7, <1>8, <1>9, <1>10, <1>11, <1>12, <1>13
     DEF Next, Planificador, ContarQuantum, CicloCpu

(* A process with its quantum complete in READY, or about to be freed. *)
LEMMA QuantumsTrasReponer ==
  ASSUME TiposDeProcesos, Quantums, QuantumEnRango, NEW p \in Procesos,
         NEW e \in {"READY", "EXIT"},
         estado' = [estado EXCEPT ![p] = e],
         inicial' = [inicial EXCEPT ![p] = QUANTUM],
         restante' = [restante EXCEPT ![p] = QUANTUM],
         UNCHANGED algoritmo
  PROVE  Quantums' /\ QuantumEnRango'
<1>1. QUANTUM \in Nat \ {0}
  BY TurnosAssumption
<1>2. QED
  BY <1>1 DEF TiposDeProcesos, Quantums, QuantumEnRango

(* A process that goes to where nothing is asked of its quantums. *)
LEMMA QuantumsTrasPasar ==
  ASSUME TiposDeProcesos, Quantums, QuantumEnRango, NEW p \in Procesos,
         NEW e \in {"EXEC", "BLOCKED"},
         estado' = [estado EXCEPT ![p] = e],
         UNCHANGED <<algoritmo, inicial, restante>>
  PROVE  Quantums' /\ QuantumEnRango'
  BY DEF TiposDeProcesos, Quantums, QuantumEnRango

(* The process that leaves its turn. *)
LEMMA QuantumsTrasSalir ==
  ASSUME TiposDeProcesos, Colas, Quantums, QuantumEnRango, pcb \in Procesos, estado[pcb] = "EXEC",
         NEW e \in {"BLOCKED", "EXIT"}, salir_a(e), UNCHANGED algoritmo
  PROVE  Quantums' /\ QuantumEnRango'
  BY TrasSalir, QuantumsTrasReponer, QuantumsTrasPasar

(* The quantums of the PCBs. *)
LEMMA QuantumsPaso ==
  ASSUME Tipos, Colas, TurnoEnExec, Quantums, QuantumEnRango, [Next]_vars
  PROVE  Quantums' /\ QuantumEnRango'
<1>1. CASE Desencolar
  BY <1>1, TrasDesencolar, QuantumsTrasPasar DEF Desencolar, Tipos
<1>2. CASE CancelarTimer
  <2>1. pcb \in Procesos /\ estado[pcb] = "EXEC" /\ reloj \in Nat
    BY <1>2 DEF CancelarTimer, TurnoEnExec, EnTurno, Tipos, TiposDelTurno
  <2>2. CASE algoritmo = "VRR"
    <3>1. /\ restante' = [restante EXCEPT ![pcb] = inicial[pcb] - reloj]
          /\ UNCHANGED <<estado, inicial, algoritmo>>
      BY <1>2, <2>2 DEF CancelarTimer
    <3>2. inicial[pcb] - reloj <= inicial[pcb]
      BY <2>1 DEF Tipos, TiposDeProcesos
    <3>3. QED
      BY <2>1, <2>2, <3>1, <3>2 DEF Tipos, TiposDeProcesos, Quantums, QuantumEnRango
  <2>3. CASE algoritmo # "VRR"
    BY <1>2, <2>3 DEF CancelarTimer, Quantums, QuantumEnRango
  <2>4. QED
    BY <2>2, <2>3
<1>3. CASE ManejarFin
  <2>1. pcb \in Procesos /\ estado[pcb] = "EXEC" /\ estado[pcb] \notin Listas /\ UNCHANGED algoritmo
    BY <1>3 DEF ManejarFin, TurnoEnExec, EnTurno, Listas
  <2>2. QED
    BY <1>3, <2>1, QuantumsTrasSalir DEF ManejarFin, Tipos
<1>4. CASE ManejarQuantum
  <2>1. pcb \in Procesos /\ estado[pcb] = "EXEC" /\ estado[pcb] \notin Listas /\ UNCHANGED algoritmo
    BY <1>4 DEF ManejarQuantum, manejar, TurnoEnExec, EnTurno, Listas
  <2>2. QED
    BY <1>4, <2>1, TrasReponer, QuantumsTrasReponer DEF ManejarQuantum, fin_quantum, Tipos
<1>5. CASE ManejarIO
  <2>1. pcb \in Procesos /\ estado[pcb] = "EXEC" /\ estado[pcb] \notin Listas /\ UNCHANGED algoritmo
    BY <1>5 DEF ManejarIO, manejar, TurnoEnExec, EnTurno, Listas
  <2>2. QED
    BY <1>5, <2>1, QuantumsTrasSalir DEF ManejarIO, Tipos
<1>6. CASE ManejarWait
  <2>1. pcb \in Procesos /\ estado[pcb] = "EXEC" /\ estado[pcb] \notin Listas /\ UNCHANGED algoritmo
    BY <1>6 DEF ManejarWait, manejar, TurnoEnExec, EnTurno, Listas
  <2>2. CASE UNCHANGED <<estado, inicial, restante>>
    BY <2>1, <2>2 DEF Quantums, QuantumEnRango
  <2>3. CASE \E e \in {"BLOCKED", "EXIT"} : salir_a(e)
    BY <2>1, <2>3, QuantumsTrasSalir DEF Tipos
  <2>4. QED
    BY <1>6, <2>2, <2>3 DEF ManejarWait
<1>7. CASE ManejarSignal
  <2>1. pcb \in Procesos /\ estado[pcb] = "EXEC" /\ estado[pcb] \notin Listas /\ UNCHANGED algoritmo
    BY <1>7 DEF ManejarSignal, manejar, TurnoEnExec, EnTurno, Listas
  <2>2. CASE UNCHANGED <<estado, inicial, restante>>
    BY <2>1, <2>2 DEF Quantums, QuantumEnRango
  <2>3. CASE \E w \in porRecurso : despertar(w)
    BY <2>1, <2>3, TrasReponer, QuantumsTrasReponer DEF despertar, Tipos, TurnoEnExec, Listas
  <2>4. CASE salir_a("EXIT")
    BY <2>1, <2>4, QuantumsTrasSalir DEF Tipos
  <2>5. QED
    BY <1>7, <2>2, <2>3, <2>4 DEF ManejarSignal
<1>8. CASE Seguir
  <2>1. pcb \in Procesos /\ estado[pcb] = "EXEC" /\ estado[pcb] \notin Listas /\ UNCHANGED algoritmo
    BY <1>8 DEF Seguir, TurnoEnExec, EnTurno, Listas
  <2>2. CASE UNCHANGED <<estado, inicial, restante>>
    BY <2>1, <2>2 DEF Quantums, QuantumEnRango
  <2>3. CASE fin_quantum(pcb)
    BY <2>1, <2>3, TrasReponer, QuantumsTrasReponer DEF fin_quantum, Tipos
  <2>4. QED
    BY <1>8, <2>2, <2>3 DEF Seguir
<1>9. ASSUME NEW p \in Procesos, Admitir(p)
      PROVE  Quantums' /\ QuantumEnRango'
  BY <1>9 DEF Admitir, encolar, Tipos, TiposDeProcesos, Quantums, QuantumEnRango
<1>10. ASSUME NEW p \in Procesos, FinIO(p)
      PROVE  Quantums' /\ QuantumEnRango'
  <2>1. estado[p] \notin Listas /\ UNCHANGED algoritmo
    BY <1>10 DEF FinIO, Listas
  <2>2. QUANTUM \in Nat \ {0} /\ inicial[p] \in 1..QUANTUM /\ restante[p] <= inicial[p]
        /\ restante[p] \in Int
    BY TurnosAssumption DEF Quantums, Tipos, TiposDeProcesos
  <2>3. CASE restante[p] = QUANTUM /\ encolar(p, "READY") /\ UNCHANGED <<inicial, restante>>
    <3>1. inicial[p] = QUANTUM
      BY <2>2, <2>3
    <3>2. QED
      BY <2>1, <2>3, <3>1 DEF encolar, Tipos, TiposDeProcesos, Quantums, QuantumEnRango
  <2>4. CASE /\ restante[p] # QUANTUM /\ restante[p] > 0
             /\ encolar(p, "READY_PLUS") /\ poner_quantum(p, restante[p])
    <3>1. restante[p] \in 1..QUANTUM - 1 /\ algoritmo = "VRR"
      BY <2>2, <2>4 DEF Quantums
    <3>2. QED
      BY <2>1, <2>2, <2>4, <3>1
         DEF encolar, poner_quantum, Tipos, TiposDeProcesos, Quantums, QuantumEnRango
  <2>5. CASE fin_quantum(p)
    BY <2>1, <2>5, TrasReponer, QuantumsTrasReponer DEF fin_quantum, Tipos
  <2>6. QED
    BY <1>10, <2>3, <2>4, <2>5 DEF FinIO
<1>11. ASSUME NEW p \in Procesos, LiberarRecurso(p)
      PROVE  Quantums' /\ QuantumEnRango'
  BY <1>11, TrasReponer, QuantumsTrasReponer
     DEF LiberarRecurso, despertar, Tipos, TurnoEnExec, Listas
<1>12. ASSUME NEW p \in Procesos, finalizar_proceso(p)
      PROVE  Quantums' /\ QuantumEnRango'
  <2>1. CASE estado[p] = "EXEC"
    BY <1>12, <2>1 DEF finalizar_proceso, Quantums, QuantumEnRango
  <2>2. CASE estado[p] # "EXEC"
    <3>1. UNCHANGED algoritmo
      BY <1>12 DEF finalizar_proceso
    <3>2. QED
      BY <1>12, <2>2, <3>1, TrasMatar, QuantumsTrasReponer DEF Tipos
  <2>3. QED
    BY <2>1, <2>2
<1>13. CASE ElegirLista \/ Despachar \/ Recibir \/ TomarMutexQuantum \/
           Despertar \/ ProbarMutex \/ EnviarQuantum \/ TimerTardio \/ Tick \/
           RecibirContexto \/ Ejecutar \/ check_interrupt \/
           atender_cpu_kernel_interrupt \/ UNCHANGED vars
  BY <1>13 DEF vars, ElegirLista, Despachar, SinTimer, Recibir, TomarMutexQuantum,
     Despertar, ProbarMutex, EnviarQuantum, TimerTardio, Tick, duerme, corre_reloj,
     RecibirContexto, Ejecutar, enviar_pcb_kernel, check_interrupt, CpuLibre,
     atender_cpu_kernel_interrupt, Quantums, QuantumEnRango, procesos, planificador,
     contador, ladoCpu
<1>14. QED
  BY <1>1, <1>2, <1>3, <1>4, <1>5, <1>6, <1>7, <1>8, <1>9, <1>10, <1>11, <1>12, <1>13
     DEF Next, Planificador, ContarQuantum, CicloCpu

(* The variables of the planner. *)
LEMMA TurnoPaso ==
  ASSUME Tipos, Colas, TurnoEnExec, [Next]_vars
  PROVE  TiposDelTurno'
<1>1. CASE ElegirLista
  BY <1>1, TurnosAssumption DEF ElegirLista, Tipos, TiposDelTurno, EnTurno, Listas,
     Quien
<1>2. CASE Desencolar
  <2>1. /\ pcb' \in Procesos
        /\ cuenta' = [quantum |-> IF algoritmo = "VRR" THEN inicial[pcb'] ELSE QUANTUM,
                      pid |-> pcb']
    BY <1>2, TrasDesencolar DEF Desencolar
  <2>2. QED
    BY <1>2, <2>1, TurnosAssumption
       DEF Desencolar, Tipos, TiposDeProcesos, TiposDelTurno, EnTurno, Quien
<1>3. CASE Despachar
  BY <1>3, TurnosAssumption DEF Despachar, SinTimer, Tipos, TiposDelTurno, EnTurno,
     Listas, Quien
<1>4. CASE Recibir
  BY <1>4, TurnosAssumption DEF Recibir, Tipos, TiposDelTurno, EnTurno, Listas, Quien
<1>5. CASE TomarMutexQuantum
  BY <1>5, TurnosAssumption DEF TomarMutexQuantum, Tipos, TiposDelTurno, EnTurno,
     Listas, Quien
<1>6. CASE CancelarTimer
  BY <1>6, TurnosAssumption DEF CancelarTimer, SinTimer, Tipos, TiposDelTurno, EnTurno,
     Listas, Quien
<1>7. CASE ManejarFin
  BY <1>7, TurnosAssumption DEF ManejarFin, salir_a, pasar, al_pasar, poner_quantum,
     FinTurno, SinCuenta, Tipos, TiposDelTurno, EnTurno, Listas, Quien
<1>8. CASE ManejarQuantum
  BY <1>8, TurnosAssumption DEF ManejarQuantum, manejar, fin_quantum, poner_quantum,
     FinTurno, SinCuenta, Tipos, TiposDelTurno, EnTurno, Listas, Quien
<1>9. CASE ManejarIO
  BY <1>9, TurnosAssumption DEF ManejarIO, manejar, salir_a, pasar, al_pasar,
     poner_quantum, FinTurno, SinCuenta, Tipos, TiposDelTurno, EnTurno, Listas, Quien
<1>10. CASE ManejarWait
  BY <1>10, TurnosAssumption DEF ManejarWait, manejar, a_seguir, salir_a, pasar,
     al_pasar, poner_quantum, FinTurno, SinCuenta, Tipos, TiposDelTurno, EnTurno,
     Listas, Quien
<1>11. CASE ManejarSignal
  <2>1. a_seguir \/ FinTurno
    BY <1>11 DEF ManejarSignal, salir_a
  <2>2. QED
    BY <1>11, <2>1 DEF ManejarSignal, manejar, a_seguir, FinTurno, SinCuenta, Tipos,
       TiposDelTurno, EnTurno, Listas, Quien
<1>12. CASE Seguir
  <2>1. CASE FinTurno
    BY <2>1 DEF FinTurno, SinCuenta, Tipos, TiposDelTurno, EnTurno, Listas, Quien
  <2>2. CASE \E p \in pid_del_timer : /\ cuenta' = [quantum |-> sobra, pid |-> p]
                                     /\ linea' = "despacha"
                                     /\ UNCHANGED <<elegida, reloj>>
    <3>1. pcb \in Procesos
      BY <1>12 DEF Seguir, TurnoEnExec, EnTurno
    <3>2. sobra \in Int
      BY <3>1, TurnosAssumption DEF sobra, Tipos, TiposDeProcesos, TiposDelTurno
    <3>3. pid_del_timer \subseteq Quien
      BY <3>1 DEF pid_del_timer, Tipos, TiposDelTurno, Quien
    <3>4. QED
      BY <2>2, <3>2, <3>3 DEF Tipos, TiposDelTurno, EnTurno
  <2>3. QED
    BY <1>12, <2>1, <2>2 DEF Seguir
<1>13. CASE Tick
  BY <1>13, TurnosAssumption DEF Tick, duerme, corre_reloj, Tipos, TiposDelTurno,
     EnTurno, Listas, Quien
<1>14. CASE Despertar \/ ProbarMutex \/ EnviarQuantum \/ TimerTardio \/
           RecibirContexto \/ Ejecutar \/ check_interrupt \/
           atender_cpu_kernel_interrupt \/ UNCHANGED vars
  BY <1>14, TurnosAssumption DEF vars, Despertar, ProbarMutex, SinTimer, EnviarQuantum,
     TimerTardio, RecibirContexto, Ejecutar, enviar_pcb_kernel, check_interrupt,
     CpuLibre, atender_cpu_kernel_interrupt, Admitir, FinIO, fin_quantum, poner_quantum,
     LiberarRecurso, despertar, finalizar_proceso, al_pasar, Tipos, TiposDelTurno,
     EnTurno, Listas, Quien, procesos, planificador, contador, ladoCpu
<1>15. CASE \E p \in Procesos : Admitir(p) \/ FinIO(p) \/ LiberarRecurso(p) \/ finalizar_proceso(p)
  BY <1>15, TurnosAssumption DEF Despertar, ProbarMutex, SinTimer, EnviarQuantum,
     TimerTardio, RecibirContexto, Ejecutar, enviar_pcb_kernel, check_interrupt,
     CpuLibre, atender_cpu_kernel_interrupt, Admitir, FinIO, fin_quantum, poner_quantum,
     LiberarRecurso, despertar, finalizar_proceso, al_pasar, Tipos, TiposDelTurno,
     EnTurno, Listas, Quien, procesos, planificador, contador, ladoCpu
<1>16. QED
  BY <1>1, <1>2, <1>3, <1>4, <1>5, <1>6, <1>7, <1>8, <1>9, <1>10, <1>11, <1>12, <1>13,
     <1>14, <1>15 DEF Next, Planificador, ContarQuantum, CicloCpu

(* The thread that counts. *)
LEMMA TimerPaso ==
  ASSUME Tipos, [Next]_vars
  PROVE  TiposDelTimer'
<1>1. CASE Despachar
  BY <1>1 DEF Despachar, SinTimer, Tipos, TiposDelTurno, TiposDelTimer, Quien
<1>2. CASE CancelarTimer
  BY <1>2 DEF CancelarTimer, SinTimer, Tipos, TiposDelTurno, TiposDelTimer, Quien
<1>3. CASE Despertar
  BY <1>3 DEF Despertar, Tipos, TiposDelTurno, TiposDelTimer, Quien
<1>4. CASE ProbarMutex
  BY <1>4 DEF ProbarMutex, SinTimer, Tipos, TiposDelTurno, TiposDelTimer, Quien
<1>5. CASE EnviarQuantum
  BY <1>5 DEF EnviarQuantum, SinTimer, Tipos, TiposDelTurno, TiposDelTimer, Quien
<1>6. CASE Tick
  BY <1>6 DEF Tick, duerme, corre_reloj, Tipos, TiposDelTurno, TiposDelTimer, Quien
<1>7. CASE ElegirLista \/ Desencolar \/ Recibir \/ TomarMutexQuantum \/
           ManejarFin \/ ManejarQuantum \/ ManejarIO \/ ManejarWait \/
           ManejarSignal \/ Seguir \/ TimerTardio \/ RecibirContexto \/ Ejecutar
           \/ check_interrupt \/ atender_cpu_kernel_interrupt \/ UNCHANGED vars
  BY <1>7 DEF vars, ElegirLista, Desencolar, Recibir, TomarMutexQuantum, ManejarFin,
     salir_a, pasar, al_pasar, poner_quantum, FinTurno, SinCuenta, ManejarQuantum,
     manejar, fin_quantum, ManejarIO, ManejarWait, a_seguir, ManejarSignal, despertar,
     Seguir, sobra, pid_del_timer, TimerTardio, RecibirContexto, Ejecutar,
     enviar_pcb_kernel, check_interrupt, CpuLibre, atender_cpu_kernel_interrupt,
     Admitir, FinIO, LiberarRecurso, finalizar_proceso, Tipos, TiposDelTurno,
     TiposDelTimer, Quien, procesos, planificador, contador, ladoCpu
<1>8. CASE \E p \in Procesos : Admitir(p) \/ FinIO(p) \/ LiberarRecurso(p) \/ finalizar_proceso(p)
  BY <1>8 DEF ElegirLista, Desencolar, Recibir, TomarMutexQuantum, ManejarFin, salir_a,
     pasar, al_pasar, poner_quantum, FinTurno, SinCuenta, ManejarQuantum, manejar,
     fin_quantum, ManejarIO, ManejarWait, a_seguir, ManejarSignal, despertar, Seguir,
     sobra, pid_del_timer, TimerTardio, RecibirContexto, Ejecutar, enviar_pcb_kernel,
     check_interrupt, CpuLibre, atender_cpu_kernel_interrupt, Admitir, FinIO,
     LiberarRecurso, finalizar_proceso, Tipos, TiposDelTurno, TiposDelTimer, Quien,
     procesos, planificador, contador, ladoCpu
<1>9. QED
  BY <1>1, <1>2, <1>3, <1>4, <1>5, <1>6, <1>7, <1>8 DEF Next, Planificador,
     ContarQuantum, CicloCpu

(* The CPU: a context that arrives is of a process. *)
LEMMA CpuPaso ==
  ASSUME Tipos, UnaVuelta, TurnoEnExec, [Next]_vars
  PROVE  TiposDeLaCpu'
<1>1. CASE RecibirContexto
  <2>1. linea = "recibe" /\ alCpu = <<pcb>> /\ pcb \in Procesos
    BY <1>1 DEF RecibirContexto, UnaVuelta, TurnoEnExec, EnTurno
  <2>2. cpu' = [linea |-> "ejecuta", pid |-> pcb, salir |-> FALSE]
    BY <1>1, <2>1 DEF RecibirContexto
  <2>3. QED
    BY <2>1, <2>2 DEF TiposDeLaCpu, Quien
<1>2. CASE Ejecutar
  BY <1>2 DEF Ejecutar, enviar_pcb_kernel, Tipos, TiposDeLaCpu, Quien
<1>3. CASE check_interrupt
  <2>1. cpu' = CpuLibre \/ cpu' = [cpu EXCEPT !.linea = "ejecuta"]
    BY <1>3 DEF check_interrupt
  <2>2. CASE cpu' = CpuLibre
    BY <2>2 DEF CpuLibre, TiposDeLaCpu, Quien
  <2>3. CASE cpu' = [cpu EXCEPT !.linea = "ejecuta"]
    BY <2>3 DEF Tipos, TiposDeLaCpu
  <2>4. QED
    BY <2>1, <2>2, <2>3
<1>4. CASE ElegirLista \/ Desencolar \/ Despachar \/ Recibir \/
           TomarMutexQuantum \/ CancelarTimer \/ ManejarFin \/ ManejarQuantum \/
           ManejarIO \/ ManejarWait \/ ManejarSignal \/ Seguir \/ Despertar \/
           ProbarMutex \/ EnviarQuantum \/ TimerTardio \/ Tick \/
           atender_cpu_kernel_interrupt \/ UNCHANGED vars
  BY <1>4 DEF vars, ElegirLista, Desencolar, Despachar, SinTimer, Recibir,
     TomarMutexQuantum, CancelarTimer, ManejarFin, salir_a, pasar, al_pasar,
     poner_quantum, FinTurno, SinCuenta, ManejarQuantum, manejar, fin_quantum,
     ManejarIO, ManejarWait, a_seguir, ManejarSignal, despertar, Seguir, sobra,
     pid_del_timer, Despertar, ProbarMutex, EnviarQuantum, TimerTardio, Tick, duerme,
     corre_reloj, atender_cpu_kernel_interrupt, Admitir, FinIO, LiberarRecurso,
     finalizar_proceso, Tipos, TiposDeLaCpu, Quien, procesos, planificador, contador,
     ladoCpu
<1>5. CASE \E p \in Procesos : Admitir(p) \/ FinIO(p) \/ LiberarRecurso(p) \/ finalizar_proceso(p)
  BY <1>5 DEF ElegirLista, Desencolar, Despachar, SinTimer, Recibir, TomarMutexQuantum,
     CancelarTimer, ManejarFin, salir_a, pasar, al_pasar, poner_quantum, FinTurno,
     SinCuenta, ManejarQuantum, manejar, fin_quantum, ManejarIO, ManejarWait, a_seguir,
     ManejarSignal, despertar, Seguir, sobra, pid_del_timer, Despertar, ProbarMutex,
     EnviarQuantum, TimerTardio, Tick, duerme, corre_reloj,
     atender_cpu_kernel_interrupt, Admitir, FinIO, LiberarRecurso, finalizar_proceso,
     Tipos, TiposDeLaCpu, Quien, procesos, planificador, contador, ladoCpu
<1>6. QED
  BY <1>1, <1>2, <1>3, <1>4, <1>5 DEF Next, Planificador, ContarQuantum, CicloCpu

(* The context of the turn goes round: to the CPU, in it, and back. *)
LEMMA VueltaPaso ==
  ASSUME Tipos, UnaVuelta, [Next]_vars
  PROVE  UnaVuelta'
<1>1. CASE ElegirLista
  BY <1>1 DEF ElegirLista, UnaVuelta, EnCpu, ladoCpu
<1>2. CASE Desencolar
  BY <1>2 DEF Desencolar, UnaVuelta, EnCpu, ladoCpu
<1>3. CASE Despachar
  BY <1>3 DEF Despachar, SinTimer, UnaVuelta, EnCpu, ladoCpu
<1>4. CASE Recibir
  <2>1. linea = "recibe" /\ alCpu = <<>> /\ ~EnCpu /\ \E x : alKernel = <<x>>
    BY <1>4 DEF Recibir, UnaVuelta
  <2>2. alKernel' = <<>> /\ linea' # "recibe" /\ UNCHANGED <<alCpu, cpu>>
    BY <1>4, <2>1 DEF Recibir
  <2>3. QED
    BY <2>1, <2>2 DEF UnaVuelta, EnCpu
<1>5. CASE TomarMutexQuantum
  BY <1>5 DEF TomarMutexQuantum, UnaVuelta, EnCpu, ladoCpu
<1>6. CASE CancelarTimer
  BY <1>6 DEF CancelarTimer, SinTimer, UnaVuelta, EnCpu, ladoCpu
<1>7. CASE ManejarFin
  BY <1>7 DEF ManejarFin, salir_a, pasar, al_pasar, poner_quantum, FinTurno, SinCuenta,
     UnaVuelta, EnCpu, ladoCpu
<1>8. CASE ManejarQuantum
  BY <1>8 DEF ManejarQuantum, manejar, fin_quantum, poner_quantum, FinTurno, SinCuenta,
     UnaVuelta, EnCpu, ladoCpu
<1>9. CASE ManejarIO
  BY <1>9 DEF ManejarIO, manejar, salir_a, pasar, al_pasar, poner_quantum, FinTurno,
     SinCuenta, UnaVuelta, EnCpu, ladoCpu
<1>10. CASE ManejarWait
  BY <1>10 DEF ManejarWait, manejar, a_seguir, salir_a, pasar, al_pasar, poner_quantum,
     FinTurno, SinCuenta, UnaVuelta, EnCpu, ladoCpu
<1>11. CASE ManejarSignal
  BY <1>11 DEF ManejarSignal, manejar, a_seguir, despertar, salir_a, pasar, al_pasar,
     poner_quantum, FinTurno, SinCuenta, UnaVuelta, EnCpu, ladoCpu
<1>12. CASE Seguir
  BY <1>12 DEF Seguir, sobra, pid_del_timer, fin_quantum, poner_quantum, FinTurno,
     SinCuenta, UnaVuelta, EnCpu, ladoCpu
<1>13. CASE RecibirContexto
  <2>1. linea = "recibe" /\ alCpu = <<pcb>> /\ alKernel = <<>>
    BY <1>13 DEF RecibirContexto, UnaVuelta
  <2>2. /\ cpu' = [linea |-> "ejecuta", pid |-> pcb, salir |-> FALSE]
        /\ alCpu' = <<>>
        /\ UNCHANGED <<linea, pcb, alKernel>>
    BY <1>13, <2>1 DEF RecibirContexto, planificador
  <2>3. QED
    BY <2>1, <2>2 DEF UnaVuelta, EnCpu
<1>14. CASE Ejecutar
  <2>1. /\ linea = "recibe" /\ alCpu = <<>> /\ cpu.pid = pcb /\ ~cpu.salir /\ alKernel = <<>>
        /\ UNCHANGED <<linea, pcb, alCpu>>
    BY <1>14 DEF Ejecutar, UnaVuelta, EnCpu, planificador
  <2>2. CASE cpu' = [cpu EXCEPT !.linea = "chequea"] /\ UNCHANGED alKernel
    BY <2>1, <2>2 DEF UnaVuelta, EnCpu, Tipos, TiposDeLaCpu
  <2>3. CASE /\ cpu' = [cpu EXCEPT !.linea = "chequea", !.salir = TRUE]
             /\ \E m \in DeInstruccion : enviar_pcb_kernel(m)
    <3>1. PICK m \in DeInstruccion : enviar_pcb_kernel(m)
      BY <2>3
    <3>2. alKernel' = <<[pid |-> pcb, motivo |-> m]>>
      BY <2>1, <3>1 DEF enviar_pcb_kernel
    <3>3. alKernel' = <<[pid |-> pcb, motivo |-> Head(alKernel').motivo]>>
      BY <3>2
    <3>4. cpu'.linea = "chequea" /\ cpu'.salir
      BY <2>3 DEF Tipos, TiposDeLaCpu
    <3>5. QED
      BY <2>1, <3>3, <3>4 DEF UnaVuelta, EnCpu
  <2>4. QED
    BY <1>14, <2>2, <2>3 DEF Ejecutar
<1>15. CASE check_interrupt
  <2>1. UNCHANGED <<linea, pcb, alCpu>> /\ cpu.linea = "chequea"
    BY <1>15 DEF check_interrupt, planificador
  <2>2. CASE cpu.salir
    <3>1. cpu' = CpuLibre /\ alKernel' = alKernel
      BY <1>15, <2>2 DEF check_interrupt
    <3>2. QED
      BY <2>1, <2>2, <3>1 DEF UnaVuelta, EnCpu, CpuLibre
  <2>3. CASE ~cpu.salir
    <3>1. linea = "recibe" /\ alCpu = <<>> /\ cpu.pid = pcb /\ alKernel = <<>>
      BY <2>1, <2>3 DEF UnaVuelta, EnCpu
    <3>2. CASE cpu' = [cpu EXCEPT !.linea = "ejecuta"] /\ UNCHANGED alKernel
      BY <2>1, <2>3, <3>1, <3>2 DEF UnaVuelta, EnCpu, Tipos, TiposDeLaCpu
    <3>3. CASE cpu' = CpuLibre /\ enviar_pcb_kernel(diccionario[cpu.pid])
      <4>1. alKernel' = <<[pid |-> pcb, motivo |-> diccionario[cpu.pid]]>>
        BY <3>1, <3>3 DEF enviar_pcb_kernel
      <4>2. alKernel' = <<[pid |-> pcb, motivo |-> Head(alKernel').motivo]>>
        BY <4>1
      <4>3. QED
        BY <2>1, <3>1, <3>3, <4>2 DEF UnaVuelta, EnCpu, CpuLibre
    <3>4. QED
      BY <1>15, <2>3, <3>2, <3>3 DEF check_interrupt
  <2>4. QED
    BY <2>2, <2>3
<1>16. CASE Despertar \/ ProbarMutex \/ EnviarQuantum \/ TimerTardio \/ Tick \/
           atender_cpu_kernel_interrupt \/ UNCHANGED vars
  BY <1>16 DEF vars, Despertar, ProbarMutex, SinTimer, EnviarQuantum, TimerTardio, Tick,
     duerme, corre_reloj, atender_cpu_kernel_interrupt, Admitir, FinIO, fin_quantum,
     poner_quantum, LiberarRecurso, despertar, finalizar_proceso, al_pasar, UnaVuelta,
     EnCpu, ladoCpu, procesos, planificador, contador, ladoCpu
<1>17. CASE \E p \in Procesos : Admitir(p) \/ FinIO(p) \/ LiberarRecurso(p) \/ finalizar_proceso(p)
  BY <1>17 DEF Despertar, ProbarMutex, SinTimer, EnviarQuantum, TimerTardio, Tick,
     duerme, corre_reloj, atender_cpu_kernel_interrupt, Admitir, FinIO, fin_quantum,
     poner_quantum, LiberarRecurso, despertar, finalizar_proceso, al_pasar, UnaVuelta,
     EnCpu, ladoCpu, procesos, planificador, contador, ladoCpu
<1>18. QED
  BY <1>1, <1>2, <1>3, <1>4, <1>5, <1>6, <1>7, <1>8, <1>9, <1>10, <1>11, <1>12, <1>13,
     <1>14, <1>15, <1>16, <1>17 DEF Next, Planificador, ContarQuantum, CicloCpu

(* A step that is not of the planner nor of the clock, and leaves the      *)
(* quantums of the process of the turn alone.                              *)
LEMMA RelojesSinTurno ==
  ASSUME Relojes,
         UNCHANGED <<algoritmo, linea, pcb, cuenta, reloj, timer>>,
         linea \in EnTurno => inicial'[pcb] = inicial[pcb] /\ restante'[pcb] = restante[pcb]
  PROVE  Relojes'
  BY DEF Relojes, limite, EnTurno

(* The end of a turn: the timer has been cancelled. *)
LEMMA RelojesTrasFin ==
  ASSUME Relojes, linea \in {"maneja", "sigue"}, FinTurno, UNCHANGED <<algoritmo, timer>>
  PROVE  Relojes'
  BY DEF Relojes, FinTurno

(* The turn goes on after a WAIT or a SIGNAL. *)
LEMMA RelojesAlSeguir ==
  ASSUME Relojes, linea = "maneja", a_seguir, UNCHANGED <<algoritmo, timer>>,
         inicial'[pcb] = inicial[pcb], restante'[pcb] = restante[pcb]
  PROVE  Relojes'
  BY DEF Relojes, a_seguir

(* The clock of the turn and the thread that counts. *)
LEMMA RelojesPaso ==
  ASSUME Tipos, Colas, TurnoEnExec, Relojes, [Next]_vars
  PROVE  Relojes'
<1>1. CASE ElegirLista
  BY <1>1 DEF ElegirLista, Relojes, limite, procesos, planificador, contador, Tipos,
     TiposDelTimer
<1>2. CASE Desencolar
  <2>1. /\ linea = "espera" /\ linea' = "despacha" /\ pcb' \in Procesos
        /\ cuenta'.quantum = IF algoritmo = "VRR" THEN inicial[pcb'] ELSE QUANTUM
        /\ UNCHANGED <<algoritmo, inicial, reloj, timer>>
    BY <1>2, TrasDesencolar DEF Desencolar, contador
  <2>2. reloj = 0 /\ timer.estado # "duerme"
    BY <2>1 DEF Relojes
  <2>3. cuenta'.quantum + reloj' <= limite'
    <3>1. QUANTUM \in Int /\ inicial[pcb'] \in Int
      BY <2>1, TurnosAssumption DEF Tipos, TiposDeProcesos
    <3>2. QED
      BY <2>1, <2>2, <3>1 DEF limite
  <2>4. QED
    BY <2>1, <2>2, <2>3 DEF Relojes
<1>3. CASE Despachar
  <2>1. timer'.estado = "duerme" => algoritmo # "FIFO" /\ timer'.falta = cuenta.quantum
    BY <1>3 DEF Despachar, SinTimer
  <2>2. algoritmo = "FIFO" => timer'.estado = "no"
    BY <1>3 DEF Despachar, SinTimer
  <2>3. /\ linea = "despacha" /\ linea' = "recibe" /\ limite' = limite
        /\ UNCHANGED <<algoritmo, reloj>>
    BY <1>3 DEF Despachar, procesos, limite
  <2>4. QED
    BY <2>1, <2>2, <2>3 DEF Relojes
<1>4. CASE Recibir
  BY <1>4 DEF Recibir, Relojes, limite, procesos, planificador, contador, Tipos,
     TiposDelTimer
<1>5. CASE TomarMutexQuantum
  BY <1>5 DEF TomarMutexQuantum, Relojes, limite, procesos, planificador, contador,
     Tipos, TiposDelTimer
<1>6. CASE CancelarTimer
  <2>1. pcb \in Procesos
    BY <1>6 DEF CancelarTimer, TurnoEnExec, EnTurno
  <2>2. linea' = "maneja" /\ timer'.estado = "no" /\ UNCHANGED <<algoritmo, inicial, reloj, pcb>>
    BY <1>6 DEF CancelarTimer, SinTimer
  <2>3. algoritmo = "VRR" => restante'[pcb] = inicial[pcb] - reloj
    BY <1>6, <2>1 DEF CancelarTimer, Tipos, TiposDeProcesos
  <2>4. QED
    BY <2>2, <2>3 DEF Relojes
<1>7. CASE ManejarFin
  BY <1>7, RelojesTrasFin DEF ManejarFin, salir_a, contador
<1>8. CASE ManejarQuantum
  BY <1>8, RelojesTrasFin DEF ManejarQuantum, manejar, contador
<1>9. CASE ManejarIO
  BY <1>9, RelojesTrasFin DEF ManejarIO, manejar, salir_a, contador
<1>10. CASE ManejarWait
  <2>1. linea = "maneja" /\ UNCHANGED <<algoritmo, timer>>
    BY <1>10 DEF ManejarWait, manejar, contador
  <2>2. CASE a_seguir /\ UNCHANGED <<inicial, restante>>
    BY <2>1, <2>2, RelojesAlSeguir
  <2>3. CASE FinTurno
    BY <2>1, <2>3, RelojesTrasFin
  <2>4. QED
    BY <1>10, <2>2, <2>3 DEF ManejarWait, salir_a
<1>11. CASE ManejarSignal
  <2>1. /\ linea = "maneja" /\ pcb \in Procesos /\ estado[pcb] = "EXEC"
        /\ UNCHANGED <<algoritmo, timer>>
    BY <1>11 DEF ManejarSignal, manejar, contador, TurnoEnExec, EnTurno
  <2>2. CASE a_seguir /\ UNCHANGED <<inicial, restante>>
    BY <2>1, <2>2, RelojesAlSeguir
  <2>3. ASSUME a_seguir, NEW w \in porRecurso, despertar(w)
        PROVE  Relojes'
    <3>1. w \in Procesos /\ w # pcb
      BY <2>1 DEF TurnoEnExec
    <3>2. inicial'[pcb] = inicial[pcb] /\ restante'[pcb] = restante[pcb]
      BY <2>1, <2>3, <3>1 DEF despertar, poner_quantum, Tipos, TiposDeProcesos
    <3>3. QED
      BY <2>1, <2>3, <3>2, RelojesAlSeguir
  <2>4. CASE FinTurno
    BY <2>1, <2>4, RelojesTrasFin
  <2>5. QED
    BY <1>11, <2>2, <2>3, <2>4 DEF ManejarSignal, salir_a
<1>12. CASE Seguir
  <2>1. /\ linea = "sigue" /\ pcb \in Procesos /\ timer.estado # "duerme"
        /\ UNCHANGED <<algoritmo, timer>>
    BY <1>12 DEF Seguir, contador, TurnoEnExec, EnTurno, Relojes
  <2>2. CASE FinTurno
    BY <2>1, <2>2, RelojesTrasFin
  <2>3. CASE \E p \in pid_del_timer : /\ cuenta' = [quantum |-> sobra, pid |-> p]
                                     /\ linea' = "despacha"
                                     /\ UNCHANGED <<inicial, pcb, reloj>>
    <3>1. cuenta'.quantum = sobra
      BY <2>3
    <3>2. sobra + reloj = limite
      <4>1. QUANTUM \in Int /\ reloj \in Int /\ inicial[pcb] \in Int
        BY <2>1, TurnosAssumption DEF Tipos, TiposDeProcesos, TiposDelTurno
      <4>2. algoritmo = "VRR" => restante[pcb] = inicial[pcb] - reloj
        BY <2>1 DEF Relojes
      <4>3. QED
        BY <4>1, <4>2 DEF sobra, limite
    <3>3. limite' = limite /\ limite \in Int
      BY <2>1, <2>3, TurnosAssumption DEF limite, Tipos, TiposDeProcesos
    <3>4. QED
      BY <2>1, <2>3, <3>1, <3>2, <3>3 DEF Relojes
  <2>4. QED
    BY <1>12, <2>2, <2>3 DEF Seguir
<1>13. CASE Despertar
  BY <1>13 DEF Despertar, Relojes, limite, procesos, planificador, contador, Tipos,
     TiposDelTimer
<1>14. CASE ProbarMutex
  BY <1>14 DEF ProbarMutex, SinTimer, Relojes, limite, procesos, planificador, contador,
     Tipos, TiposDelTimer
<1>15. CASE EnviarQuantum
  BY <1>15 DEF EnviarQuantum, SinTimer, Relojes, limite, procesos, planificador,
     contador, Tipos, TiposDelTimer
<1>16. CASE Tick
  <2>1. /\ UNCHANGED <<algoritmo, linea, pcb, cuenta, inicial, restante>>
        /\ linea # "recibe" => reloj' = reloj
        /\ reloj' \in {reloj, reloj + 1}
    BY <1>16 DEF Tick, procesos, corre_reloj
  <2>2. limite' = limite /\ (pcb \in Procesos => limite \in Int)
    BY <2>1, TurnosAssumption DEF limite, Tipos, TiposDeProcesos
  <2>3. reloj \in Nat /\ timer.falta \in Int
    BY DEF Tipos, TiposDelTurno, TiposDelTimer
  <2>4. CASE duerme
    <3>1. timer'.estado = timer.estado /\ timer'.falta = timer.falta - 1
      BY <1>16, <2>4 DEF Tick, Tipos, TiposDelTimer
    <3>2. timer.estado = "duerme" /\ timer.falta > 0 /\ timer.falta + reloj <= limite
      BY <2>4 DEF duerme, Relojes
    <3>3. pcb \in Procesos
      BY <3>2 DEF Relojes, TurnoEnExec, EnTurno
    <3>4. timer'.falta + reloj' <= limite'
      BY <2>1, <2>2, <2>3, <3>1, <3>2, <3>3
    <3>5. QED
      BY <2>1, <2>2, <3>1, <3>4 DEF Relojes
  <2>5. CASE ~duerme
    <3>1. timer' = timer /\ ~(timer.estado = "duerme" /\ timer.falta > 0)
      BY <1>16, <2>5 DEF Tick, duerme
    <3>2. QED
      BY <2>1, <2>2, <3>1 DEF Relojes
  <2>6. QED
    BY <2>4, <2>5
<1>17. ASSUME NEW p \in Procesos, Admitir(p)
      PROVE  Relojes'
  BY <1>17, RelojesSinTurno DEF Admitir, planificador, contador
<1>18. ASSUME NEW p \in Procesos, FinIO(p)
      PROVE  Relojes'
  <2>1. \A q \in Procesos \ {p} : inicial'[q] = inicial[q] /\ restante'[q] = restante[q]
    BY <1>18 DEF FinIO, fin_quantum, poner_quantum, Tipos, TiposDeProcesos
  <2>2. linea \in EnTurno => pcb \in Procesos \ {p}
    BY <1>18 DEF FinIO, TurnoEnExec
  <2>3. QED
    BY <1>18, <2>1, <2>2, RelojesSinTurno DEF FinIO, planificador, contador
<1>19. ASSUME NEW p \in Procesos, LiberarRecurso(p)
      PROVE  Relojes'
  <2>1. \A q \in Procesos \ {p} : inicial'[q] = inicial[q] /\ restante'[q] = restante[q]
    BY <1>19 DEF LiberarRecurso, despertar, poner_quantum, Tipos, TiposDeProcesos
  <2>2. linea \in EnTurno => pcb \in Procesos \ {p}
    BY <1>19 DEF LiberarRecurso, despertar, TurnoEnExec
  <2>3. QED
    BY <1>19, <2>1, <2>2, RelojesSinTurno DEF LiberarRecurso, planificador, contador
<1>20. ASSUME NEW p \in Procesos, finalizar_proceso(p)
      PROVE  Relojes'
  <2>1. CASE estado[p] = "EXEC"
    BY <1>20, <2>1, RelojesSinTurno DEF finalizar_proceso, planificador, contador
  <2>2. CASE estado[p] # "EXEC"
    <3>1. \A q \in Procesos \ {p} : inicial'[q] = inicial[q] /\ restante'[q] = restante[q]
      BY <1>20, <2>2, TrasMatar DEF Tipos, TiposDeProcesos
    <3>2. linea \in EnTurno => pcb \in Procesos \ {p}
      BY <2>2 DEF TurnoEnExec
    <3>3. QED
      BY <1>20, <3>1, <3>2, RelojesSinTurno DEF finalizar_proceso, planificador, contador
  <2>3. QED
    BY <2>1, <2>2
<1>21. CASE TimerTardio \/ RecibirContexto \/ Ejecutar \/ check_interrupt \/
           atender_cpu_kernel_interrupt \/ UNCHANGED vars
  BY <1>21 DEF vars, TimerTardio, RecibirContexto, Ejecutar, enviar_pcb_kernel,
     check_interrupt, CpuLibre, atender_cpu_kernel_interrupt, Relojes, limite, procesos,
     planificador, contador, Tipos, TiposDelTimer, procesos, planificador, contador,
     ladoCpu
<1>22. QED
  BY <1>1, <1>2, <1>3, <1>4, <1>5, <1>6, <1>7, <1>8, <1>9, <1>10, <1>11, <1>12, <1>13,
     <1>14, <1>15, <1>16, <1>17, <1>18, <1>19, <1>20, <1>21 DEF Next, Planificador,
     ContarQuantum, CicloCpu

-----------------------------------------------------------------------------
(* The theorems.                                                           *)

(* The system starts in the invariant. *)
LEMMA InvInicial == Init => InvTurnos
<1> SUFFICES ASSUME Init PROVE InvTurnos
  OBVIOUS
<1>1. QUANTUM \in Nat \ {0}
  BY TurnosAssumption
<1>2. Tipos
  <2>1. listos \in [Listas -> Seq(Procesos)]
    BY EmptySeq DEF Init, Listas
  <2>2. QED
    BY <1>1, <2>1 DEF Init, Tipos, TiposDeProcesos, TiposDelTurno, TiposDelTimer, TiposDeLaCpu,
       Estados, Listas, EnTurno, Quien, SinCuenta, SinTimer, CpuLibre
<1>3. Colas
  <2>1. \A l \in Listas : Len(listos[l]) = 0
    BY EmptySeq DEF Init, Listas
  <2>2. QED
    BY <2>1 DEF Colas, ColaDe
<1>4. TurnoEnExec /\ UnaVuelta /\ Relojes
  BY DEF Init, TurnoEnExec, EnTurno, UnaVuelta, EnCpu, CpuLibre, Relojes, SinTimer
<1>5. Quantums /\ QuantumEnRango
  BY <1>1 DEF Init, Quantums, QuantumEnRango
<1>6. QED
  BY <1>2, <1>3, <1>4, <1>5 DEF InvTurnos

(* No step leaves it. *)
LEMMA InvPaso == InvTurnos /\ [Next]_vars => InvTurnos'
<1> SUFFICES ASSUME InvTurnos, [Next]_vars PROVE InvTurnos'
  OBVIOUS
<1> USE DEF InvTurnos
<1>1. TiposDeProcesos' /\ Colas'
  BY ProcesosPaso
<1>2. TiposDelTurno'
  BY TurnoPaso
<1>3. TiposDelTimer'
  BY TimerPaso
<1>4. TiposDeLaCpu'
  BY CpuPaso
<1>5. TurnoEnExec'
  BY TurnoEnExecPaso
<1>6. Quantums' /\ QuantumEnRango'
  BY QuantumsPaso
<1>7. UnaVuelta'
  BY VueltaPaso
<1>8. Relojes'
  BY RelojesPaso
<1>9. QED
  BY <1>1, <1>2, <1>3, <1>4, <1>5, <1>6, <1>7, <1>8 DEF Tipos

(* The inductive invariant that the other theorems follow from: types, the *)
(* lists, the process of the turn, the quantums, where the context is and  *)
(* what the clock and the timer add up to.                                 *)
THEOREM TurnosInvariante == Spec => []InvTurnos
<1>1. Init => InvTurnos
  BY InvInicial
<1>2. InvTurnos /\ [Next]_vars => InvTurnos'
  BY InvPaso
<1>3. QED
  BY <1>1, <1>2, PTL DEF Spec

(* While the planner waits there is exactly one context on its way, in the *)
(* CPU or on its way back, and it is that of the process of the turn; at   *)
(* any other moment there is none: recibir_paquete never answers with the  *)
(* registers of another process.                                           *)
THEOREM UnSoloTurnoInvariante == Spec => []UnSoloTurno
<1>1. InvTurnos => UnSoloTurno
  <2> SUFFICES ASSUME InvTurnos PROVE UnSoloTurno
    OBVIOUS
  <2> DEFINE enCpu == IF EnCpu THEN <<cpu.pid>> ELSE <<>>
             devueltos == [i \in DOMAIN alKernel |-> alKernel[i].pid]
  <2>1. CASE alKernel = <<>>
    <3>1. devueltos = <<>>
      BY <2>1
    <3>2. \A x : <<x>> \in Seq({x}) /\ <<x>> \o <<>> = <<x>> /\ <<>> \o <<x>> = <<x>>
      <4> TAKE x
      <4>1. <<x>> \in Seq({x})
        OBVIOUS
      <4>2. QED
        BY <4>1, ConcatEmptySeq
    <3>3. <<>> \o <<>> = <<>>
      BY EmptySeq, ConcatEmptySeq
    <3>4. CASE linea = "recibe" /\ alCpu = <<pcb>> /\ ~EnCpu
      BY <3>1, <3>2, <3>4 DEF UnSoloTurno
    <3>5. CASE linea = "recibe" /\ alCpu = <<>> /\ EnCpu /\ cpu.pid = pcb
      BY <3>1, <3>2, <3>5 DEF UnSoloTurno
    <3>6. CASE linea # "recibe" /\ alCpu = <<>> /\ ~EnCpu
      BY <3>1, <3>3, <3>6 DEF UnSoloTurno
    <3>7. QED
      BY <2>1, <3>4, <3>5, <3>6 DEF InvTurnos, UnaVuelta
  <2>2. CASE alKernel # <<>>
    <3>1. /\ linea = "recibe" /\ alCpu = <<>> /\ ~EnCpu
          /\ alKernel = <<[pid |-> pcb, motivo |-> Head(alKernel).motivo]>>
      BY <2>2 DEF InvTurnos, UnaVuelta
    <3>2. devueltos = <<pcb>>
      BY <3>1
    <3>3. QED
      BY <3>1, <3>2 DEF UnSoloTurno
  <2>3. QED
    BY <2>1, <2>2
<1>2. QED
  BY <1>1, TurnosInvariante, PTL

(* A process waits in READY with both quantums of its PCB complete and in  *)
(* READY_PLUS with the same part of a quantum in both, only under VRR:     *)
(* what the planner takes for granted when it dispatches.                  *)
THEOREM QuantumInvariante == Spec => []QuantumEnRango
<1>1. InvTurnos => QuantumEnRango
  BY DEF InvTurnos
<1>2. QED
  BY <1>1, TurnosInvariante, PTL

(* The thread that counts never sleeps beyond the quantum with which the   *)
(* turn started, however often a WAIT or a SIGNAL resumes it.              *)
THEOREM TurnoAcotadoInvariante == Spec => []TurnoAcotado
<1>1. InvTurnos => TurnoAcotado
  BY DEF InvTurnos, Relojes, limite, TurnoAcotado
<1>2. QED
  BY <1>1, TurnosInvariante, PTL

=============================================================================
