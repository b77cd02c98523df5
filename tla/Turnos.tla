-------------------------------- MODULE Turnos --------------------------------
(***************************************************************************)
(* The turns of the processes in the CPU: the short-term planner under     *)
(* FIFO, RR and VRR with its threads that count the quantum                *)
(* (kernel_planificadores.c), the socket of the interrupts, the thread of  *)
(* the CPU that receives them (cpu_kernel_interrupt.c) and the loop that   *)
(* executes and calls check_interrupt (cpu_kernel_dispatch.c, cpu_utils.c). *)
(*                                                                         *)
(* The semaphores of the lists and of DETENER_PLANIFICACION are the        *)
(* subject of Planificacion: here a wait for a list and the move to EXEC   *)
(* are one step, and so is a kill.  Time is discrete: Tick advances the    *)
(* clock of the turn and the sleep of the timer; a thread whose sleep is   *)
(* over may still take any time to run.                                    *)
(***************************************************************************)
EXTENDS Integers, Sequences, FiniteSets, SequencesExt

CONSTANTS
  Procesos,     \* the processes of the system
  Ninguno,      \* no process
  Algoritmos,   \* the values of ALGORITMO_PLANIFICACION tried
  QUANTUM,      \* the quantum of the configuration, in ticks
  MaxSocket,    \* bound: interrupts sent that the CPU has not received
  MaxTardios    \* bound: cancelled timers that have not noticed it yet

ASSUME TurnosAssumption ==
  /\ IsFiniteSet(Procesos)
  /\ Ninguno \notin Procesos
  /\ Algoritmos \subseteq {"FIFO", "RR", "VRR"}
  /\ QUANTUM \in Nat \ {0}
  /\ MaxSocket \in Nat \ {0}
  /\ MaxTardios \in Nat

(* The codes of the instructions that leave the CPU (SUCCESS stands for    *)
(* OUT_OF_MEMORY too).                                                     *)
DeInstruccion == {"SUCCESS", "WAIT", "SIGNAL", "IO"}

VARIABLES
  algoritmo,       \* ALGORITMO_PLANIFICACION, read once
  estado,          \* pcb->estado
  listos,          \* the lists of READY and READY_PLUS
  inicial,         \* pcb->quantum_inicial
  restante,        \* pcb->quantum_restante
  porRecurso,      \* the processes in the list of some resource
  aFinalizar,      \* diccionario_procesos_a_finalizar
  linea,           \* where the planner stands
  elegida,         \* the list it takes from
  pcb,             \* the process of the turn
  motivo,          \* motivo_desalojo
  cuenta,          \* contar_quantum_parametros: [quantum, pid]
  reloj,           \* clock_exec
  timer,           \* the thread of contar_quantum: [estado, falta, pid]
  tardios,         \* cancelled timers that woke before they were cancelled
  mutexQuantum,    \* who holds mutex_interrupcion_quantum
  mutexSocket,     \* who holds mutex_socket_cpu_interrupt
  interrupciones,  \* sent by fd_cpu_interrupt, not received
  diccionario,     \* diccionario_interrupciones of the CPU
  cpu,             \* the loop of the CPU: [linea, pid, salir]
  alCpu,           \* contexts sent by fd_cpu_dispatch
  alKernel         \* contexts sent back: [pid, motivo]

procesos == <<estado, listos, inicial, restante, porRecurso, aFinalizar>>
planificador == <<linea, elegida, pcb, motivo, cuenta, reloj>>
contador == <<timer, tardios, mutexQuantum>>
ladoCpu == <<diccionario, cpu, alCpu, alKernel>>
vars == <<algoritmo, procesos, planificador, contador, mutexSocket,
          interrupciones, ladoCpu>>

SinCuenta == [quantum |-> 0, pid |-> Ninguno]

CpuLibre == [linea |-> "recibe", pid |-> Ninguno, salir |-> FALSE]

SinTimer == [estado |-> "no", falta |-> 0, pid |-> Ninguno]

(* crear_pcb gives every process both quantums complete. *)
Init ==
  /\ algoritmo \in Algoritmos
  /\ estado = [p \in Procesos |-> "NEW"]
  /\ listos = [l \in {"READY", "READY_PLUS"} |-> <<>>]
  /\ inicial = [p \in Procesos |-> QUANTUM]
  /\ restante = [p \in Procesos |-> QUANTUM]
  /\ porRecurso = {}
  /\ aFinalizar = {}
  /\ linea = "elige"
  /\ elegida = "READY"
  /\ pcb = Ninguno
  /\ motivo = "SUCCESS"
  /\ cuenta = SinCuenta
  /\ reloj = 0
  /\ timer = SinTimer
  /\ tardios = 0
  /\ mutexQuantum = "libre"
  /\ mutexSocket = "libre"
  /\ interrupciones = <<>>
  /\ diccionario = [p \in Procesos |-> "nada"]
  /\ cpu = CpuLibre
  /\ alCpu = <<>>
  /\ alKernel = <<>>

-----------------------------------------------------------------------------
(* Helpers.                                                                *)

(* estado_desencolar_pcb_por_pid: the list without p, if it is there.      *)
Sin(s, p) ==
  IF \E i \in DOMAIN s : s[i] = p THEN RemoveAt(s, CHOOSE i \in DOMAIN s : s[i] = p)
                                 ELSE s

(* Wrong variants (mut_...) of the definitions they precede: none of them  *)
(* is used by the specification; the runs are expected to refute each one. *)

(* The process goes to the head of the list. *)
mut_encolar_primero(p, l) ==
  /\ estado' = [estado EXCEPT ![p] = l]
  /\ listos' = [listos EXCEPT ![l] = <<p>> \o @]

(* proceso_a_ready and proceso_a_ready_plus. *)
encolar(p, l) ==
  /\ estado' = [estado EXCEPT ![p] = l]
  /\ listos' = [listos EXCEPT ![l] = Append(@, p)]

(* proceso_a_exec, _blocked and _exit: nobody takes from those lists here. *)
pasar(p, e) == estado' = [estado EXCEPT ![p] = e] /\ UNCHANGED listos

poner_quantum(p, n) ==
  /\ inicial' = [inicial EXCEPT ![p] = n]
  /\ restante' = [restante EXCEPT ![p] = n]

(* The end of the quantum at a WAIT or SIGNAL leaves it as it is. *)
mut_volver_sin_reponer(p) ==
  encolar(p, "READY") /\ UNCHANGED <<inicial, restante>>

(* The end of a quantum; RR does not write the quantums, which are complete *)
(* already.                                                                *)
fin_quantum(p) == encolar(p, "READY") /\ poner_quantum(p, QUANTUM)

-----------------------------------------------------------------------------
(* The planner: planificador_corto_plazo_fifo, _rr and _vrr.               *)

(* Only VRR looks at READY_PLUS, and before it waits. *)
ElegirLista ==
  /\ linea = "elige"
  /\ elegida' = IF algoritmo = "VRR" /\ listos["READY_PLUS"] # <<>>
                  THEN "READY_PLUS" ELSE "READY"
  /\ linea' = "espera"
  /\ UNCHANGED <<algoritmo, procesos, pcb, motivo, cuenta, reloj, contador,
                 mutexSocket, interrupciones, ladoCpu>>

(* sem_wait of that list, its first process to EXEC, and the parameters of *)
(* the timer.                                                              *)
Desencolar ==
  /\ linea = "espera"
  /\ listos[elegida] # <<>>
  /\ LET p == Head(listos[elegida]) IN
       /\ estado' = [estado EXCEPT ![p] = "EXEC"]
       /\ listos' = [listos EXCEPT ![elegida] = Tail(@)]
       /\ pcb' = p
       /\ cuenta' = [quantum |-> IF algoritmo = "VRR" THEN inicial[p]
                                                      ELSE QUANTUM,
                     pid |-> p]
  /\ linea' = "despacha"
  /\ UNCHANGED <<algoritmo, inicial, restante, porRecurso, aFinalizar, elegida,
                 motivo, reloj, contador, mutexSocket, interrupciones, ladoCpu>>

(* enviar_contexto_de_ejecucion, the clock runs, and a thread counts. *)
Despachar ==
  /\ linea = "despacha"
  /\ alCpu' = Append(alCpu, pcb)
  /\ timer' = IF algoritmo = "FIFO" THEN SinTimer
              ELSE [estado |-> "duerme", falta |-> cuenta.quantum,
                    pid |-> cuenta.pid]
  /\ linea' = "recibe"
  /\ UNCHANGED <<algoritmo, procesos, elegida, pcb, motivo, cuenta, reloj,
                 tardios, mutexQuantum, mutexSocket, interrupciones,
                 diccionario, cpu, alKernel>>

(* recibir_paquete and temporal_stop. *)
Recibir ==
  /\ linea = "recibe"
  /\ alKernel # <<>>
  /\ motivo' = Head(alKernel).motivo
  /\ alKernel' = Tail(alKernel)
  /\ linea' = IF algoritmo = "FIFO" THEN "maneja" ELSE "traba"
  /\ UNCHANGED <<algoritmo, procesos, elegida, pcb, cuenta, reloj, contador,
                 mutexSocket, interrupciones, diccionario, cpu, alCpu>>

TomarMutexQuantum ==
  /\ linea = "traba"
  /\ mutexQuantum = "libre"
  /\ mutexQuantum' = "planificador"
  /\ linea' = "cancela"
  /\ UNCHANGED <<algoritmo, procesos, elegida, pcb, motivo, cuenta, reloj,
                 timer, tardios, mutexSocket, interrupciones, ladoCpu>>

(* pthread_cancel: a thread that sleeps is gone, one that woke notices it  *)
(* at its next cancellation point, and one that ended is left alone.       *)
CancelarTimer ==
  /\ linea = "cancela"
  /\ timer.estado = "despierto" => tardios < MaxTardios
  /\ tardios' = IF timer.estado = "despierto" THEN tardios + 1 ELSE tardios
  /\ timer' = SinTimer
  /\ mutexQuantum' = "libre"
  /\ restante' = IF algoritmo = "VRR"
                   THEN [restante EXCEPT ![pcb] = inicial[pcb] - reloj]
                   ELSE restante
  /\ linea' = "maneja"
  /\ UNCHANGED <<algoritmo, estado, listos, inicial, porRecurso, aFinalizar,
                 elegida, pcb, motivo, cuenta, reloj, mutexSocket,
                 interrupciones, ladoCpu>>

-----------------------------------------------------------------------------
(* manejar_motivo_desalojo.                                                *)

(* The locals of the turn are gone, its clock and its parameters freed. *)
FinTurno ==
  /\ linea' = "elige"
  /\ elegida' = "READY"
  /\ pcb' = Ninguno
  /\ motivo' = "SUCCESS"
  /\ cuenta' = SinCuenta
  /\ reloj' = 0

(* What is left of the quantum at a WAIT or a SIGNAL. *)
sobra == IF algoritmo = "VRR" THEN restante[pcb] ELSE QUANTUM - reloj

(* The timer gets the parameters of the turn, whose pid is pcb's, but for  *)
(* that of VRR after a SIGNAL: it gets the address of the local            *)
(* quantum_restante as if it were its parameters, and its pid is whatever  *)
(* int follows in the stack.                                               *)
pid_del_timer == IF algoritmo = "VRR" /\ motivo = "SIGNAL"
                   THEN Procesos \cup {Ninguno} ELSE {pcb}

(* What becomes of the quantums of a process that goes to e: in EXIT its   *)
(* PCB is about to be freed and they are forgotten.                        *)
al_pasar(p, e) ==
  IF e = "EXIT" THEN poner_quantum(p, QUANTUM) ELSE UNCHANGED <<inicial, restante>>

salir_a(e) == pasar(pcb, e) /\ al_pasar(pcb, e) /\ FinTurno

(* The rest of the turn is decided in Seguir. *)
a_seguir == linea' = "sigue" /\ UNCHANGED <<elegida, pcb, motivo, cuenta, reloj>>

(* A process that was killed is treated as any other. *)
mut_manejar_sin_chequear(m) ==
  /\ linea = "maneja"
  /\ motivo \in m
  /\ UNCHANGED <<algoritmo, aFinalizar, contador, mutexSocket, interrupciones,
                 ladoCpu>>

manejar(m) ==
  /\ linea = "maneja"
  /\ pcb \notin aFinalizar
  /\ motivo \in m
  /\ UNCHANGED <<algoritmo, aFinalizar, contador, mutexSocket, interrupciones,
                 ladoCpu>>

(* The process was killed while it was in EXEC, or it ends by itself. *)
ManejarFin ==
  /\ linea = "maneja"
  /\ pcb \in aFinalizar \/ motivo \in {"SUCCESS", "INTERRUPT_USER"}
  /\ salir_a("EXIT")
  /\ UNCHANGED <<algoritmo, porRecurso, aFinalizar, contador, mutexSocket,
                 interrupciones, ladoCpu>>

ManejarQuantum ==
  /\ manejar({"INTERRUPT_QUANTUM"})
  /\ fin_quantum(pcb)
  /\ FinTurno
  /\ UNCHANGED porRecurso

(* An interface that exists blocks the process; another one ends it. *)
ManejarIO ==
  /\ manejar({"IO"})
  /\ \E e \in {"BLOCKED", "EXIT"} : salir_a(e)
  /\ UNCHANGED porRecurso

(* A WAIT goes on, blocks or names no resource. *)
ManejarWait ==
  /\ manejar({"WAIT"})
  /\ \/ a_seguir /\ UNCHANGED <<estado, listos, inicial, restante, porRecurso>>
     \/ salir_a("BLOCKED") /\ porRecurso' = porRecurso \cup {pcb}
     \/ salir_a("EXIT") /\ UNCHANGED porRecurso

(* The end of ejecutar_instruccion_signal: w goes to READY with a complete *)
(* quantum.                                                                *)
despertar(w) ==
  /\ w \in porRecurso
  /\ porRecurso' = porRecurso \ {w}
  /\ encolar(w, "READY")
  /\ poner_quantum(w, QUANTUM)

(* A SIGNAL goes on, whether it wakes somebody or not, or names no resource. *)
ManejarSignal ==
  /\ manejar({"SIGNAL"})
  /\ \/ a_seguir /\ UNCHANGED <<estado, listos, inicial, restante, porRecurso>>
     \/ a_seguir /\ \E w \in porRecurso : despertar(w)
     \/ salir_a("EXIT") /\ UNCHANGED porRecurso

(* The new timer counts the whole quantum again. *)
mut_seguir_con_quantum_entero ==
  /\ linea = "sigue"
  /\ IF algoritmo = "FIFO" \/ sobra > 0
       THEN /\ \E p \in pid_del_timer : cuenta' = [quantum |-> QUANTUM, pid |-> p]
            /\ linea' = "despacha"
            /\ UNCHANGED <<estado, listos, inicial, restante, elegida, pcb,
                           motivo, reloj>>
       ELSE fin_quantum(pcb) /\ FinTurno
  /\ UNCHANGED <<algoritmo, porRecurso, aFinalizar, contador, mutexSocket,
                 interrupciones, ladoCpu>>

(* The process goes on in EXEC with what is left, if anything is. *)
Seguir ==
  /\ linea = "sigue"
  /\ IF algoritmo = "FIFO" \/ sobra > 0
       THEN /\ \E p \in pid_del_timer : cuenta' = [quantum |-> sobra, pid |-> p]
            /\ linea' = "despacha"
            /\ UNCHANGED <<estado, listos, inicial, restante, elegida, pcb,
                           motivo, reloj>>
       ELSE fin_quantum(pcb) /\ FinTurno
  /\ UNCHANGED <<algoritmo, porRecurso, aFinalizar, contador, mutexSocket,
                 interrupciones, ladoCpu>>

-----------------------------------------------------------------------------
(* contar_quantum, the thread that counts.                                 *)

Despertar ==
  /\ timer.estado = "duerme"
  /\ timer.falta = 0
  /\ timer' = [timer EXCEPT !.estado = "despierto"]
  /\ UNCHANGED <<algoritmo, procesos, planificador, tardios, mutexQuantum,
                 mutexSocket, interrupciones, ladoCpu>>

(* pthread_mutex_trylock: without the mutex there is no interrupt. *)
ProbarMutex ==
  /\ timer.estado = "despierto"
  /\ IF mutexQuantum = "libre"
       THEN /\ timer' = [timer EXCEPT !.estado = "envia"]
            /\ mutexQuantum' = "timer"
       ELSE /\ timer' = SinTimer
            /\ UNCHANGED mutexQuantum
  /\ UNCHANGED <<algoritmo, procesos, planificador, tardios, mutexSocket,
                 interrupciones, ladoCpu>>

(* enviar_paquete with mutex_socket_cpu_interrupt; then the other mutex is *)
(* free and the thread ends.                                               *)
EnviarQuantum ==
  /\ timer.estado = "envia"
  /\ mutexSocket = "libre"
  /\ Len(interrupciones) < MaxSocket
  /\ interrupciones' = Append(interrupciones,
                              [tipo |-> "INTERRUPT_QUANTUM", pid |-> timer.pid])
  /\ timer' = [SinTimer EXCEPT !.estado = "enviado"]
  /\ mutexQuantum' = "libre"
  /\ UNCHANGED <<algoritmo, procesos, planificador, tardios, mutexSocket,
                 ladoCpu>>

(* A cancelled thread that had woken: if it gets the mutex, it dies at the *)
(* send, the next cancellation point, with both mutexes taken.             *)
TimerTardio ==
  /\ tardios > 0
  /\ tardios' = tardios - 1
  /\ \/ /\ mutexQuantum = "libre"
        /\ mutexSocket = "libre"
        /\ mutexQuantum' = "muerto"
        /\ mutexSocket' = "muerto"
     \/ /\ mutexQuantum # "libre"
        /\ UNCHANGED <<mutexQuantum, mutexSocket>>
  /\ UNCHANGED <<algoritmo, procesos, planificador, timer, interrupciones,
                 ladoCpu>>

corre_reloj == linea = "recibe" /\ algoritmo # "FIFO"

duerme == timer.estado = "duerme" /\ timer.falta > 0

(* clock_exec stands still from temporal_stop to temporal_resume.  Beyond  *)
(* the quantum all values of the clock are alike: it stops at QUANTUM + 1. *)
Tick ==
  /\ duerme \/ (corre_reloj /\ reloj <= QUANTUM)
  /\ reloj' = IF corre_reloj /\ reloj <= QUANTUM THEN reloj + 1 ELSE reloj
  /\ timer' = IF duerme THEN [timer EXCEPT !.falta = @ - 1] ELSE timer
  /\ UNCHANGED <<algoritmo, procesos, linea, elegida, pcb, motivo, cuenta,
                 tardios, mutexQuantum, mutexSocket, interrupciones, ladoCpu>>

-----------------------------------------------------------------------------
(* The CPU.                                                                *)

RecibirContexto ==
  /\ cpu.linea = "recibe"
  /\ alCpu # <<>>
  /\ cpu' = [linea |-> "ejecuta", pid |-> Head(alCpu), salir |-> FALSE]
  /\ alCpu' = Tail(alCpu)
  /\ UNCHANGED <<algoritmo, procesos, planificador, contador, mutexSocket,
                 interrupciones, diccionario, alKernel>>

enviar_pcb_kernel(m) == alKernel' = Append(alKernel, [pid |-> cpu.pid, motivo |-> m])

(* execute: an instruction that leaves sends the context itself. *)
Ejecutar ==
  /\ cpu.linea = "ejecuta"
  /\ \/ /\ cpu' = [cpu EXCEPT !.linea = "chequea"]
        /\ UNCHANGED alKernel
     \/ /\ cpu' = [cpu EXCEPT !.linea = "chequea", !.salir = TRUE]
        /\ \E m \in DeInstruccion : enviar_pcb_kernel(m)
  /\ UNCHANGED <<algoritmo, procesos, planificador, contador, mutexSocket,
                 interrupciones, diccionario, alCpu>>

(* The context that an instruction has sent is sent again. *)
mut_check_interrupt_sin_salir ==
  LET t == diccionario[cpu.pid] IN
  /\ cpu.linea = "chequea"
  /\ diccionario' = [diccionario EXCEPT ![cpu.pid] = "nada"]
  /\ IF t = "nada"
       THEN /\ cpu' = IF cpu.salir THEN CpuLibre ELSE [cpu EXCEPT !.linea = "ejecuta"]
            /\ UNCHANGED alKernel
       ELSE /\ cpu' = CpuLibre
            /\ enviar_pcb_kernel(t)
  /\ UNCHANGED <<algoritmo, procesos, planificador, contador, mutexSocket,
                 interrupciones, alCpu>>

(* After an instruction that leaves, the interrupt of the process is       *)
(* forgotten; otherwise it makes the process leave.                        *)
check_interrupt ==
  LET t == diccionario[cpu.pid] IN
  /\ cpu.linea = "chequea"
  /\ diccionario' = [diccionario EXCEPT ![cpu.pid] = "nada"]
  /\ IF cpu.salir \/ t = "nada"
       THEN /\ cpu' = IF cpu.salir THEN CpuLibre ELSE [cpu EXCEPT !.linea = "ejecuta"]
            /\ UNCHANGED alKernel
       ELSE /\ cpu' = CpuLibre
            /\ enviar_pcb_kernel(t)
  /\ UNCHANGED <<algoritmo, procesos, planificador, contador, mutexSocket,
                 interrupciones, alCpu>>

(* atender_cpu_kernel_interrupt: INTERRUPT_USER replaces what there is,    *)
(* INTERRUPT_QUANTUM does not.                                             *)
atender_cpu_kernel_interrupt ==
  /\ interrupciones # <<>>
  /\ interrupciones' = Tail(interrupciones)
  /\ LET i == Head(interrupciones) IN
       diccionario' = [p \in Procesos |->
         IF p = i.pid /\ (i.tipo = "INTERRUPT_USER" \/ diccionario[p] = "nada")
           THEN i.tipo ELSE diccionario[p]]
  /\ UNCHANGED <<algoritmo, procesos, planificador, contador, mutexSocket, cpu,
                 alCpu, alKernel>>

-----------------------------------------------------------------------------
(* The rest of the kernel.                                                 *)

(* The long-term planner sends a process to READY. *)
Admitir(p) ==
  /\ estado[p] = "NEW"
  /\ encolar(p, "READY")
  /\ UNCHANGED <<algoritmo, inicial, restante, porRecurso, aFinalizar,
                 planificador, contador, mutexSocket, interrupciones, ladoCpu>>

(* A process that still has quantum is not told to go to READY_PLUS. *)
mut_fin_io_sin_plus(p) ==
  /\ estado[p] = "BLOCKED" /\ p \notin porRecurso
  /\ inicial' = [inicial EXCEPT ![p] = restante[p]]
  /\ UNCHANGED restante
  /\ encolar(p, IF restante[p] = QUANTUM THEN "READY" ELSE "READY_PLUS")
  /\ UNCHANGED <<algoritmo, porRecurso, aFinalizar, planificador, contador,
                 mutexSocket, interrupciones, ladoCpu>>

(* IO_FIN_OPERACION: what was left of the quantum decides the list. *)
FinIO(p) ==
  /\ estado[p] = "BLOCKED" /\ p \notin porRecurso
  /\ CASE restante[p] = QUANTUM ->
            encolar(p, "READY") /\ UNCHANGED <<inicial, restante>>
       [] restante[p] # QUANTUM /\ restante[p] > 0 ->
            encolar(p, "READY_PLUS") /\ poner_quantum(p, restante[p])
       [] OTHER -> fin_quantum(p)
  /\ UNCHANGED <<algoritmo, porRecurso, aFinalizar, planificador, contador,
                 mutexSocket, interrupciones, ladoCpu>>

(* A process in EXIT gives back what it used and w wakes. *)
LiberarRecurso(w) ==
  /\ \E p \in Procesos : estado[p] = "EXIT"
  /\ despertar(w)
  /\ UNCHANGED <<algoritmo, aFinalizar, planificador, contador, mutexSocket,
                 interrupciones, ladoCpu>>

(* finalizar_proceso: EXIT at once, or an interrupt for the process that   *)
(* is in EXEC.  It waits for manejar_motivo_desalojo to end.               *)
finalizar_proceso(p) ==
  /\ linea # "sigue"
  /\ estado[p] \notin {"NEW", "EXIT"}
  /\ p \notin aFinalizar
  /\ aFinalizar' = aFinalizar \cup {p}
  /\ porRecurso' = porRecurso \ {p}
  /\ IF estado[p] = "EXEC"
       THEN /\ mutexSocket = "libre"
            /\ Len(interrupciones) < MaxSocket
            /\ interrupciones' = Append(interrupciones,
                                        [tipo |-> "INTERRUPT_USER", pid |-> p])
            /\ UNCHANGED <<estado, listos, inicial, restante>>
       ELSE /\ estado' = [estado EXCEPT ![p] = "EXIT"]
            /\ al_pasar(p, "EXIT")
            /\ listos' = [l \in DOMAIN listos |-> Sin(listos[l], p)]
            /\ UNCHANGED interrupciones
  /\ UNCHANGED <<algoritmo, planificador, contador, mutexSocket, ladoCpu>>

-----------------------------------------------------------------------------
Planificador ==
  \/ ElegirLista \/ Desencolar \/ Despachar \/ Recibir
  \/ TomarMutexQuantum \/ CancelarTimer
  \/ ManejarFin \/ ManejarQuantum \/ ManejarIO \/ ManejarWait \/ ManejarSignal
  \/ Seguir

ContarQuantum == Despertar \/ ProbarMutex \/ EnviarQuantum

CicloCpu == RecibirContexto \/ Ejecutar \/ check_interrupt

Next ==
  \/ Planificador \/ ContarQuantum \/ TimerTardio \/ Tick
  \/ CicloCpu \/ atender_cpu_kernel_interrupt
  \/ \E p \in Procesos :
       Admitir(p) \/ FinIO(p) \/ LiberarRecurso(p) \/ finalizar_proceso(p)

(* Every thread that can run runs in the end, and time goes by.  Nothing   *)
(* is promised of the console, the interfaces or the processes, which may  *)
(* execute for ever.  Time goes by in the slices of a turn too, however    *)
(* short: each instruction waits for RETARDO_RESPUESTA of the memory.      *)
Fairness ==
  /\ WF_vars(Planificador)
  /\ WF_vars(ContarQuantum)
  /\ WF_vars(Tick)
  /\ SF_vars(corre_reloj /\ Tick)
  /\ WF_vars(CicloCpu)
  /\ WF_vars(atender_cpu_kernel_interrupt)

Spec == Init /\ [][Next]_vars /\ Fairness

-----------------------------------------------------------------------------
(* Safety.                                                                 *)

EnCpu == cpu.linea # "recibe" /\ ~cpu.salir

(* The turn is in one place, and the answer is about the process of the    *)
(* turn: while the planner waits in recibir_paquete there is exactly one   *)
(* context on its way, in the CPU or on its way back, and it is pcb's; at  *)
(* any other moment there is none.  Otherwise the planner would write the  *)
(* registers of one process in the PCB of another one                      *)
(* (buffer_desempaquetar_contexto_ejecucion only logs it).                 *)
UnSoloTurno ==
  LET pids == alCpu \o (IF EnCpu THEN <<cpu.pid>> ELSE <<>>)
              \o [i \in DOMAIN alKernel |-> alKernel[i].pid]
  IN pids = IF linea = "recibe" THEN <<pcb>> ELSE <<>>

(* A process waits in READY with its quantum complete, and in READY_PLUS   *)
(* with a part of it, the same in both fields of its PCB: what             *)
(* planificador_corto_plazo_vrr takes for granted when it starts the turn. *)
QuantumEnRango ==
  /\ \A p \in Procesos : estado[p] \in {"NEW", "READY"} =>
                           inicial[p] = QUANTUM /\ restante[p] = QUANTUM
  /\ \A p \in Procesos : estado[p] = "READY_PLUS" =>
                           /\ algoritmo = "VRR"
                           /\ inicial[p] \in 1 .. QUANTUM - 1
                           /\ restante[p] = inicial[p]

(* However many times a turn is resumed after a WAIT or a SIGNAL, and      *)
(* however long the planner takes to resume it, the thread that counts     *)
(* never sleeps beyond the quantum the turn started with.                  *)
TurnoAcotado ==
  timer.estado = "duerme" /\ timer.falta > 0 =>
    timer.falta + reloj <= IF algoritmo = "VRR" THEN inicial[pcb] ELSE QUANTUM

(* "uso este mutex porq si cancelo el hilo con el mutex del socket         *)
(* cpu_interrupt tomado pero no libero, hago cagada"                       *)
(* (kernel_planificadores.c): no cancelled thread leaves a mutex taken.    *)
SinMutexHuerfano == mutexSocket # "muerto" /\ mutexQuantum # "muerto"

(* The thread that counts a turn interrupts the process of the turn.       *)
(* Refuted under VRR after a SIGNAL, where contar_quantum is not given its *)
(* parameters but an int, and reads the pid past it.                       *)
TimerDelTurno == timer.estado = "duerme" => timer.pid = pcb

(* An interrupt of quantum is not lost: when the timer of the turn has     *)
(* sent it, and the process has not left, the interrupt is in the socket   *)
(* or in the dictionary.                                                   *)
AvisoVive ==
  linea = "recibe" /\ alKernel = <<>> /\ timer.estado = "enviado" =>
    \/ \E i \in DOMAIN interrupciones : interrupciones[i].pid = pcb
    \/ diccionario[pcb] # "nada"

-----------------------------------------------------------------------------
(* Liveness.                                                               *)

(* Under RR, as long as no mutex is orphaned and no interrupt lost, every  *)
(* process in READY gets its turn or is killed, even if the others execute *)
(* for ever.                                                               *)
RRAvanza ==
  [](algoritmo = "RR" /\ SinMutexHuerfano /\ AvisoVive) =>
    \A p \in Procesos : estado[p] = "READY" ~> estado[p] # "READY"

(* Under RR, with the same proviso, a process killed in EXEC leaves it,    *)
(* even if it never leaves the CPU by itself.                              *)
MatarTermina ==
  [](algoritmo = "RR" /\ SinMutexHuerfano /\ AvisoVive) =>
    \A p \in Procesos : p \in aFinalizar ~> estado[p] = "EXIT"

(* A process that comes back to READY_PLUS gets its turn. *)
PlusAvanza ==
  \A p \in Procesos : estado[p] = "READY_PLUS" ~> estado[p] # "READY_PLUS"
=============================================================================
