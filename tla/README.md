# CopiaOperativos in TLA+

A verification project for the simulated operating system of this repository:
four processes in C (kernel, CPU, memory, I/O interfaces) that talk over
sockets, with many threads inside the kernel. The TLA+ modules model what those
programs do to their shared state, TLC explores small instances of them, and
TLAPS proves for every instance what matters most about the planners, resources,
turns, interfaces, page tables, the TLB, the CPU and the file system.

File names are abbreviated: KP `src/kernel/src/kernel_planificadores.c`, KE
`kernel_estados.c`, KR `kernel_recursos.c`, KI `kernel_entradasalida.c`, KC
`kernel_pcb.c`, CO `consola.c` (all beside KP); MMU `src/cpu/src/mmu.c`, IN
`src/cpu/src/instrucciones.c`; MU, MC, MK `src/memoria/src/memoria_utils.c`,
`memoria_cpu.c`, `memoria_kernel.c`; EI
`src/entradasalida/src/entradasalida_interfaces.c`; EK and II
`entradasalida_kernel.c` and `inicializar_interfaces.c` (beside EI); CX
`src/utils/src/utils/conexion.c`. "Enunciado" is the
specification of the system, `src/Enunciado TP.pdf`.

## 1. The system

| Component | State it keeps | Operations | Talks with |
|---|---|---|---|
| Kernel: planners and states (KP, KE, KC) | five lists of processes with a semaphore each, five planning semaphores, the degree, the dictionary of processes to finalize | admit, dispatch, handle the reason of each return from the CPU, free; start, stop, kill, change the degree | CPU by dispatch and interrupt, memory, the threads of the interfaces |
| Kernel: resources (KR, KP) | a signed counter and a FIFO list per resource; what each PCB uses and what blocks it | WAIT, SIGNAL, return on exit, kill of a waiter | the planners |
| Kernel: I/O interfaces (KI, `kernel.c`) | a dictionary name to interface; per interface a list of requests, a semaphore of requests and one of use | connect, disconnect, queue, attend, end, remove | EntradaSalida; the planners |
| Kernel: console (CO) | none of its own | the seven commands | the planners |
| Kernel: quantum and VRR (KP) | READY_PLUS, two quantums per PCB, a clock and a thread that counts per dispatch, two mutexes | dispatch, count, cancel, interrupt, resume after WAIT and SIGNAL | CPU interrupts |
| CPU: instruction cycle (`cpu_kernel_dispatch.c`, `cpu_kernel_interrupt.c`, `cpu_utils.c`) | the context, the dictionary of interrupts | fetch, execute, check interrupt | kernel, memory |
| CPU: registers and instructions (IN, `procesos.c`) | twelve registers of two widths | SET, SUM, SUB, JNZ, moves, copies, RESIZE, calls to the kernel | memory, kernel |
| CPU: TLB and translation (MMU) | entries, a circular index, a clock; the local variables of the loops | look up, insert, replace; cut an access in pieces | memory |
| Memory: frames and page tables (MU, MC, MK) | the bitmap of frames, the page table of each process | create, finish, RESIZE, answer a frame | CPU, kernel |
| Memory: user space (`memoria_entradasalida.c`, MC) | the bytes | read, write at physical addresses | CPU, interfaces |
| EntradaSalida: STDIN, STDOUT, GENERICA (EI) | none | one operation at a time | kernel, memory |
| EntradaSalida: DialFS (EI) | bitmap, blocks, a metadata file per file, a dictionary of them | create, delete, truncate, write, read; compaction inside truncate; start on the directory of before | kernel, memory |
| Utils (CX) | none | packets and buffers over blocking sockets | all |

What is hard in it, and a test would hardly reach: the kernel has a console
thread, a long-term planner, a short-term planner, a thread that frees, a thread
per interface and five helper threads per stop, which move the same processes
between the same lists under fourteen semaphores and several mutexes. A kill
walks those lists. Resources, page tables, the TLB and the file system are each
several structures that must agree after any sequence of calls. The list
`hazards` of `PROJECT.json` gives each danger with its line and the properties
that would catch it.

What makes each component correct:

- resources: units add up; never more holders than units; the three records of a
  blocked process agree; FIFO; nothing is freed before it is given back;
- planners: a process is in one place; semaphores count what lists hold; the life
  of a process follows the diagram of states; a stop stops; a kill finds its
  process; commands end; what is ready runs and what ends is freed;
- interfaces: who is blocked has exactly one request somewhere; the interface in
  use is not destroyed; who waits stops waiting;
- memory: a frame is in one page; the bitmap covers the tables; sizes are those
  confirmed; a refusal is justified; a request is answered;
- turns: one process has the CPU and its own context comes back; a turn lasts its
  quantum and no longer, however often it is resumed; everybody gets a turn; a
  kill takes a process out of the CPU;
- CPU: a process computes as if it had a machine of its own, whatever turns,
  interrupts, packets and pieces come between its instructions;
- requests of I/O: what the interface unpacks is what the instruction asked for;
- TLB: it replaces what the policy says and never holds a page twice; a hit is right;
- DialFS: the bitmap is exactly the blocks of the files; contents survive moves,
  compactions and restarts.

## 2. The modules

| Module | Models | How state and actions correspond |
|---|---|---|
| `Recursos` | KR and the WAIT, SIGNAL, release and kill paths of KP | `instancias`, `bloqueados` are the fields of `t_recurso`; `usados`, `causa` those of the PCB; one action per critical section of `mutex_recurso`. `ejecutar_instruccion_signal` is used by SIGNAL and by each iteration of `liberar_recurso` |
| `PlanificacionProofs`, `RecursosProofs`, `TurnosProofs`, `InterfacesProofs`, `MemoriaProofs`, `CicloCPUProofs`, `DialFSProofs` | the proofs about `Planificacion`, `Recursos`, `Turnos`, `Interfaces`, `MemoriaPaginas` with `Tlb`, `CicloCPU` with `Maquina`, and `DialFS`; `SecuenciasProofs` has the lemmas on lists that they share | section 5 |
| `Planificacion` | KP, KE and CO for FIFO and RR, thread by thread | `linea[h]` is the semaphore thread `h` is about to wait for. A wait is a step; a list operation with its post is one step. The five helper threads of a stop are `pendientes`. Counters of resources are left to `Recursos`: here a WAIT may or may not block |
| `Turnos` | the short-term planner under FIFO, RR and VRR with `contar_quantum`, the socket and the dictionary of the interrupts, the loop of the CPU | `linea` is where the planner stands in a turn; `timer` is the thread that counts, `tardios` those cancelled after they woke; `inicial`, `restante` are the two quantums of the PCB, `reloj` is `clock_exec`. Who holds a mutex is a variable, because a thread may die with it |
| `CicloDeVida` | the diagram of states, abstractly | `Planificacion` implements it (`ImplementaCiclo`), mapping `fase <- estado` |
| `Interfaces` | KI, the accept loop of `kernel.c`, the case IO of KP | a connection is its `t_interfaz`, its socket and its thread. `mutex` is `mutex_diccionario_interfaces`, `control` is `sem_control_uso_interfaz`. Every wait, and every moment between unlocking and using, is a step |
| `MemoriaPaginas` | MU, MC, MK | one action per iteration of the loops of RESIZE, interleaved with the thread of the kernel |
| `Tlb`, `Cache` | MMU 1-119 | the list, the index and the clock; `Cache` is the abstract FIFO or LRU cache that `Tlb` implements |
| `MemoriaVirtual` | `Tlb` over `MemoriaPaginas` | a translation asks the TLB and, on a miss, the page table |
| `Registros` | `procesos.c` and the arithmetic of IN | a context is the program counter and a function from the names of the registers; `leer_reg` and `escribir_reg` keep the widths and the names that the code forgets |
| `Paquetes` | packets and buffers of CX | a buffer is the sequence of the fields that were added; taking from an empty one gives `Basura` |
| `Fragmentos` | MMU 89-359, how an access is cut | `trozos` is the common shape of the four loops; each one says which offset it keeps |
| `CicloCPU` | the cycle of the CPU over the three modules above, with the planner that sends and takes contexts, the packing of requests in KP and EK, STDIN and FS_READ | `pcb` is the global of the CPU, `contextos` what the PCBs hold, `espacio` the bytes of the memory by physical address; an iteration of the cycle and a piece of an interface are one step each |
| `Maquina` | what the CPU promises, abstractly | `CicloCPU` implements it (`ImplementaMaquina`): the context of a process is found in its PCB, in the CPU or in a packet, its memory through its page table, its request by unpacking its packet |
| `DialFS` | EI 135-631, II | one action per operation: the interface has one thread and ends an operation before it takes another; `inicializar_fs` starts it again on the same disk at any moment between two operations |

`MC*` modules hold the model values and the constants a `.cfg` cannot write.
Definitions called `mut_...` are wrong variants of the definition that follows
them, as a slip in that code would leave it; no specification uses them. They
show that the properties notice.

Abstractions that matter:

- `Recursos` takes FINALIZAR_PROCESO as atomic with respect to the planners. The
  planning semaphores are there for that, and `Planificacion` checks how far it
  holds (`RastreoCompleto`, `DetenidaNoMueve`) and when it does not (section 6).
- `Planificacion` has no time: the CPU may return a process for any reason at
  any moment, which includes every expiry of a quantum. It has no CPU
  interrupts: a kill of the running process is found when the CPU returns it.
  `Turnos` has the time and the interrupts, and takes the semaphores of
  `Planificacion` as given: a wait for a list and the move to EXEC are one step,
  and so is a kill.
- The clock of `Turnos` is discrete and stops at `QUANTUM + 1`, beyond which all
  its values act alike. A thread whose sleep is over may take any time to run.
  Cancelling a thread that has ended is taken as doing nothing. The parameters
  of a timer that was cancelled are freed while it may still run; only threads
  that are about to die read them, so what they read decides nothing. After a
  SIGNAL the timer of VRR reads its pid from beside a local variable
  (KP:545, section 6): `pid_del_timer` gives every value there, and the process
  of the turn everywhere else.
- `CicloCPU` keeps the page tables fixed, lets the memory answer at once (the CPU
  waits for each answer) and lets the planner decide anything about a process
  that leaves: `MemoriaPaginas`, `Turnos` and `Recursos` say what they do. The
  text of an instruction is already parsed. An access reaches no page its
  process does not have (`tiene`: the memory would take the frame of an element
  that is not in the list, MU:101), and no program runs past its last
  instruction. What the memory has at the start is a constant, `Contenidos`: a
  frame keeps what the processes before wrote in it. The user of STDIN may type
  less than what was asked for, as much, or one byte more, which stands for any
  longer text: once the pieces end, the interface dereferences NULL (EI:33) and
  dies, however many bytes are left. An interface may die at any moment
  (`InterfazCaida`), which takes the process to EXIT.
- `Paquetes` takes a field as a value; the lengths that travel with the fields
  are what makes that right. Sender and receiver of a field are modelled apart,
  so an order that differs between them shows.
- `Interfaces` keeps the planning running. The thread of an interface that
  disconnects asks whether its process is alive (`ConsultarCaida`) and then sends
  it to EXIT (`MandarAExit`): a kill fits in between. At the end of an operation
  the same question and what follows are one step, because the thread holds a
  planning semaphore that a kill waits for (KI:19). A PCB that was freed may look
  alive or not: reading it is undefined behaviour, so `sigue_vivo` gives both answers.
- `MemoriaPaginas` keeps the number one past the last frame, which is what
  `obtener_primer_frame_libre` returns when the memory is full.
- `DialFS` writes byte `k` of file `f` as the value `<<f, k>>`, so that contents
  that move can be followed. Its programs write inside the size in the metadata
  (`LimiteEscritura = "metadata"`); the wider limits are discussed in section 6.
  A name whose metadata file is empty (section 6) makes the operations that use
  it die; where that happens in the middle of a compaction the disk is left
  half-way (`cortada`), nothing repairs it, and what follows is left out.
- `Tlb` leaves out `CANTIDAD_ENTRADAS_TLB = 0`, with which the code does not use it.

## 3. The runs

Twelve; the longest take about two minutes with two workers, most take seconds.

| Run | Question | Bounds, and why they are enough |
|---|---|---|
| `recursos` | Accounting, mutual exclusion, agreement of state, cause and lists, FIFO, orderly exit, and the inductive invariant of the proofs | 3 processes: two may wait behind one. Two resources, one with no units; 2 units per process, so a process may block itself; 1 unit created by SIGNALs |
| `recursos_dormidos` (violation) | Is a resource with free units always given? | one resource of one unit, 3 processes |
| `planificacion_finalizar` | Lists and semaphores agree, one place per process, units of the degree, completeness of the search of a kill, a stop stops, the diagram of states | 2 processes, all commands, reasons that leave EXEC; degree 1 or 2 |
| `planificacion_vida` | Commands end; what is ready runs; what exits is freed; the diagram of states with WAIT, SIGNAL and nested returns | 2 processes with degree 2, so that one waits for the CPU of the other; start and stop at any moment; I/O, blocking and nested WAITs, exits |
| `planificacion_matar` (violation) | Does FINALIZAR_PROCESO always end? | 2 processes, nothing but kills |
| `memoria` | Isolation of frames, sizes, stable pages, justified refusals, answers; both policies of the TLB implement the abstract cache and hold no page twice | page tables: 3 processes, 2 frames, RESIZE to 0..3 pages: the memory fills and the extra frame number appears. TLB: 3 entries, 4 pages, 9 accesses: every entry can be replaced and hit in between. The two do not share state (`virtual` puts them together), and each behaviour moves one of them |
| `virtual` (violation) | Is a hit the frame of the page table? | 2 entries, 3 frames, 2 pages, 4 accesses |
| `cpu` | A machine per process; requests that arrive whole; texts written where they were asked for | 2 processes; the first one runs each of 51 programs: copies over one to three pages, moves of both widths at every offset, sums and subtractions that overflow, a loop and a jump, each I/O instruction with accesses of 0 to 9 bytes. Pages of 4 bytes in alternating frames, registers of 1 byte and 4 bytes of 32 values. Both interrupts and the death of an interface at any moment, all texts up to one byte more than what was asked for. 557 148 states |
| `dialfs` | Bitmap, extents and contents through growth, moves, compactions and restarts | 3 files in 4 blocks of 2 bytes, sizes 0..6: every branch of truncate is taken |
| `interfaces` | No blocked process is forgotten or attended twice; no interface in use is destroyed; waits end | 2 processes, 2 connections of different names; kills and disconnections at any moment. 87 060 states |
| `turnos` | One turn at a time; quantums of the PCB; the length of a resumed turn | the three algorithms, 2 processes, a quantum of 2 ticks (so that a part of it may be left), one interrupt in the socket and one cancelled timer at a time. 6 738 684 states |
| `turnos_vida` | Everybody gets a turn; a kill takes a process out | RR, 2 processes, a quantum of 1 tick. 412 320 states |

Bounds in guards: `MaxUsos`, `MaxCreadas` (units), `MaxPosts` (posts of a
semaphore by one process that goes on), `MaxPaginas`, `MaxTiempo` (clock of the
TLB), `MaxTamanio`, `MaxSocket` (interrupts on their way) and `MaxTardios`
(cancelled timers that have not died). `Conexiones` bounds the reconnections.

Deadlock is checked where the system cannot stop: `planificacion_vida`.
Elsewhere every process may have been created and freed, every connection
closed, a bound reached or an interface dead, and the model has nothing left to
do (`CHECK_DEADLOCK FALSE`); in those runs it is the liveness properties, in the
components that have them, that would notice a thread left waiting.

Fairness:

- `Planificacion`: weak fairness of every thread, of the answers of the CPU,
  the memory and the interfaces; strong fairness only where a thread waits for a semaphore
  or a mutex that others take and give back again and again (the helper threads
  of a stop, the mutex of the dictionary). POSIX semaphores and mutexes of
  Linux do not promise it, but they wake waiters in an order that gives it in
  practice. What the user types is never owed: a liveness property about the
  planners assumes that the planning is in the end left running.
- `MemoriaPaginas`: weak fairness of the thread that serves the CPU.
- `Turnos`: weak fairness of the planner, of the thread that counts, of the
  clock, of the loop of the CPU and of its thread of interrupts. Strong fairness
  of the clock while the planner waits for the CPU: that wait comes and goes with
  every WAIT and SIGNAL, and each instruction in it waits at least
  RETARDO_RESPUESTA of the memory, so time does go by in the slices of a turn,
  however short. Nothing is promised of the console, of the interfaces or of the
  programs, which may loop for ever.
- `Interfaces`: weak fairness of the threads, of the answers of a connected
  interface and of the planner in the middle of an I/O; strong fairness of the
  two places where a thread waits for the mutex of the dictionary.

## 4. What the passing runs show, beyond the invariants' names

- `SemaforosCoherentes` is why no planner takes from an empty list, even when a
  kill removes the element that its semaphore had announced: the search waits
  for the semaphore of the list before it removes.
- `RastreoCompleto` holds without WAIT and SIGNAL because a stop takes all five
  planning semaphores, so nobody carries a process between two lists. It is the
  property that would break first if one of the five were forgotten.
- `CuposConservados` says that no unit of the degree of multiprogramming is lost.
  It does not say that none is made up: one is, for each process killed in NEW
  (KP:998), and `deMas` counts it. `GradoRespetado` is the property that this
  breaks (section 6), and `GradoSinMuertesEnNew` says when it holds (section 5).
- `BloqueadoTienePedido` covers the window between the lookup of an interface
  and the queueing of the request, when the mutex of the dictionary has been
  released: `sem_control_uso_interfaz` is what closes it.
- `RechazoJustificado` shows that a RESIZE is refused only when there are fewer
  free frames than needed, although the loop counts with a frame that does not
  exist. The other side, that what is confirmed fits, is `ConfirmadoCabe`, which
  does not hold (section 6).
- `TextoEntero` is about the bytes of a text: they arrive in order, from the
  address the process gave and with nothing skipped, however the pieces fall. It
  says nothing of the rest of the last piece, which the memory writes too with
  what it finds after the text; that nothing is written after the text is
  `SinResto`, which does not hold (section 6).
- `UnSoloTurno` is what lets `recibir_paquete` write the context it gets in the
  PCB of the turn without looking at the pid: the code only logs a difference
  (`kernel_utils.c:145`). It holds because `check_interrupt` forgets the
  interrupt of a process whose instruction has already sent its context.
- `TurnoAcotado` holds although the planner works between the end of a slice and
  the next timer: the new timer counts what `clock_exec` has left, and under VRR
  what `quantum_restante` says.
- `RRAvanza` and `MatarTermina` are about the behaviours in which no cancelled
  timer dies with a mutex (`SinMutexHuerfano`) and no interrupt of quantum is
  forgotten (`AvisoVive`). The code guarantees neither (section 6); with either
  lost, a process that loops keeps the CPU for ever.
- `ImplementaMaquina` is the refinement of the CPU: the context of a process
  travels between its PCB, two packets and the global of the CPU, interrupts of
  both kinds come between any two instructions, and the accesses are cut in
  pieces by page; a process still computes what `Maquina` says, a machine that
  has nothing but its own registers and its own memory.
- `PedidoCompleto` follows the fields of an I/O request through three packets
  (CPU, kernel, interface): they are added and taken by different programs, in
  an order that nothing but the code agrees on.
- The runs of `dialfs` restart the interface at any point between two
  operations: the dictionary of metadata is rebuilt from the directory, the
  bitmap and the blocks are mapped again, and `BitmapExacto` and
  `ContenidoConservado` hold across it.

## 5. What is proved

`RecursosProofs` proves, for every set of processes and resources and every
number of units (assumption `RecursosAssumption`: finitely many processes,
natural numbers of units), as theorems of `Recursos!Spec`:

| Theorem | Statement |
|---|---|
| `TypeOKInvariante` | `TypeOK` |
| `ConservacionInvariante` | counter + recorded units = capacity |
| `ColasInvariante` | state, cause and list of the blocked agree |
| `InductivoInvariante` | `InvInductivo`, the conjunction of all parts |
| `ExclusionInvariante` | never more units held than there are |
| `SalidaOrdenadaSiempre` | a process in EXIT only gives back, and is freed with nothing |
| `SinAdelantamientoSiempre` | in no step is a waiter overtaken by one behind it |

The argument. `Conservacion` is inductive with `TypeOK`: each action changes the
counter of one resource and the units one process records by opposite amounts,
or a SIGNAL without a WAIT creates a unit; `TomarUnidad` and `DevolverUnidad`
are the two cardinality lemmas. `Exclusion` is not inductive: the counter alone
does not say how many of the recorded units were granted. `DeudaCubierta` adds
it (a counter is never further below zero than there are pending WAITs), and
`CuentasDanExclusion` derives `Exclusion` from the sum of both. A pending WAIT
is counted by `causa`, which a kill leaves in the PCB until the thread of EXIT gives the unit
back, so `DeudaCubierta` needs `ColasCoherentes`: a SIGNAL that wakes must wake a
process that was pending, and it clears its cause. `ColasCoherentes` in turn
needs `SalidaCoherente` (what the freeing thread holds or has queued is in EXIT,
once), or a freed process could be found in a list. `InvInductivo` is their
conjunction and run `recursos` checks it too. There is one lemma per part and
per kind of step (`ColasTrasWait`, `ColasTrasSignal`, `ColasTrasKill`, ...).
`SalidaOrdenadaSiempre` is an action property from the same invariant. For
`SinAdelantamientoSiempre` a list changes in one of four ways (`OrdenIgual`,
`OrdenAlEntrar`, `OrdenAlDespertar`, `OrdenAlMatar`); the last two rest on
`ColasCoherentes`, which has each process in a list once.

`MemoriaProofs` proves, for every set of processes, every number of frames and
every bound of a RESIZE (assumption `MemoriaAssumption`: at least one frame):

| Theorem | Statement |
|---|---|
| `TipoInvariante` | `TypeOK`, and the request in course is of a process |
| `AislamientoInvariante` | `InvMarcos`: no frame in two pages, every frame of a table is busy |
| `TamanioInvariante` | `TamanioConcedido` |
| `PaginasEstablesSiempre` | a page that stays keeps its frame in every step |
| `RechazoSiempreJustificado` | `RechazoJustificado`: a refusal means that there were too few frames |

`MarcosPropios` is not inductive alone: a new page gets a frame whose bit is
clear, which is in no table only because `TablasEnBitmap` says so, and giving a
page back clears a bit that no other page needs only because of
`MarcosPropios`. The frame one past the last may be in many pages and is left
out of both. `TamanioConcedido` needs to know that a request in course is of a
process that is still served (`PedidoEnCurso`, which rests on the kernel ending
a process only when the CPU has returned it) and that tables start empty (`TablasNuevas`).
`RechazoSiempreJustificado` counts. When the refusal comes the loop has already
given the process frames that were free, so what must be bounded is free frames
plus frames of the process, and the loop may have given it one frame that does not
exist. `CuentaDelPedido` relates the number the search returned to the length of
the table: past the last frame, either all bits are set, or the table has as many
pages as there are frames. `MarcosDeUnProceso` is the cardinality argument.

`TurnosProofs` proves, for every set of processes, every quantum, the three
algorithms and every number of pending interrupts and cancelled timers
(assumption `TurnosAssumption`: a finite set of processes, a quantum of at
least one tick):

| Theorem | Statement |
|---|---|
| `TurnosInvariante` | `InvTurnos`, the conjunction of all parts |
| `UnSoloTurnoInvariante` | `UnSoloTurno` |
| `QuantumInvariante` | `QuantumEnRango` |
| `TurnoAcotadoInvariante` | `TurnoAcotado` |

`TurnoAcotado` speaks of a timer that sleeps, but that timer got its parameters
before, so `Relojes` follows the sum of clock and count from the parameters to
the thread, and says that under VRR `quantum_restante` is what the clock leaves
of `quantum_inicial` from the cancellation to the resumption. For that, nobody
may write the quantums of the process of the turn meanwhile: `TurnoEnExec` says
that it stays in EXEC, while those who write (the interfaces, a SIGNAL, the
console, the thread of EXIT) only touch processes that are BLOCKED, in a list or
new. A SIGNAL wakes the processes of `porRecurso`, so these must be BLOCKED, and
taking the first of READY must not take one of them: `Colas` says that a process
in a list has the state of the list and is there once. `QuantumEnRango` needs
`Quantums`, which bounds the quantums wherever the process is. `UnSoloTurno`
follows from `UnaVuelta`, which says where the context is.

`MemoriaProofs` also has the TLB, and proves, for every number of entries, set of
processes and pages and both policies (assumption `TlbAssumption`):

| Theorem | Statement |
|---|---|
| `TiposDeLaTlb` | `TypeOKTlb`: no more entries than there is room for, the index of FIFO inside them |
| `PaginaEnUnaEntrada` | `SinRepetidas`: no page in two entries |
| `LaTlbImplementaLaCache` | `ImplementaCache`: the TLB is an abstract cache of its policy, `Cache`, that keeps its keys in the order they will be replaced |

Each policy changes the list in its own way (a write at the index, or the
removal of the least recent one and an addition at the end), and only after a
search has not found the page: `UnicasTrasReemplazar`, `UnicasTrasQuitar` and
`UnicasTrasAgregar` are the three lemmas about lists, and `InvTlb` adds the
types to `SinRepetidas`.

The abstract cache has one list, the next victim first; the refinement mapping
computes it, `OrdenDeSalida`. Under FIFO it is the list of entries turned by the
index, and `Vuelta` is the arithmetic of that turn: writing at the index and
advancing it is dropping the head and adding at the end. Under LRU it is the
list sorted by time, a CHOOSE: `OrdenUnico` shows that there is only one such
list (by the least place where two of them would differ), so a list that is
shown to be in order is the chosen one (`PorTiempoEs`). That there is one at all
is part of the invariant `Tiempos`, which also needs that the times of the
entries are all below the clock (so the entry that is accessed now goes last) and
that the index is 0 until the list is full. A hit moves an entry to the end under
LRU and nothing under FIFO (`CacheAlAcertar`); a miss drops the first one when the
list is full (`CacheAlFallar`).

`PlanificacionProofs` proves, for every set of processes, degree of
multiprogramming, set of commands and of reasons, and bound of nested posts
(assumption `PlanificacionAssumption`):

| Theorem | Statement |
|---|---|
| `InvarianteDePlanificacion` | `InvPlanificacion`, the inductive invariant |
| `TiposDePlanificacion` | `TypeOK`: no semaphore is negative |
| `GradoSinPerdidas` | `CuposConservados`: no unit of the degree is lost; those made up are counted |
| `LosAdmitidosTienenCupo` | `ConCupo`, every process in READY, EXEC or BLOCKED has a unit, in the behaviours of `[]SinExceso` |
| `GradoSinMuertesEnNew` | `deMas = 0 /\ GradoRespetado` in the behaviours of `[]SinExceso` in which no process is killed in NEW |
| `ExcesoParaSiempre` | a step never goes from `~SinExceso` to `SinExceso` |
| `SinRecursosNoHayExceso` | without WAIT and SIGNAL, `SinExceso` holds always |
| `ListasConSuSemaforo` | `SinExceso => SemaforosCoherentes` |
| `CadaProcesoEnUnLugar` | `SinExceso => UnSoloLugar` |
| `LaBusquedaEncuentra` | `SinExceso => RastreoCompleto` |
| `LaParadaDetiene` | `DetenidaNoMueve` in the behaviours of `[]SinExceso` |
| `ElCicloSeCumple` | `ImplementaCiclo` in the behaviours of `[]SinExceso` |

`SinExceso` says that the semaphore `exec_to_exec_or_ready_or_blocked`, with
what the planner and the helper threads hold of it, is one unit. It is needed
because the code makes it false: each nested call of `manejar_motivo_desalojo`
posts that semaphore (KP:846), so after a WAIT or a SIGNAL that goes on there
are two units, the console may stop the planning with one of them while the
planner goes on with the other, and then the two move processes at the same time. The
condition is not a vacuous one. Every behaviour without WAIT and SIGNAL has it
(`SinRecursosNoHayExceso`), those with them have it until the first nested post,
and once lost it is lost for ever (`ExcesoParaSiempre`). Nor is it stronger than needed to
the point of hiding something: TLC finds no violation of `SemaforosCoherentes`,
`UnSoloLugar` or `ImplementaCiclo` with two processes, excess or not, but with
three (degree 3, creations and kills, WAIT, SIGNAL and I/O, `MaxPosts = 2`) it
violates them in a behaviour of 57 steps: the console has taken a blocked
process out of its list to kill it while a SIGNAL of a planner that should be
stopped wakes that process, with the token of another one.

The invariant has two layers. `InvBase` holds with or without excess: types,
where each thread may be (`Lineas`), who has stopped the planning (`Parada`), the
other four planning semaphores are binary (`Binarios`), and the units of the
degree. Under `SinExceso` there is `InvReparto`: each list has exactly the processes in
its state that no thread carries (`Listas`), what a thread carries has the state
it expects (`Manos`), the doomed are running or in EXIT (`Condenados`), a search has not
passed its process (`Busqueda`), and each list has what its semaphore announces.
There is one lemma per part and per kind of thread; the last two theorems of the
table say of a step what follows from the invariant before it.

Whether units of the degree are made up is a question apart, because they are: a
process that is freed posts one (KP:998) whether it took one or not.
`GradoSinMuertesEnNew` says that a kill in NEW (`MuereEnNew`) is the only cause:
every other way into EXIT starts in READY, EXEC or BLOCKED, where `ConCupo` has
each process with a unit, or is memory's refusal of a process that the planner
has taken, with its unit, out of NEW. With no unit made up, `CuposConservados`
bounds the processes in the system by the degree.

`InterfacesProofs` proves, for every set of processes, connections and names
(assumption `InterfacesAssumption`):

| Theorem | Statement |
|---|---|
| `InvarianteDeInterfaces` | `InvInterfaces`, for any names |
| `TiposDeInterfaces` | `TypeOK`: the semaphore of an interface is 0 or 1 |
| `UnPedidoEnUnLugar` | `PedidoUnico`, for any names |
| `InvarianteConNombres` | `InvConNombres`, if no two connections have the same name |
| `LaInterfazEnUsoVive` | `EnUsoViva`, under the same condition |
| `NingunBloqueadoOlvidado` | `BloqueadoTienePedido`, under the same condition |

Distinct names (`NombresDistintos`) are what the Enunciado gives interfaces, but
an interface that goes away and connects again has the name of before, and
nothing waits for its first thread to end: that thread then removes by name
(KI:58) the new connection from the dictionary, and both properties fail
(`EliminaSinUso`, section 6). A request that was lost in that way is still in
one place, so the first half holds for any names. There, the requests of an
interface are those of its list and the one its thread attends; they are
disjoint (`SinRepetir`), which needs that a process with a request neither runs
nor is ready (`Quietos`), or it could make a second one. With distinct names `Nombrado` says
which threads have the mutex and which connections are in the dictionary, hence
that a thread cannot be between its last look at the semaphore of use and its
removal while the planner is between `sem_wait` and `sem_post`.

`DialFSProofs` proves, for every set of names and every number and size of the
blocks (assumption `DialFSAssumption`):

| Theorem | Statement |
|---|---|
| `Compactacion` | the compaction puts the other files one after another from the first block, with no hole and no overlap, and ends where `ocupan` says |
| `DialFSCorrecto` | `InvDialFS`, the inductive invariant |
| `DialFSTipos` | `TypeOK` |
| `DialFSBitmap` | `BitmapExacto` |
| `DialFSContenido` | `ContenidoConservado`, if programs write inside the recorded size (`LimiteEscritura = "metadata"`) |

The new first block of a file in a compaction is the number of blocks of the
files before it, the one that grows aside (`nuevo_bloque_inicial`), since the code
lays them one behind another. That this gives runs without overlap is a pigeonhole
argument: between the first blocks of two files there are at least the blocks of
the first one. That it leaves no hole is the same count, from the last of
them. The sum of the sizes of the other files is the number of
their bits, because they share none; it is stated as a cardinality, without
induction. For the contents, files are intervals of bytes and every operation
copies an interval or leaves it alone; a copy may overwrite only bytes that are of no
other file, which is `BitmapExacto` again, before and after. The condition on
the writes is not for the proof: with the wider limits TLC refutes the property (section 6).

`CicloCPUProofs` proves, for every set of processes, all programs and page
tables, every size of a page, number of bytes of a register and of values of a
byte, contents of the memory and interrupts:

| Theorem | Statement |
|---|---|
| `SiempreInv` | `Inv`, the inductive invariant |
| `SiemprePedidoCompleto` | `PedidoCompleto` |
| `SiempreTextoEntero` | `TextoEntero`, the bytes of the text and not those after it, in the behaviours of `[]SinCruces` |
| `SiempreImplementaMaquina` | `ImplementaMaquina` in the behaviours of `[]SinCruces` |
| `SinCrucesSiCaben` | `[]SinCruces` in the behaviours of `[]AccesosCaben` |

Assumptions. `RegistrosAssumption` and `FragmentosAssumption`: a byte has at least
two values and a page at least four bytes (MMU:334 says that smaller ones were not
considered). `CicloCPUAssumption`: a register fits in a page, the tables have as
many pages for all processes and share no frame (`AislamientoInvariante` proves that of
`MemoriaPaginas`), the frames are inside the memory, a program is shorter than
what the program counter counts, and the values that stand for "nothing" and
"garbage" are not packets, numbers or names.

`SinCruces` says that no piece of the request of an STDIN or FS_READ goes past
the end of a page. It is needed because the code lets pieces cross: the loop of
`mmu_agregar_dirs_tamanio_paquete` keeps the offset of the first piece for all
(MMU:209, section 6), and such a piece is written in the frame that happens to be next. It
is a condition on programs and no more: `SinCrucesSiCaben` proves it of every
access that starts a page, or that ends in the page after the one it starts in
(`AccesosCaben`), whatever the turns, the interrupts and the interfaces do. The
programs of run `cpu` are of that kind. COPY_STRING, MOV_IN, MOV_OUT and the requests
themselves need no such condition.

The argument, from the data up.

- The loops that cut and move are recursive functions of what is left. That there
  is a function with such a definition is `HayRecursiva`, by the least number up
  to which there is none. It is used for the pieces, the bytes read, the bytes
  written, the bytes of a number and the sum of the sizes of the pieces.
- The pieces go from the first byte to the last one without a gap
  (`TrozosCortan`). Those of COPY_STRING and of the registers also end in their
  page (`CopyStringCubre`, `MoverRegistroCubre`), and then the bytes of a piece
  are together in the memory (`PiezaEnMemoria`). No two addresses are one byte
  (`DireccionUnica`: the page is the quotient, the offset the remainder, and
  frames are not shared), so what is read is the memory of the process and what
  is written changes nothing else (`EscritoSolo`). How many pieces are announced
  is how many there are (a division rounded up).
- What is unpacked is what was packed (`ContextoDesempaquetado`, `Despues`): the
  registers in the order of `Orden`, and after them, untouched, what the
  instruction added.
- `Inv` has types and three parts. `Turno`: while the planner waits there is one
  context, in the socket to the CPU (`Ida`), in the CPU (`EnCpu`) or in the
  packet that comes back (`Vuelta`), which is a packet that the last instruction
  of the process sends. `Solicitudes`: who waits for an interface is blocked, and
  its request is the one of the instruction before its program counter, with the
  registers in its PCB. `Entrada`: the interface works on such a request, and
  has read the bytes of its first pieces, or all of a shorter text. No part is
  inductive alone: that a request is that of the last instruction needs that
  nobody runs the process while it waits, which is `Turno`.
- `SiempreTextoEntero` adds that what was written is still there (`Escrita`): the
  CPU writes in the memory of the process of the turn, which is another one, and
  the interface at addresses not yet written.
- The refinement maps the context of a process to its PCB, the CPU or the packet,
  as `Turno` says (`Visto`). The steps of the CPU that run an instruction are one
  step of one machine (`EsMovIn`, `EsCopyString`, ...); so are the answers of the
  kernel, the ends of the requests and the pieces of the interfaces, which only
  write in what was asked for (`EscrituraImplementa`, the only one that needs
  `SinCruces`). Receiving and sending contexts, interrupts, the dispatch and the
  end of a quantum change no machine. In each step the other machines stay
  (`Otros`).

Only model-checked: what must happen eventually (`ConsolaResponde`,
`ListoEjecuta`, `SalidaLibera`, `CambioRespondido`, `EsperaTermina`, `RRAvanza`,
`MatarTermina`), because liveness under fairness and `ENABLED` are out of the
prover's reach. Every safety invariant and action property of a passing run is
stated by a theorem, some of them under the conditions that the tables above say.

## 6. Where the code and the documents disagree

Three disagreements have a run of their own and are findings of `PROJECT.json`:
`recursos_dormidos` (KR:95: a SIGNAL wakes only when the counter becomes exactly
0), `planificacion_matar` (KE:116: the console waits for a token that a stopped
planner took) and `virtual` (MMU:23: an entry of the TLB outlives its page).

The others are stated as properties in the modules, in a section at their end or
under the heading "What the documents say", and TLC refutes each one when it is
checked. They are not in the passing runs because the modelled code does not satisfy them.

| Property | Code | What happens |
|---|---|---|
| `DetenidaNoMueve`, `RastreoCompleto`, and with three processes `SemaforosCoherentes`, `UnSoloLugar` and `ImplementaCiclo` (with WAIT and SIGNAL, `MaxPosts = 2`) | KP:846 | each nested call of `manejar_motivo_desalojo` posts the semaphore again, so after a WAIT or SIGNAL that goes on a stop no longer stops the short-term planner, against the comments of KP:360 and KP:862. Without WAIT and SIGNAL all of them hold, for any number of processes (section 5) |
| `GradoRespetado` | KP:998 | a process killed in NEW never took a unit of the degree and one is posted for it; Enunciado p. 10. It holds where no process is killed in NEW (`GradoSinMuertesEnNew`, section 5) |
| `ReduccionPrimero` | KP:947 | the planner passes the control semaphore and then waits for the degree, so a reduction does not keep it out |
| `CeroImplicaBloqueados` | KR:95 | its comment says the list cannot be empty at 0; after a kill of a waiter it can |
| `ListadoPorEstado` | KI:51 | on a disconnection a process goes to EXIT and stays in the list of BLOCKED; Enunciado p. 13 |
| `ExitUnaVez` | KI:144 | the processes of the pending requests go to EXIT without the test of KI:49, also those killed before |
| `DescartaFinalizados` | KI:13 | the request points to a PCB that may have been freed |
| `EliminaSinUso` (one name, two connections) | KI:57 | the interface is removed by its name, which may be that of a new connection; the comment of KI:54 says it is removed as long as nobody uses it |
| `MarcosDevueltos` | MU:14 | the frames of a process that ends stay busy; Enunciado p. 21 |
| `ConfirmadoCabe` | MU:66 | with one page too many the RESIZE is confirmed and the last page has a frame past the end; Enunciado p. 22 |
| `ResizeRespondido` | MC:195 | a RESIZE to the size the process has is not answered; IN:254 waits |
| `SinMutexHuerfano` | KP:274 | a timer that is cancelled after it woke may take both mutexes and die at the send, the next cancellation point, with them: the comment at the mutex says it is there to avoid that. 14 steps |
| `AvisoVive` | `cpu_utils.c:246` | an instruction that leaves has sent its context, the kernel has dispatched the process again and its new timer has sent its interrupt before the CPU comes to the `check_interrupt` of that instruction, which forgets it: the new slice is not interrupted. 20 steps |
| `TimerDelTurno` | KP:545 | under VRR, after a SIGNAL, `contar_quantum` is given the address of the local `quantum_restante` and reads a pid after it: it may interrupt any process. After a WAIT it gets its parameters (KP:448). 13 steps |
| `PlusAvanza` | KP:296 | the planner of VRR sees READY_PLUS empty and waits for READY: with a single process, which comes back to READY_PLUS, it waits for ever |
| `SinResto` | EI:38 | the comment of EI:48 says that the bytes to send are adjusted "para no exceder los bytes restantes", but the packet already has the size of the whole piece (EI:38) and the memory writes all of it: what follows a text that ends inside a piece is overwritten with what the memory finds after it |
| `EscrituraEnElArchivo` (`LimiteEscritura = "pedido"`) | EI:545 | a truncate without room is not reported, and the program writes past its file; Enunciado p. 18 |
| `TamanioActualizado`, `ContenidoConservado` (`LimiteEscritura = "bloques"`) | EI:566 | a truncate inside the same number of blocks does not update the size, and a later move copies only the recorded bytes; Enunciado p. 18 |
| `MetadataCompleta` | EI:168 | a create without free blocks leaves an empty metadata file, and the name can neither be created nor deleted; Enunciado p. 26 |

Some were met while reading and decide what the models leave out, without a
property of their own:

- An access of STDIN, STDOUT or of a file that does not begin at the start of a
  page and reaches a third page is cut with the offset of the first piece for
  all of them (MMU:209), so a later piece crosses the end of its page (Enunciado
  p. 19). `MCCicloCPU` has the accesses that fit (`Entran`).
- STDIN takes pieces until the text ends, not until the pieces do: with a text
  longer than what was asked for, `list_get` gives NULL past the last piece, and
  EI:33 reads through it. In `CicloCPU` the interface takes no step from there
  but to die (`InterfazCaida`).
- Registers that are not in `get_reg` (SI and DI, and PC, `procesos.c:24`) read
  as 0 in SUM, SUB, JNZ, MOV and the I/O instructions, and JNZ of a register
  that is 0 does not advance the program counter. `Registros` and `CicloCPU` do
  what the code does.
- STDOUT reads as a string bytes that carry no final zero (EI:121).
- DialFS, at a restart: a file whose name contains `.dat` or begins with a point
  is not read (II:83); its bits stay busy with no file, and a compaction that
  meets them dereferences NULL. A create without free blocks leaves an empty
  metadata file, which comes back at the restart and makes a delete, a truncate,
  a write or a compaction of that name die (`vacios`). A stop of the process in
  the middle of a create (EI:161), a delete (EI:204), a growth (EI:501) or a
  truncate (EI:573) leaves bitmap and metadata disagreeing, and nothing repairs
  them.
- The interface ignores the result of `recibir_paquete` (EK:9) and repeats its
  last operation with an empty buffer once the kernel has ended. The loops of
  the CPU and of the planner do the same.

The consequences for the passing runs: `planificacion_finalizar` leaves WAIT and
SIGNAL out; `recursos` has the kills (`FinalizarListo`, `FinalizarBloqueado`) as
one step each, which is what the stop of the planning is for, but after the
posts of KP:846 a planner may be in the middle of a WAIT or a SIGNAL while the
console kills, and those interleavings are not in it; `interfaces` has no two connections of one name, `dialfs` no writes
past the recorded size, no names with `.dat` and no stops inside an operation,
`cpu` no I/O access past its second page unless it is aligned, and the liveness
of `turnos_vida` carries its two provisos. Enunciado p. 12 says that a
disconnection of an interface in use is not evaluated; the code handles it, so
it is modelled.

## 7. What is not modelled, and why

- A stop of DialFS in the middle of an operation: the code has no recovery, so
  there is nothing it would have to keep.
- Start-up, handshakes and configuration: each program runs them once, in
  sequence, before any of the threads above exists.
- The byte lengths of fields and the calls on sockets: a field is a value in
  `Paquetes`, and a socket delivers whole packets in order.
- What STDOUT and GENERICA print or wait: it changes no state of the system.
- `registros.c`: an earlier version of the registers that nothing calls.
- The threads of the memory that accept connections; each serves one program in
  sequence, as `MemoriaPaginas` and `CicloCPU` have it.
- The parsing of the text of an instruction and of the console: `CicloCPU` has
  the instructions already parsed and `Planificacion` the commands.

## 8. Plan

Done: `Planificacion` with `CicloDeVida`, `Recursos`, `Turnos`, `Interfaces`,
`MemoriaPaginas`, `Tlb` with `Cache`, `CicloCPU` with `Maquina`, and `DialFS`, with
their proofs; `MemoriaVirtual`, `Registros`, `Paquetes` and `Fragmentos`.

What could come next: `CicloCPU` over the changing tables of `MemoriaPaginas`, and
a stop of DialFS inside an operation if the code ever repairs one.
