--------------------------- MODULE MemoriaPaginas ---------------------------
(***************************************************************************)
(* The frames and page tables of the memory process (memoria_utils.c,      *)
(* memoria_cpu.c, memoria_kernel.c).                                       *)
(*                                                                         *)
(* Two threads change them: the one that serves the CPU (RESIZE) and the   *)
(* one that serves the kernel (a process starts, a process ends).  Only    *)
(* the first uses the bitmap, page by page; the kernel ends a process when *)
(* the CPU has already returned it, so never in the middle of its RESIZE.  *)
(* The CPU sends one request at a time and waits for the answer.           *)
(*                                                                         *)
(* A page table is a sequence: page 0 is its first element.  Frames are    *)
(* numbered from 0 and there are NumMarcos of them; the number NumMarcos   *)
(* itself is what obtener_primer_frame_libre returns when all are busy.    *)
(***************************************************************************)
EXTENDS Integers, Sequences, FiniteSets

CONSTANTS
  Pids,        \* process identifiers
  NumMarcos,   \* TAM_MEMORIA / TAM_PAGINA
  MaxPaginas,  \* bound: the pages a RESIZE may ask for
  Ninguno      \* no process

ASSUME MemoriaAssumption ==
  /\ NumMarcos \in Nat \ {0}
  /\ MaxPaginas \in Nat
  /\ Ninguno \notin Pids

Marcos == 0..NumMarcos - 1

VARIABLES
  procesos,    \* the pids in the list `procesos`
  terminados,  \* the pids that were in it
  tabla,       \* tabla_paginas of each process
  ocupados,    \* the bits that are set in frames_libres
  linea,       \* what the thread of the CPU does
  pid_cpu,     \* the process of its request
  size,        \* the pages that request asks for
  frame,       \* the local variable of the loops of RESIZE
  esperando,   \* the CPU waits for the answer to a RESIZE
  sinMemoria,  \* the processes answered OUT_OF_MEMORY
  concedido    \* history: pages in the last confirmed RESIZE

pedido == <<linea, pid_cpu, size, frame>>
resultado == <<esperando, sinMemoria, concedido>>
vars == <<procesos, terminados, tabla, ocupados, pedido, resultado>>

Init ==
  /\ procesos = {}
  /\ terminados = {}
  /\ tabla = [p \in Pids |-> <<>>]
  /\ ocupados = {}
  /\ linea = "lista"
  /\ pid_cpu = Ninguno
  /\ size = 0
  /\ frame = 0
  /\ esperando = FALSE
  /\ sinMemoria = {}
  /\ concedido = [p \in Pids |-> 0]

-----------------------------------------------------------------------------
(* The thread of the kernel.                                               *)

crear_proceso(p) ==
  /\ p \notin procesos \cup terminados
  /\ procesos' = procesos \cup {p}
  /\ UNCHANGED <<terminados, tabla, ocupados, pedido, resultado>>

(* SOLICITUD_FINALIZAR_PROCESO: destruir_proceso destroys the page table   *)
(* and leaves the bitmap alone.  The CPU does not hold the process.        *)
finalizar_proceso(p) ==
  /\ p \in procesos
  /\ ~(esperando /\ pid_cpu = p)
  /\ procesos' = procesos \ {p}
  /\ terminados' = terminados \cup {p}
  /\ tabla' = [tabla EXCEPT ![p] = <<>>]
  /\ UNCHANGED <<ocupados, pedido, resultado>>

-----------------------------------------------------------------------------
(* The thread of the CPU: COP_RESIZE.                                      *)

(* The CPU asks and waits; resize compares and chooses.  When the process  *)
(* already has n pages no branch is taken and nothing is answered.  A      *)
(* process that was answered OUT_OF_MEMORY does not execute again.         *)
resize(p, n) ==
  LET tam == Len(tabla[p]) IN
  /\ linea = "lista"
  /\ ~esperando
  /\ p \in procesos \ sinMemoria
  /\ esperando' = TRUE
  /\ pid_cpu' = p
  /\ size' = n
  /\ frame' = IF tam < n THEN tam ELSE 0
  /\ linea' = CASE tam = 0 \/ tam < n -> "amplia"
                [] tam > n            -> "reduce"
                [] OTHER              -> "lista"
  /\ UNCHANGED <<procesos, terminados, tabla, ocupados, sinMemoria, concedido>>

(* obtener_primer_frame_libre returns f: the first frame with its bit      *)
(* clear, or NumMarcos if there is none.                                   *)
primer_frame_libre(f) ==
  /\ f < NumMarcos => f \notin ocupados
  /\ \A g \in Marcos : g < f => g \in ocupados

(* Wrong variants (mut_...) of the definitions they precede: none of them  *)
(* is used by the specification; the runs are expected to refute each one. *)

(* The bit of the frame is not set. *)
mut_crear_sin_marcar ==
  /\ linea = "amplia"
  /\ Len(tabla[pid_cpu]) < size
  /\ frame < NumMarcos
  /\ \E f \in 0..NumMarcos :
       /\ primer_frame_libre(f)
       /\ tabla' = [tabla EXCEPT ![pid_cpu] = Append(@, f)]
       /\ frame' = f
  /\ UNCHANGED <<procesos, terminados, ocupados, linea, pid_cpu, size, resultado>>

(* One iteration of the loop of asignar_size_proceso or aumentar_proceso:  *)
(* crear_pagina takes a frame, list_add appends the page.                  *)
crear_pagina ==
  /\ linea = "amplia"
  /\ Len(tabla[pid_cpu]) < size
  /\ frame < NumMarcos
  /\ \E f \in 0..NumMarcos :
       /\ primer_frame_libre(f)
       /\ ocupados' = ocupados \cup {f}
       /\ tabla' = [tabla EXCEPT ![pid_cpu] = Append(@, f)]
       /\ frame' = f
  /\ UNCHANGED <<procesos, terminados, linea, pid_cpu, size, resultado>>

responder(confirma) ==
  /\ linea' = "lista"
  /\ esperando' = FALSE
  /\ IF confirma
       THEN concedido' = [concedido EXCEPT ![pid_cpu] = size] /\ UNCHANGED sinMemoria
       ELSE sinMemoria' = sinMemoria \cup {pid_cpu} /\ UNCHANGED concedido
  /\ UNCHANGED <<procesos, terminados, tabla, ocupados, pid_cpu, size, frame>>

(* Out of memory is answered as soon as one page was created. *)
mut_fin_ampliacion_apurado ==
  /\ linea = "amplia"
  /\ frame > 0
  /\ responder(Len(tabla[pid_cpu]) = size)

(* The answer does not look at how many pages there are. *)
mut_fin_ampliacion_confiado ==
  /\ linea = "amplia"
  /\ ~(Len(tabla[pid_cpu]) < size /\ frame < NumMarcos)
  /\ responder(frame <= NumMarcos)

(* The end of the loop and the answer. *)
fin_ampliacion ==
  /\ linea = "amplia"
  /\ ~(Len(tabla[pid_cpu]) < size /\ frame < NumMarcos)
  /\ responder(Len(tabla[pid_cpu]) = size /\ frame <= NumMarcos)

(* The page removed is the first one. *)
mut_quitar_la_primera ==
  /\ linea = "reduce"
  /\ Len(tabla[pid_cpu]) > size
  /\ ocupados' = ocupados \ {Head(tabla[pid_cpu])}
  /\ tabla' = [tabla EXCEPT ![pid_cpu] = Tail(@)]
  /\ UNCHANGED <<procesos, terminados, pedido, resultado>>

(* One iteration of the loop of reducir_proceso, from the last page. *)
quitar_pagina ==
  LET s == tabla[pid_cpu] IN
  /\ linea = "reduce"
  /\ Len(s) > size
  /\ ocupados' = ocupados \ {s[Len(s)]}
  /\ tabla' = [tabla EXCEPT ![pid_cpu] = SubSeq(s, 1, Len(s) - 1)]
  /\ UNCHANGED <<procesos, terminados, pedido, resultado>>

(* The thread goes back to its loop without answering. *)
mut_fin_reduccion_muda ==
  /\ linea = "reduce"
  /\ Len(tabla[pid_cpu]) = size
  /\ linea' = "lista"
  /\ UNCHANGED <<procesos, terminados, tabla, ocupados, pid_cpu, size, frame,
                 resultado>>

fin_reduccion ==
  /\ linea = "reduce"
  /\ Len(tabla[pid_cpu]) = size
  /\ responder(TRUE)

-----------------------------------------------------------------------------

PasoKernel == \E p \in Pids : crear_proceso(p) \/ finalizar_proceso(p)

PasoResize == crear_pagina \/ fin_ampliacion \/ quitar_pagina \/ fin_reduccion

Next ==
  \/ PasoKernel
  \/ \E p \in Pids, n \in 0..MaxPaginas : resize(p, n)
  \/ PasoResize

Spec == Init /\ [][Next]_vars

(* The thread of the CPU goes on with the request it has. *)
SpecJusta == Spec /\ WF_vars(PasoResize)

-----------------------------------------------------------------------------
(* Safety.                                                                 *)

TypeOK ==
  /\ procesos \subseteq Pids /\ terminados \subseteq Pids
  /\ tabla \in [Pids -> Seq(0..NumMarcos)]
  /\ ocupados \subseteq 0..NumMarcos
  /\ linea \in {"lista", "amplia", "reduce"}
  /\ pid_cpu \in Pids \cup {Ninguno}
  /\ size \in Nat
  /\ frame \in Nat
  /\ esperando \in BOOLEAN
  /\ sinMemoria \subseteq Pids
  /\ concedido \in [Pids -> Nat]

(* Isolation: a frame of the memory is in one page of one process.  The    *)
(* bitmap, the tables and the loops that grow and shrink them together     *)
(* keep two processes, or two pages, from sharing a frame.                 *)
MarcosPropios ==
  \A p, q \in Pids : \A i \in DOMAIN tabla[p] : \A j \in DOMAIN tabla[q] :
    tabla[p][i] = tabla[q][j] /\ tabla[p][i] \in Marcos => p = q /\ i = j

(* Every frame in a table is marked as busy, so it is not given again. *)
TablasEnBitmap ==
  \A p \in Pids : \A i \in DOMAIN tabla[p] :
    tabla[p][i] \in Marcos => tabla[p][i] \in ocupados

(* Between requests a process has exactly the pages its last confirmed     *)
(* RESIZE asked for, whatever was resized or finished in between.          *)
TamanioConcedido ==
  \A p \in procesos \ sinMemoria :
    (~esperando \/ pid_cpu # p) => Len(tabla[p]) = concedido[p]

(* A page that stays keeps its frame: a RESIZE only adds or removes pages  *)
(* at the end.  The physical addresses of an I/O in course rely on it.     *)
PaginasEstables ==
  [][\A p \in Pids :
       tabla'[p] # <<>> =>
         \A i \in DOMAIN tabla[p] \cap DOMAIN tabla'[p] :
           tabla'[p][i] = tabla[p][i]]_vars

(* OUT_OF_MEMORY is answered only when the frames of the process and the   *)
(* ones marked as free are fewer than the pages asked for, even when some  *)
(* page of the process got no real frame before.                           *)
RechazoJustificado ==
  [][sinMemoria' # sinMemoria =>
       Cardinality(Marcos \ ocupados)
         + Cardinality({i \in DOMAIN tabla[pid_cpu] : tabla[pid_cpu][i] \in Marcos})
         < size]_vars

(* What makes MarcosPropios inductive: the tables are in the bitmap, and   *)
(* the request in course is of a process.                                  *)
PedidoValido == linea # "lista" => pid_cpu \in Pids

InvMarcos == TypeOK /\ MarcosPropios /\ TablasEnBitmap /\ PedidoValido

-----------------------------------------------------------------------------
(* Liveness.                                                               *)

(* A RESIZE that changes the number of pages is answered. *)
CambioRespondido ==
  \A p \in Pids :
    (esperando /\ pid_cpu = p /\ Len(tabla[p]) # size) ~> ~esperando

-----------------------------------------------------------------------------
(* What the documents say and the code does not do.                        *)

(* Enunciado, page 21: when a process is finished its frames are marked as *)
(* free.  destruir_proceso never touches the bitmap.                       *)
MarcosDevueltos ==
  \A f \in ocupados \cap Marcos :
    \E p \in procesos : \E i \in DOMAIN tabla[p] : tabla[p][i] = f

(* Enunciado, page 22: a RESIZE that needs more frames than there are is   *)
(* answered with Out Of Memory.  With one page too many it is confirmed.   *)
ConfirmadoCabe ==
  \A p \in procesos \ sinMemoria :
    ~esperando => \A i \in DOMAIN tabla[p] : tabla[p][i] \in Marcos

(* instrucciones.c:254 speaks of the answer of the memory to a RESIZE, and *)
(* ejecutarResize waits for it.  A RESIZE that asks for the pages that the *)
(* process already has is not answered, and the CPU waits for ever.        *)
ResizeRespondido == esperando ~> ~esperando

=============================================================================
