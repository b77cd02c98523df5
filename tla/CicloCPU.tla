------------------------------- MODULE CicloCPU -------------------------------
(***************************************************************************)
(* The cycle of instructions of the CPU (cpu_kernel_dispatch.c,            *)
(* instrucciones.c, mmu.c) with what it exchanges with the kernel: the     *)
(* context that goes and comes in a packet at every turn, the interrupts,  *)
(* the requests of I/O, and the memory that the interfaces write.          *)
(*                                                                         *)
(* The planner takes any ready process and decides anything about a        *)
(* process that leaves (Turnos and Recursos say what); the page tables are *)
(* given and do not change (MemoriaPaginas says how they do).  The memory  *)
(* answers what it is asked at once: the CPU waits for each answer.        *)
(***************************************************************************)
EXTENDS Registros, Paquetes, Fragmentos

CONSTANTS
  Procesos,
  Cargas,          \* the programs each process may be given: [Procesos -> Seq(instr.)]
  tabla_paginas,   \* the frame of each page: [Procesos -> Seq(frames)]
  TAM_MEMORIA,     \* the bytes of the memory
  Contenidos,      \* what they may be: frames keep what others wrote in them
  Interrupciones,  \* INTERRUPT_QUANTUM, INTERRUPT_USER: those that are sent
  Nadie

Instruccion == [code : STRING, r : STRING, s : STRING, t : STRING, n : Nat, nombre : STRING]

(* What goes in a packet: a pid, a number, a name, the code of an I/O. *)
Textos == STRING \cup {SinNombre}
Campo == Procesos \cup Nat \cup Textos \cup {"interfaz"} \cup DeEntradaSalida

(* A program is shorter than what the program counter counts.  The tables  *)
(* are those of MemoriaPaginas: a frame is of one page of one process.     *)
ASSUME CicloCPUAssumption ==
  /\ Nadie \notin Procesos \cup [codigo_operacion : DeEntradaSalida, buffer : Seq(Campo)]
  /\ Basura \notin Int \cup STRING \cup {SinNombre}
  /\ Interrupciones \subseteq {"INTERRUPT_QUANTUM", "INTERRUPT_USER"}
  /\ Cargas \subseteq [Procesos -> Seq(Instruccion)]
  /\ \A programa \in Cargas : \A p \in Procesos : Len(programa[p]) < GRANDE
  /\ BYTES <= tamanio_pagina
  /\ TAM_MEMORIA \in Nat /\ Contenidos \subseteq [0 .. TAM_MEMORIA - 1 -> 0 .. CHICO - 1]
  /\ tabla_paginas \in [Procesos -> Seq(Nat)]
  /\ \A p, q \in Procesos :
       /\ Len(tabla_paginas[p]) = Len(tabla_paginas[q])
       /\ \A i \in DOMAIN tabla_paginas[p], j \in DOMAIN tabla_paginas[q] :
            tabla_paginas[p][i] = tabla_paginas[q][j] => p = q /\ i = j
  /\ \A p \in Procesos : \A i \in DOMAIN tabla_paginas[p] :
       (tabla_paginas[p][i] + 1) * tamanio_pagina <= TAM_MEMORIA

VARIABLES
  programa,     \* the instructions that the memory has of each process
  espacio,      \* espacio_usuario, by physical address
  \* the kernel
  estado,       \* the state of each process
  contextos,    \* the context in each PCB
  solicitudes,  \* the packet of the request each process waits for, or Nadie
  ejecutando,   \* the process of the turn
  espera,       \* whether the planner waits in recibir_paquete
  buffer,       \* the buffer of the planner
  \* the sockets
  alCpu, alKernel,
  \* the CPU
  pcb,          \* its context, with the pid
  linea,        \* "recibe", "ejecuta", "chequea"
  salir_ciclo_instruccion,
  diccionario_interrupciones,
  \* the interface that reads from the keyboard
  entrada       \* the request it works on and how far it got, or Nadie

delKernel == <<estado, contextos, solicitudes, ejecutando, espera, buffer>>
cpu == <<pcb, linea, salir_ciclo_instruccion>>
vars == <<programa, espacio, delKernel, alCpu, alKernel, cpu,
          diccionario_interrupciones, entrada>>

contexto(u) == [pc |-> u.pc, registros |-> u.registros]
t_pcb(pid, m) == [pid |-> pid, pc |-> m.pc, registros |-> m.registros]

TamProceso == tamanio_pagina * Len(tabla_paginas[CHOOSE p \in Procesos : TRUE])

Init ==
  /\ programa \in Cargas
  /\ espacio \in Contenidos
  /\ estado = [p \in Procesos |-> "READY"]
  /\ contextos = [p \in Procesos |-> inicializarPCB]
  /\ solicitudes = [p \in Procesos |-> Nadie]
  /\ ejecutando = Nadie /\ espera = FALSE /\ buffer = crear_buffer
  /\ alCpu = <<>> /\ alKernel = <<>>
  /\ pcb = t_pcb(Nadie, inicializarPCB)
  /\ linea = "recibe" /\ salir_ciclo_instruccion = FALSE
  /\ diccionario_interrupciones = [p \in Procesos |-> "nada"]
  /\ entrada = Nadie

-----------------------------------------------------------------------------
(* The context in a packet.                                                *)

Orden == <<"AX", "BX", "CX", "DX", "EAX", "EBX", "ECX", "EDX", "SI", "DI">>
Lugar == [r \in Range(Orden) |-> CHOOSE k \in 1 .. 10 : Orden[k] = r]
CAMPOS == 12   \* the pid, the program counter and the registers

agregar_contexto_ejecucion_a_paquete(paquete, pid, m) ==
  agregar_a_paquete(paquete, <<pid, m.pc>> \o [k \in 1 .. 10 |-> m.registros[Orden[k]]])

(* The two indices are unpacked one in the place of the other. *)
mut_desempaquetar_contexto_ejecucion_di(b) ==
  LET v == buffer_desempaquetar(b, CAMPOS) IN
  [pid |-> v[1], pc |-> v[2],
   registros |-> [r \in DOMAIN Lugar |->
                    v[2 + Lugar[CASE r = "SI" -> "DI" [] r = "DI" -> "SI" [] OTHER -> r]]]]

(* buffer_desempaquetar_contexto_ejecucion, and buffer_desempaquetar_pcb   *)
(* in the CPU: pid, program counter and registers.                         *)
buffer_desempaquetar_contexto_ejecucion(b) ==
  LET v == buffer_desempaquetar(b, CAMPOS) IN
  [pid |-> v[1], pc |-> v[2], registros |-> [r \in DOMAIN Lugar |-> v[2 + Lugar[r]]]]

-----------------------------------------------------------------------------
(* The memory, by pieces.                                                  *)

obtener_df(pid, dl) ==
  LET pagina == obtener_pagina(dl) IN
  tabla_paginas[pid][pagina + 1] * tamanio_pagina + obtener_offset(dl, pagina)

(* memoria_utils.c: leer and escribir move consecutive bytes. *)
leer(df, bytes) == [k \in 1 .. bytes |-> espacio[df + k - 1]]
escribir(esp, df, dato) ==
  [a \in DOMAIN esp |-> IF a \in df .. df + Len(dato) - 1 THEN dato[a - df + 1] ELSE esp[a]]

mmu_leer(pid, ts) ==
  LET leido[k \in 0 .. Len(ts)] ==
        IF k = 0 THEN <<>>
        ELSE leido[k - 1] \o leer(obtener_df(pid, ts[k].dl), ts[k].bytes)
  IN  leido[Len(ts)]

(* The second piece is written with the first bytes of the value. *)
mut_mmu_escribir_sin_avanzar(pid, ts, dato) ==
  LET escrito[k \in 0 .. Len(ts)] ==
        IF k = 0 THEN espacio
        ELSE escribir(escrito[k - 1], obtener_df(pid, ts[k].dl), SubSeq(dato, 1, ts[k].bytes))
  IN  escrito[Len(ts)]

mmu_escribir(pid, ts, dato) ==
  LET escrito[k \in 0 .. Len(ts)] ==
        IF k = 0 THEN espacio
        ELSE LET va == ts[k].dl - ts[1].dl
             IN  escribir(escrito[k - 1], obtener_df(pid, ts[k].dl),
                          SubSeq(dato, va + 1, va + ts[k].bytes))
  IN  escrito[Len(ts)]

(* The process has the pages of t bytes from dl: for another page the      *)
(* memory takes the frame of an element that is not in the list.           *)
tiene(dl, t) == t > 0 => dl + t <= TamProceso

-----------------------------------------------------------------------------
(* The CPU.                                                                *)

(* The planner sent a context: it is copied to the global pcb. *)
RecibirContexto ==
  /\ linea = "recibe" /\ alCpu # <<>>
  /\ pcb' = buffer_desempaquetar_contexto_ejecucion(Head(alCpu).buffer)
  /\ alCpu' = Tail(alCpu)
  /\ linea' = "ejecuta" /\ salir_ciclo_instruccion' = FALSE
  /\ UNCHANGED <<programa, espacio, delKernel, alKernel, diccionario_interrupciones, entrada>>

(* FETCH: the memory answers the instruction; a program counter past the   *)
(* last one makes it fail, and no program gets there.                      *)
instruccion == programa[pcb.pid][pcb.pc + 1]
hay_instruccion == linea = "ejecuta" /\ pcb.pc < Len(programa[pcb.pid])

(* The end of an iteration that leaves the CPU with the context m. *)
terminar_instruccion(m) ==
  /\ linea' = "chequea"
  /\ pcb' = t_pcb(pcb.pid, siguiente(m, instruccion))

sigue(m) ==
  /\ terminar_instruccion(m)
  /\ UNCHANGED <<programa, delKernel, alCpu, alKernel, salir_ciclo_instruccion,
                 diccionario_interrupciones, entrada>>

ejecutar_registros ==
  /\ hay_instruccion /\ instruccion.code \in DeRegistros
  /\ sigue(operar(contexto(pcb), instruccion))
  /\ UNCHANGED espacio

ejecutarMovIn ==
  LET i == instruccion
      ts == mover_registro(leer_reg(pcb, i.s), tamanio_reg(i.r)) IN
  /\ hay_instruccion /\ i.code = "MOV_IN" /\ tiene(leer_reg(pcb, i.s), tamanio_reg(i.r))
  /\ sigue(escribir_reg(contexto(pcb), i.r, de_bytes(mmu_leer(pcb.pid, ts))))
  /\ UNCHANGED espacio

ejecutarMovOut ==
  LET i == instruccion
      ts == mover_registro(leer_reg(pcb, i.r), tamanio_reg(i.s)) IN
  /\ hay_instruccion /\ i.code = "MOV_OUT" /\ tiene(leer_reg(pcb, i.r), tamanio_reg(i.s))
  /\ espacio' = mmu_escribir(pcb.pid, ts, a_bytes(leer_reg(pcb, i.s), tamanio_reg(i.s)))
  /\ sigue(contexto(pcb))

ejecutarCopyString ==
  LET i == instruccion
      cadena == mmu_leer(pcb.pid, copy_string(get_reg(pcb, "SI"), i.n)) IN
  /\ hay_instruccion /\ i.code = "COPY_STRING"
  /\ tiene(get_reg(pcb, "SI"), i.n) /\ tiene(get_reg(pcb, "DI"), i.n)
  /\ espacio' = mmu_escribir(pcb.pid, copy_string(get_reg(pcb, "DI"), i.n), cadena)
  /\ sigue(contexto(pcb))

(* The packet of a context, with what is added to it, and the exit. *)
enviar_y_salir(paquete) ==
  /\ alKernel' = Append(alKernel, paquete)
  /\ salir_ciclo_instruccion' = TRUE
  /\ UNCHANGED <<programa, espacio, delKernel, alCpu, diccionario_interrupciones, entrada>>

con_contexto(motivo, m) ==
  agregar_contexto_ejecucion_a_paquete(crear_paquete(motivo), pcb.pid, m)

(* The memory resizes the process or has no frames left. *)
ejecutarResize ==
  /\ hay_instruccion /\ instruccion.code = "RESIZE"
  /\ \/ sigue(contexto(pcb)) /\ UNCHANGED espacio
     \/ /\ enviar_y_salir(con_contexto("OUT_OF_MEMORY", pcb))
        /\ terminar_instruccion(contexto(pcb))

ejecutar_exit ==
  /\ hay_instruccion /\ instruccion.code = "EXIT"
  /\ enviar_y_salir(con_contexto("SUCCESS", pcb))
  /\ terminar_instruccion(contexto(pcb))

(* The context is sent without the instruction counted. *)
mut_ejecutar_recurso_sin_avanzar ==
  LET i == instruccion IN
  /\ hay_instruccion /\ i.code \in DeRecursos
  /\ enviar_y_salir(agregar_a_paquete(
                      con_contexto(motivo_de(i.code), contexto(pcb)), <<i.nombre>>))
  /\ terminar_instruccion(avanzar(contexto(pcb)))

(* ejecutarWait and ejecutarSignal: the program counter advances, in the   *)
(* global pcb, before it is packed, and again at the end of the cycle.     *)
ejecutar_recurso ==
  LET i == instruccion  m == avanzar(contexto(pcb)) IN
  /\ hay_instruccion /\ i.code \in DeRecursos
  /\ enviar_y_salir(agregar_a_paquete(con_contexto(motivo_de(i.code), m), <<i.nombre>>))
  /\ terminar_instruccion(m)

(* What follows the interface and the operation in the packet of an I/O:   *)
(* the file and the numbers.                                               *)
agregar_operacion(paquete, op, nombre, numeros) ==
  agregar_a_paquete(paquete, (IF op \in ConArchivo THEN <<nombre>> ELSE <<>>) \o numeros)

(* The number of pieces of an access, and the physical address and the     *)
(* bytes of each one.                                                      *)
direcciones(direccion, tamanio) ==
  LET dl == leer_reg(pcb, direccion)
      t == leer_reg(pcb, tamanio)
      ts == mmu_agregar_dirs(dl, t)
  IN  <<obtener_cantidad_dirs(dl, t)>> \o
      [k \in 1 .. 2 * Len(ts) |-> IF k % 2 = 1 THEN obtener_df(pcb.pid, ts[(k + 1) \div 2].dl)
                                              ELSE ts[k \div 2].bytes]

(* The packet of an I/O: the context with the program counter advanced,    *)
(* the interface, the operation and what it takes.                         *)
pedir_io(op, numeros) ==
  LET i == instruccion
      m == avanzar(contexto(pcb))
      paquete == agregar_a_paquete(con_contexto("IO", m), <<"interfaz", op>>) IN
  /\ hay_instruccion /\ i.code = op
  /\ op \in ConDirecciones => tiene(leer_reg(pcb, i.r), leer_reg(pcb, i.s))
  /\ enviar_y_salir(agregar_operacion(paquete, op, i.nombre, numeros))
  /\ terminar_instruccion(m)

ejecutarIoGenSleep == pedir_io("IO_GEN_SLEEP", <<instruccion.n>>)
ejecutarStdRead == pedir_io("IO_STDIN_READ", direcciones(instruccion.r, instruccion.s))
ejecutarStdWrite == pedir_io("IO_STDOUT_WRITE", direcciones(instruccion.r, instruccion.s))
ejecutarIOFsCreate == pedir_io("IO_FS_CREATE", <<>>)
ejecutarIOFsDelete == pedir_io("IO_FS_DELETE", <<>>)
ejecutarIOFsTruncate == pedir_io("IO_FS_TRUNCATE", <<leer_reg(pcb, instruccion.r)>>)

(* The pointer and the size go before the pieces. *)
puntero_y_tamanio == <<leer_reg(pcb, instruccion.t), leer_reg(pcb, instruccion.s)>>
ejecutarIOFsRead ==
  pedir_io("IO_FS_READ", puntero_y_tamanio \o direcciones(instruccion.r, instruccion.s))
ejecutarIOFsWrite ==
  pedir_io("IO_FS_WRITE", puntero_y_tamanio \o direcciones(instruccion.r, instruccion.s))

execute ==
  \/ ejecutar_registros \/ ejecutarMovIn \/ ejecutarMovOut \/ ejecutarCopyString
  \/ ejecutarResize \/ ejecutar_exit \/ ejecutar_recurso
  \/ ejecutarIoGenSleep \/ ejecutarStdRead \/ ejecutarStdWrite \/ ejecutarIOFsCreate
  \/ ejecutarIOFsDelete \/ ejecutarIOFsTruncate \/ ejecutarIOFsRead \/ ejecutarIOFsWrite

(* After an instruction that left, the interrupt of the process is         *)
(* forgotten; otherwise it makes the process leave.                        *)
check_interrupt ==
  LET t == diccionario_interrupciones[pcb.pid]
      sale == salir_ciclo_instruccion \/ t # "nada" IN
  /\ linea = "chequea"
  /\ diccionario_interrupciones' = [diccionario_interrupciones EXCEPT ![pcb.pid] = "nada"]
  /\ alKernel' = IF ~salir_ciclo_instruccion /\ t # "nada"
                   THEN Append(alKernel, con_contexto(t, pcb)) ELSE alKernel
  /\ salir_ciclo_instruccion' = sale
  /\ linea' = IF sale THEN "recibe" ELSE "ejecuta"
  /\ UNCHANGED <<programa, espacio, delKernel, alCpu, pcb, entrada>>

(* The thread of the interrupts: a quantum ends or the process is killed;  *)
(* INTERRUPT_USER replaces what there is, INTERRUPT_QUANTUM does not.      *)
atender_cpu_kernel_interrupt(tipo) ==
  /\ espera
  /\ tipo = "INTERRUPT_USER" \/ diccionario_interrupciones[ejecutando] = "nada"
  /\ diccionario_interrupciones' = [diccionario_interrupciones EXCEPT ![ejecutando] = tipo]
  /\ UNCHANGED <<programa, espacio, delKernel, alCpu, alKernel, cpu, entrada>>

-----------------------------------------------------------------------------
(* The kernel.                                                             *)

paquete_contexto(p, m) ==
  agregar_contexto_ejecucion_a_paquete(crear_paquete("CONTEXTO_DE_EJECUCION"), p, m)

Despachar(p) ==
  /\ ~espera /\ estado[p] = "READY"
  /\ estado' = [estado EXCEPT ![p] = "EXEC"]
  /\ ejecutando' = p /\ espera' = TRUE
  /\ alCpu' = Append(alCpu, paquete_contexto(p, contextos[p]))
  /\ UNCHANGED <<programa, espacio, contextos, solicitudes, buffer, alKernel, cpu,
                 diccionario_interrupciones, entrada>>

recibe(motivos) == espera /\ alKernel # <<>> /\ Head(alKernel).codigo_operacion \in motivos
recibido == buffer_desempaquetar_contexto_ejecucion(Head(alKernel).buffer)

resto == buffer_actualizar(Head(alKernel).buffer, CAMPOS)

(* The context goes to the PCB of the process of the turn, whatever its    *)
(* pid says, and b is what is left to unpack.                              *)
guardar(b) ==
  /\ contextos' = [contextos EXCEPT ![ejecutando] = contexto(recibido)]
  /\ buffer' = b
  /\ alKernel' = Tail(alKernel)
  /\ UNCHANGED <<programa, espacio, ejecutando, cpu, diccionario_interrupciones, entrada>>

pasar_a(e) == espera' = FALSE /\ estado' = [estado EXCEPT ![ejecutando] = e]

(* The process ends, or it does not get what it asked for, or it was       *)
(* killed since it was dispatched.                                         *)
ManejarFin ==
  /\ recibe({"SUCCESS", "OUT_OF_MEMORY", "INTERRUPT_USER", "COP_WAIT", "COP_SIGNAL", "IO"})
  /\ guardar(resto)
  /\ pasar_a("EXIT")
  /\ UNCHANGED <<solicitudes, alCpu>>

ManejarQuantum ==
  /\ recibe({"INTERRUPT_QUANTUM"})
  /\ guardar(resto)
  /\ pasar_a("READY")
  /\ UNCHANGED <<solicitudes, alCpu>>

(* WAIT and SIGNAL: the process blocks, or the turn ends, or it goes on.   *)
ManejarRecurso ==
  /\ recibe({"COP_WAIT", "COP_SIGNAL"})
  /\ guardar(buffer_actualizar(resto, 1))
  /\ \/ /\ pasar_a("BLOCKED") /\ Head(alKernel).codigo_operacion = "COP_WAIT"
        /\ UNCHANGED alCpu
     \/ /\ pasar_a("READY") /\ UNCHANGED alCpu
     \/ /\ alCpu' = Append(alCpu, paquete_contexto(ejecutando, contexto(recibido)))
        /\ UNCHANGED <<estado, espera>>
  /\ UNCHANGED solicitudes

(* What the kernel, and then the interface, take from the packet of an     *)
(* operation: the file, the numbers, how many pieces and the pieces.       *)
cuantos(op) == CASE op \in {"IO_GEN_SLEEP", "IO_FS_TRUNCATE"} -> 1
                 [] op \in {"IO_FS_WRITE", "IO_FS_READ"} -> 2
                 [] OTHER -> 0
desempaquetar_operacion(op, b) ==
  LET n == IF op \in ConArchivo THEN 1 ELSE 0   \* of the name
      fijos == n + cuantos(op) + IF op \in ConDirecciones THEN 1 ELSE 0
      primeros == buffer_desempaquetar(b, fijos)
      cantidad == IF op \in ConDirecciones THEN primeros[fijos] ELSE 0
      todos == buffer_desempaquetar(b, fijos + 2 * cantidad)
  IN  [nombre |-> IF n = 1 THEN primeros[1] ELSE SinNombre,
       numeros |-> SubSeq(primeros, n + 1, n + cuantos(op)), cantidad |-> cantidad,
       dirs |-> SubSeq(todos, fijos + 1, fijos + 2 * cantidad),
       buffer |-> buffer_actualizar(b, fijos + 2 * cantidad)]

(* The request is packed again for the interface, after the pid. *)
paquete_solicitud_io(p, op, o) ==
  agregar_operacion(agregar_a_paquete(crear_paquete(op), <<p>>), op, o.nombre,
                    o.numeros \o IF op \in ConDirecciones THEN <<o.cantidad>> \o o.dirs
                                                          ELSE <<>>)

ManejarIO ==
  LET op == buffer_desempaquetar(resto, 2)[2]   \* after the interface
      o == desempaquetar_operacion(op, buffer_actualizar(resto, 2)) IN
  /\ recibe({"IO"})
  /\ guardar(o.buffer)
  /\ pasar_a("BLOCKED")
  /\ solicitudes' = [solicitudes EXCEPT ![ejecutando] = paquete_solicitud_io(ejecutando, op, o)]
  /\ UNCHANGED alCpu

(* Somebody gives back what p waits for. *)
Desbloquear(p) ==
  /\ estado[p] = "BLOCKED" /\ solicitudes[p] = Nadie
  /\ estado' = [estado EXCEPT ![p] = "READY"]
  /\ UNCHANGED <<programa, espacio, contextos, solicitudes, ejecutando, espera, buffer,
                 alCpu, alKernel, cpu, diccionario_interrupciones, entrada>>

-----------------------------------------------------------------------------
(* The interfaces that write in the memory.                                *)

(* What an interface unpacks, after the pid. *)
solicitud(p) == desempaquetar_operacion(solicitudes[p].codigo_operacion,
                                        buffer_actualizar(solicitudes[p].buffer, 1))

bytes_de(o) ==
  LET suma[k \in 0 .. o.cantidad] == IF k = 0 THEN 0 ELSE suma[k - 1] + o.dirs[2 * k]
  IN  suma[o.cantidad]

(* The thread of the interface unpacks the request that the kernel sent;   *)
(* somebody types a text (STDIN), or the file is read (FS): texto is how   *)
(* many bytes there are.  Nothing limits what is typed: one byte more than *)
(* what was asked for stands for any longer text, as the loop that writes  *)
(* it stops at the end of the list whatever is left.                       *)
AtenderEntrada(p) ==
  LET o == solicitud(p) IN
  /\ entrada = Nadie /\ solicitudes[p] # Nadie
  /\ \E n \in 0 .. bytes_de(o) + 1 :
       /\ solicitudes[p].codigo_operacion = "IO_STDIN_READ" \/ n = bytes_de(o)
       /\ entrada' = [pid |-> buffer_desempaquetar(solicitudes[p].buffer, 1)[1],
                      op |-> solicitudes[p].codigo_operacion,
                      direcciones |-> o.dirs, texto |-> n, leidos |-> 0, indice |-> 0]
  /\ entrada'.op \in {"IO_STDIN_READ", "IO_FS_READ"}
  /\ UNCHANGED <<programa, espacio, delKernel, alCpu, alKernel, cpu,
                 diccionario_interrupciones>>

(* What is typed, or read from a file, and what is not in the text.        *)
LETRA == CHICO - 1
RESTO == CHICO - 2

(* The piece of the list that comes next. *)
direccion_fisica == entrada.direcciones[2 * entrada.indice + 1]
bytes_pedidos == entrada.direcciones[2 * entrada.indice + 2]

(* One piece is written: n bytes of the text.  The packet announces the    *)
(* whole piece, and the memory writes as many bytes as were announced:     *)
(* those that did not come are whatever its buffer had.                    *)
enviar_escritura(n) ==
  /\ espacio' = escribir(espacio, direccion_fisica,
                   [k \in 1 .. bytes_pedidos |-> IF k <= n THEN LETRA ELSE RESTO])
  /\ entrada' = [entrada EXCEPT !.leidos = @ + n, !.indice = @ + 1]
  /\ UNCHANGED <<programa, delKernel, alCpu, alKernel, cpu, diccionario_interrupciones>>

(* The bytes that are left are not compared with those of the piece. *)
mut_interfaz_stdin_sin_ajuste ==
  /\ entrada # Nadie /\ entrada.op = "IO_STDIN_READ" /\ entrada.leidos < entrada.texto
  /\ 2 * entrada.indice < Len(entrada.direcciones)
  /\ enviar_escritura(bytes_pedidos)

(* The loop of interfaz_stdin: no piece takes more than what is left.      *)
(* Past the end of the list list_get gives NULL, which is dereferenced:    *)
(* the interface dies (InterfazCaida).                                     *)
interfaz_stdin ==
  /\ entrada # Nadie /\ entrada.op = "IO_STDIN_READ" /\ entrada.leidos < entrada.texto
  /\ 2 * entrada.indice < Len(entrada.direcciones)
  /\ enviar_escritura(menor(entrada.texto - entrada.leidos, bytes_pedidos))

(* The last loop of interfaz_fs_read: every piece, whole.                  *)
interfaz_fs_read ==
  /\ entrada # Nadie /\ entrada.op = "IO_FS_READ"
  /\ 2 * entrada.indice < Len(entrada.direcciones)
  /\ enviar_escritura(bytes_pedidos)

(* The interface answers and the process goes back to READY. *)
terminar_io(p) ==
  /\ estado' = [estado EXCEPT ![p] = "READY"]
  /\ solicitudes' = [solicitudes EXCEPT ![p] = Nadie]
  /\ UNCHANGED <<programa, espacio, contextos, ejecutando, espera, buffer, alCpu, alKernel,
                 cpu, diccionario_interrupciones>>

FinEntrada ==
  /\ entrada # Nadie
  /\ entrada.op = "IO_STDIN_READ" => entrada.leidos >= entrada.texto
  /\ entrada.op = "IO_FS_READ" => 2 * entrada.indice >= Len(entrada.direcciones)
  /\ terminar_io(entrada.pid)
  /\ entrada' = Nadie

(* The interfaces that do not write in the memory. *)
FinIO(p) ==
  /\ solicitudes[p] # Nadie
  /\ solicitudes[p].codigo_operacion \notin {"IO_STDIN_READ", "IO_FS_READ"}
  /\ terminar_io(p)
  /\ UNCHANGED entrada

(* An interface dies, or leaves, with a request of p: the kernel takes the *)
(* process to EXIT (atender_kernel_interfaz for the request under way,     *)
(* eliminar_interfaz for those that are queued).                           *)
InterfazCaida(p) ==
  /\ solicitudes[p] # Nadie
  /\ estado' = [estado EXCEPT ![p] = "EXIT"]
  /\ solicitudes' = [solicitudes EXCEPT ![p] = Nadie]
  /\ entrada' = IF entrada # Nadie /\ entrada.pid = p THEN Nadie ELSE entrada
  /\ UNCHANGED <<programa, espacio, contextos, ejecutando, espera, buffer, alCpu, alKernel,
                 cpu, diccionario_interrupciones>>

-----------------------------------------------------------------------------
Next ==
  \/ RecibirContexto \/ execute \/ check_interrupt
  \/ \E tipo \in Interrupciones : atender_cpu_kernel_interrupt(tipo)
  \/ ManejarFin \/ ManejarQuantum \/ ManejarRecurso \/ ManejarIO
  \/ interfaz_stdin \/ interfaz_fs_read \/ FinEntrada
  \/ \E p \in Procesos :
       Despachar(p) \/ Desbloquear(p) \/ AtenderEntrada(p) \/ FinIO(p) \/ InterfazCaida(p)

Spec == Init /\ [][Next]_vars

-----------------------------------------------------------------------------
(* What the CPU promises, and where each part of it is.                    *)

(* The context of p is in the CPU from the moment it is received to the    *)
(* moment it is sent, then in the packet, then in the PCB.                 *)
contexto_de(p) ==
  IF p = ejecutando /\ espera /\ alKernel # <<>> THEN contexto(recibido)
  ELSE IF pcb.pid = p /\ linea # "recibe" /\ ~salir_ciclo_instruccion THEN contexto(pcb)
  ELSE contextos[p]

estado_de(p) ==
  IF p = ejecutando /\ espera /\ alKernel # <<>>
       /\ Head(alKernel).codigo_operacion \notin {"INTERRUPT_QUANTUM", "INTERRUPT_USER"}
    THEN Head(alKernel).codigo_operacion
  ELSE CASE estado[p] = "BLOCKED" -> "bloqueado" [] estado[p] = "EXIT" -> "fin"
         [] OTHER -> "activo"

Fisica == [p \in Procesos |-> [dl \in 0 .. TamProceso - 1 |-> obtener_df(p, dl)]]

(* A request, as the interface will unpack it. *)
pedido_de(p) ==
  IF solicitudes[p] = Nadie THEN <<>>
  ELSE LET o == solicitud(p) IN
       [code |-> solicitudes[p].codigo_operacion, nombre |-> o.nombre, numeros |-> o.numeros,
        base |-> IF o.cantidad = 0 THEN 0
                 ELSE CHOOSE dl \in 0 .. TamProceso - 1 : Fisica[p][dl] = o.dirs[1],
        tamanio |-> bytes_de(o)]

Maq == INSTANCE Maquina WITH
  maquina <- [p \in Procesos |-> contexto_de(p)],
  memoria <- [p \in Procesos |-> [dl \in 0 .. TamProceso - 1 |-> espacio[Fisica[p][dl]]]],
  estado <- [p \in Procesos |-> estado_de(p)],
  pedido <- [p \in Procesos |-> pedido_de(p)]

(* The CPU gives each process a machine of its own: whatever the turns,    *)
(* the interrupts, the packets and the pieces, each process computes with  *)
(* its registers and its memory what its program says, its calls reach the *)
(* kernel once and in order, and nothing that belongs to another process   *)
(* changes (execute, agregar_contexto_ejecucion_a_paquete, mmu_escribir).  *)
ImplementaMaquina == Maq!Spec

(* A request that waits has all its parts: nothing was taken from an empty *)
(* buffer, there are as many pieces as were announced, and nothing of the  *)
(* packet was left in the buffer of the planner (obtener_cantidad_dirs,    *)
(* mmu_agregar_dirs_tamanio_paquete and who unpacks what they say).        *)
PedidoCompleto ==
  \A p \in Procesos : solicitudes[p] # Nadie =>
    LET o == solicitud(p)
    IN  /\ Basura \notin Range(o.dirs) /\ Basura \notin Range(o.numeros)
        /\ o.cantidad # Basura /\ o.nombre # Basura
        /\ o.buffer = crear_buffer
        /\ p = ejecutando /\ ~espera => buffer = crear_buffer

(* The bytes of the pieces that an interface has written so far. *)
bytes_enviados == bytes_de([cantidad |-> entrada.indice, dirs |-> entrada.direcciones])

(* A text arrives in order and without holes, however its pieces fall on   *)
(* the pages and in the frames: of the bytes of the pieces written so far, *)
(* as many as the text has are its beginning, byte after byte from the     *)
(* address the process gave, and none was skipped or taken twice, so that  *)
(* it stops short only when the text does.  What comes after the text in   *)
(* the last piece is not said here: see SinResto (interfaz_stdin,          *)
(* interfaz_fs_read).                                                      *)
TextoEntero ==
  entrada # Nadie =>
    /\ entrada.leidos = menor(entrada.texto, bytes_enviados)
    /\ \A k \in 0 .. entrada.leidos - 1 :
         espacio[obtener_df(entrada.pid, pedido_de(entrada.pid).base + k)] = LETRA

-----------------------------------------------------------------------------
(* What the comments of the code say and the code does not do.             *)

(* No more is written than the text has.  Refuted: the comment on          *)
(* interfaz_stdin adjusts the bytes to send "para no exceder los bytes     *)
(* restantes", but the packet already announces the whole piece and the    *)
(* memory writes all of it: a text that ends inside a piece leaves in the  *)
(* rest of it what the memory's buffer had.                                *)
SinResto == entrada # Nadie => bytes_enviados <= entrada.texto
=============================================================================
