------------------------------- MODULE Maquina -------------------------------
(***************************************************************************)
(* What the CPU promises to a process: a machine of its own, with its      *)
(* registers and a memory of consecutive addresses that nobody else        *)
(* touches, on which the program runs one instruction after another.  The  *)
(* process can be stopped between two instructions and never notices.      *)
(*                                                                         *)
(* The instructions do here what they do in the code (see Registros); what *)
(* is abstract is that nothing is shared, cut, packed or sent.             *)
(***************************************************************************)
EXTENDS Registros

CONSTANTS
  Procesos,
  Cargas,      \* the programs each process may be given
  TamProceso   \* the bytes of the memory of each process

VARIABLES
  programa,  \* the instructions of each process
  maquina,   \* its context
  memoria,   \* its memory
  estado,    \* "activo", "bloqueado", "fin", or the reason of its last call
  pedido     \* the I/O it waits for, <<>> if none

vars == <<programa, maquina, memoria, estado, pedido>>

instruccion(p) == programa[p][maquina[p].pc + 1]
puede(p, codes) ==
  estado[p] = "activo" /\ maquina[p].pc < Len(programa[p]) /\ instruccion(p).code \in codes

Init ==
  /\ programa \in Cargas
  /\ maquina = [p \in Procesos |-> inicializarPCB]
  /\ memoria \in [Procesos -> [0 .. TamProceso - 1 -> 0 .. CHICO - 1]]
  /\ estado = [p \in Procesos |-> "activo"]
  /\ pedido = [p \in Procesos |-> <<>>]

leer(p, dl, n) == [k \in 1 .. n |-> memoria[p][dl + k - 1]]
escrita(p, dl, bytes) ==
  [memoria EXCEPT ![p] =
     [a \in DOMAIN @ |-> IF a \in dl .. dl + Len(bytes) - 1 THEN bytes[a - dl + 1] ELSE @[a]]]

(* p is left with the context that follows m. *)
seguir(p, m) == maquina' = [maquina EXCEPT ![p] = siguiente(m, instruccion(p))]

Calcular(p) ==
  /\ puede(p, DeRegistros)
  /\ seguir(p, operar(maquina[p], instruccion(p)))
  /\ UNCHANGED <<programa, memoria, estado, pedido>>

MovIn(p) ==
  LET i == instruccion(p) IN
  /\ puede(p, {"MOV_IN"})
  /\ seguir(p, escribir_reg(maquina[p], i.r,
                 de_bytes(leer(p, leer_reg(maquina[p], i.s), tamanio_reg(i.r)))))
  /\ UNCHANGED <<programa, memoria, estado, pedido>>

MovOut(p) ==
  LET i == instruccion(p) IN
  /\ puede(p, {"MOV_OUT"})
  /\ memoria' = escrita(p, leer_reg(maquina[p], i.r),
                        a_bytes(leer_reg(maquina[p], i.s), tamanio_reg(i.s)))
  /\ seguir(p, maquina[p])
  /\ UNCHANGED <<programa, estado, pedido>>

CopyString(p) ==
  /\ puede(p, {"COPY_STRING"})
  /\ memoria' = escrita(p, get_reg(maquina[p], "DI"),
                        leer(p, get_reg(maquina[p], "SI"), instruccion(p).n))
  /\ seguir(p, maquina[p])
  /\ UNCHANGED <<programa, estado, pedido>>

(* The process gets its memory, or stops where it is. *)
Resize(p) ==
  /\ puede(p, {"RESIZE"})
  /\ \/ seguir(p, maquina[p]) /\ UNCHANGED estado
     \/ estado' = [estado EXCEPT ![p] = "OUT_OF_MEMORY"] /\ UNCHANGED maquina
  /\ UNCHANGED <<programa, memoria, pedido>>

Salir(p) ==
  /\ puede(p, {"EXIT"})
  /\ estado' = [estado EXCEPT ![p] = "SUCCESS"]
  /\ UNCHANGED <<programa, maquina, memoria, pedido>>

Llamar(p) ==
  /\ puede(p, DeRecursos \cup DeEntradaSalida)
  /\ seguir(p, maquina[p])
  /\ estado' = [estado EXCEPT ![p] = motivo_de(instruccion(p).code)]
  /\ UNCHANGED <<programa, memoria, pedido>>

(* The kernel decides about a call; the request is that of the instruction *)
(* before the program counter, with the registers as they are.             *)
Atender(p) ==
  /\ \/ estado[p] \in {"COP_WAIT", "COP_SIGNAL"}
        /\ estado' = [estado EXCEPT ![p] = "activo"] /\ UNCHANGED pedido
     \/ estado[p] = "COP_WAIT"
        /\ estado' = [estado EXCEPT ![p] = "bloqueado"] /\ UNCHANGED pedido
     \/ estado[p] = "IO"
        /\ estado' = [estado EXCEPT ![p] = "bloqueado"]
        /\ pedido' = [pedido EXCEPT ![p] =
                        t_pedido(maquina[p], programa[p][maquina[p].pc])]
  /\ UNCHANGED <<programa, maquina, memoria>>

(* An interface writes in the memory that was asked for, and only there. *)
Entrada(p) ==
  /\ pedido[p] # <<>>
  /\ pedido[p].code \in {"IO_STDIN_READ", "IO_FS_READ"}
  /\ memoria' = [memoria EXCEPT ![p] = memoria'[p]]
  /\ \A a \in DOMAIN memoria[p] :
       a \notin pedido[p].base .. pedido[p].base + pedido[p].tamanio - 1 =>
         memoria'[p][a] = memoria[p][a]
  /\ UNCHANGED <<programa, maquina, estado, pedido>>

Volver(p) ==
  /\ estado[p] = "bloqueado"
  /\ estado' = [estado EXCEPT ![p] = "activo"]
  /\ pedido' = [pedido EXCEPT ![p] = <<>>]
  /\ UNCHANGED <<programa, maquina, memoria>>

(* Killed, or its call failed, or nobody is left to answer its request. *)
Terminar(p) ==
  /\ estado[p] # "fin"
  /\ estado' = [estado EXCEPT ![p] = "fin"]
  /\ pedido' = [pedido EXCEPT ![p] = <<>>]
  /\ UNCHANGED <<programa, maquina, memoria>>

Next ==
  \E p \in Procesos :
    \/ Calcular(p) \/ MovIn(p) \/ MovOut(p) \/ CopyString(p) \/ Resize(p)
    \/ Salir(p) \/ Llamar(p) \/ Atender(p) \/ Entrada(p) \/ Volver(p) \/ Terminar(p)

Spec == Init /\ [][Next]_vars
=============================================================================
