------------------------------ MODULE Registros ------------------------------
(***************************************************************************)
(* The registers of the CPU (procesos.c) and the instructions that only    *)
(* work with them (instrucciones.c).                                       *)
(*                                                                         *)
(* A context is what t_pcb holds for the CPU, without the pid: the program *)
(* counter and the registers.  An instruction is a record: its code, its   *)
(* registers r, s and t, its number n and the name it carries, each one    *)
(* empty when the instruction has none.                                    *)
(***************************************************************************)
EXTENDS Integers, Sequences, SequencesExt

CONSTANTS
  CHICO,  \* the values of a byte and of AX .. DX: 256 in the code
  BYTES   \* the bytes of the other registers: 4 in the code

GRANDE == CHICO ^ BYTES

(* The last conjunct follows from the others: it is for the provers, which *)
(* have no rule for a power.                                               *)
ASSUME RegistrosAssumption ==
  CHICO \in Nat \ {0, 1} /\ BYTES \in Nat \ {0} /\ GRANDE \in Nat \ {0}

Chicos == {"AX", "BX", "CX", "DX"}
Grandes == {"EAX", "EBX", "ECX", "EDX"}
Indices == {"SI", "DI"}

es_reg_chico(r) == r \in Chicos

(* get_reg_ax and the others, that of every register. *)
get_reg(m, r) == m.registros[r]
set_reg(m, r, v) == [m EXCEPT !.registros[r] = v]
set_pc(m, v) == [m EXCEPT !.pc = v]

(* The value of a register by its name.  PC, SI and DI are not among those *)
(* the code compares with, and their value is 0.                           *)
get_reg_chico(m, r) == IF r \in Chicos THEN get_reg(m, r) ELSE 0
get_reg_grande(m, r) == IF r \in Grandes THEN get_reg(m, r) ELSE 0

(* They can all be written. *)
set_reg_chico(m, r, v) == IF r \in Chicos THEN set_reg(m, r, v % CHICO) ELSE m
set_reg_grande(m, r, v) ==
  CASE r = "PC" -> set_pc(m, v % GRANDE)
    [] r \in Grandes \cup Indices -> set_reg(m, r, v % GRANDE)
    [] OTHER -> m

(* What the instructions do with each register they name. *)
leer_reg(m, r) == IF es_reg_chico(r) THEN get_reg_chico(m, r) ELSE get_reg_grande(m, r)
escribir_reg(m, r, v) ==
  IF es_reg_chico(r) THEN set_reg_chico(m, r, v) ELSE set_reg_grande(m, r, v)
tamanio_reg(r) == IF es_reg_chico(r) THEN 1 ELSE BYTES

inicializarPCB == [pc |-> 0, registros |-> [r \in Chicos \cup Grandes \cup Indices |-> 0]]

(* The bytes of a value, the least significant first, and back. *)
a_bytes(v, n) ==
  LET queda[k \in 1 .. n] == IF k = 1 THEN v ELSE queda[k - 1] \div CHICO
  IN  [k \in 1 .. n |-> queda[k] % CHICO]
de_bytes(b) ==
  LET altos[k \in 0 .. Len(b)] ==   \* the value of the last k
        IF k = 0 THEN 0 ELSE b[Len(b) + 1 - k] + CHICO * altos[k - 1]
  IN  altos[Len(b)]

-----------------------------------------------------------------------------
ejecutarSet(m, i) == escribir_reg(m, i.r, i.n)
ejecutarSum(m, i) == escribir_reg(m, i.r, leer_reg(m, i.r) + leer_reg(m, i.s))
ejecutarSub(m, i) == escribir_reg(m, i.r, leer_reg(m, i.r) - leer_reg(m, i.s))
ejecutarJnz(m, i) == IF leer_reg(m, i.r) # 0 THEN set_pc(m, i.n % GRANDE) ELSE m

DeRegistros == {"SET", "SUM", "SUB", "JNZ"}

operar(m, i) ==
  CASE i.code = "SET" -> ejecutarSet(m, i)
    [] i.code = "SUM" -> ejecutarSum(m, i)
    [] i.code = "SUB" -> ejecutarSub(m, i)
    [] i.code = "JNZ" -> ejecutarJnz(m, i)

avanzar(m) == set_pc(m, (m.pc + 1) % GRANDE)

(* The end of the cycle: the program counter goes on, unless the           *)
(* instruction was of those that set it, whether it did or not.            *)
siguiente(m, i) ==
  IF i.code = "JNZ" \/ (i.code = "SET" /\ i.r = "PC") THEN m ELSE avanzar(m)

-----------------------------------------------------------------------------
(* The instructions that leave the CPU with the program counter advanced.  *)
DeRecursos == {"WAIT", "SIGNAL"}
ConDirecciones == {"IO_STDIN_READ", "IO_STDOUT_WRITE", "IO_FS_WRITE", "IO_FS_READ"}
ConArchivo == {"IO_FS_CREATE", "IO_FS_DELETE", "IO_FS_TRUNCATE", "IO_FS_WRITE", "IO_FS_READ"}
DeEntradaSalida == {"IO_GEN_SLEEP"} \cup ConDirecciones \cup ConArchivo

SinNombre == ""   \* of an operation without a file

motivo_de(code) ==
  CASE code = "WAIT" -> "COP_WAIT" [] code = "SIGNAL" -> "COP_SIGNAL" [] OTHER -> "IO"

(* What an I/O instruction asks for, in the order the interfaces take it:  *)
(* the unit, the file, its pointer and size, and the access to memory.     *)
t_pedido(m, i) ==
  [code |-> i.code, nombre |-> IF i.code \in ConArchivo THEN i.nombre ELSE SinNombre,
   numeros |-> CASE i.code = "IO_GEN_SLEEP" -> <<i.n>>
                 [] i.code = "IO_FS_TRUNCATE" -> <<leer_reg(m, i.r)>>
                 [] i.code \in {"IO_FS_WRITE", "IO_FS_READ"} ->
                      <<leer_reg(m, i.t), leer_reg(m, i.s)>>
                 [] OTHER -> <<>>,
   base |-> IF i.code \in ConDirecciones /\ leer_reg(m, i.s) > 0 THEN leer_reg(m, i.r) ELSE 0,
   tamanio |-> IF i.code \in ConDirecciones THEN leer_reg(m, i.s) ELSE 0]
=============================================================================
