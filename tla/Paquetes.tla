------------------------------- MODULE Paquetes -------------------------------
(***************************************************************************)
(* Packets and buffers (utils/conexion.c).  A packet is an operation code  *)
(* and a buffer, and the buffer a stream of fields, which go with their    *)
(* lengths: who unpacks a field takes all of it, so a buffer is the        *)
(* sequence of the values that were added to it.  A packet is sent whole   *)
(* and recv waits for all of it (MSG_WAITALL): it travels as one message.  *)
(***************************************************************************)
EXTENDS Integers, Sequences, SequencesExt

CONSTANTS
  Basura   \* what a variable holds when nothing was unpacked in it

crear_buffer == <<>>

crear_paquete(codigo) == [codigo_operacion |-> codigo, buffer |-> crear_buffer]

(* Calls of agregar_int_a_paquete and the others, one for each value.      *)
agregar_a_paquete(paquete, valores) == [paquete EXCEPT !.buffer = @ \o valores]

(* k calls of buffer_desempaquetar: an empty buffer leaves the destination *)
(* as it was.                                                              *)
buffer_desempaquetar(buffer, k) ==
  [i \in 1 .. k |-> IF i <= Len(buffer) THEN buffer[i] ELSE Basura]

(* What is left of the buffer after them. *)
buffer_actualizar(buffer, k) == SubSeq(buffer, k + 1, Len(buffer))
=============================================================================
