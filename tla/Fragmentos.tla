----------------------------- MODULE Fragmentos -----------------------------
(***************************************************************************)
(* How the CPU cuts an access to memory into pieces that one frame can     *)
(* hold (mmu.c).  A piece is its logical address and its bytes: the code   *)
(* translates the first byte (obtener_df) and the memory moves that many   *)
(* bytes from there.                                                       *)
(***************************************************************************)
EXTENDS Integers, Sequences

CONSTANTS tamanio_pagina

(* A register of four bytes fits in a page: mmu_escribir says that pages   *)
(* of two bytes were not considered.                                       *)
ASSUME FragmentosAssumption == tamanio_pagina \in Nat /\ tamanio_pagina >= 4

obtener_pagina(dl) == dl \div tamanio_pagina
obtener_offset(dl, pagina) == dl - pagina * tamanio_pagina
offset(dl) == obtener_offset(dl, obtener_pagina(dl))
menor(a, b) == IF a < b THEN a ELSE b

(* The pieces of t bytes from dl: the first one takes what is left of a    *)
(* page after o, those that follow what is left after l.  desde[resta] are *)
(* the pieces of the last bytes, when so many are left.                    *)
trozos(dl, o, l, t) ==
  LET desde[resta \in 0 .. t] ==
        IF resta = 0 THEN <<>>
        ELSE LET b == menor(tamanio_pagina - (IF resta = t THEN o ELSE l), resta)
             IN  <<[dl |-> dl + t - resta, bytes |-> b]>> \o desde[resta - b]
  IN  desde[t]

(* Wrong variants (mut_...) of the definitions they precede: none of them  *)
(* is used by the specification; the runs are expected to refute each one. *)

(* The offset of the first page is used for the ones that follow. *)
mut_copy_string_con_offset(dl, t) == trozos(dl, offset(dl), offset(dl), t)

(* The loops of mmu_leer_copy_string and mmu_escribir_copy_string. *)
copy_string(dl, t) == trozos(dl, offset(dl), 0, t)

(* The offset is taken back to 0, as in the loops of COPY_STRING: without  *)
(* the change to obtener_cantidad_dirs that it needs.                      *)
mut_agregar_dirs_sin_offset(dl, t) == trozos(dl, offset(dl), 0, t)

(* The loop of mmu_agregar_dirs_tamanio_paquete, which keeps the offset. *)
mmu_agregar_dirs(dl, t) == trozos(dl, offset(dl), offset(dl), t)

(* obtener_cantidad_dirs: the number that is sent before the pieces. *)
obtener_cantidad_dirs(dl, t) ==
  LET bytes_usar == menor(tamanio_pagina - offset(dl), t)
  IN  IF t = 0 THEN 0 ELSE (t + bytes_usar - 1) \div bytes_usar

(* mmu_leer and mmu_escribir: one byte, or a register that starts a page   *)
(* or fits in what is left of it, or that part and the rest.               *)
mover_registro(dl, t) ==
  LET b == tamanio_pagina - offset(dl) IN
  IF t = 1 \/ offset(dl) = 0 \/ t <= b THEN <<[dl |-> dl, bytes |-> t]>>
  ELSE <<[dl |-> dl, bytes |-> b], [dl |-> dl + b, bytes |-> t - b]>>
=============================================================================
