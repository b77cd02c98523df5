------------------------------ MODULE MCCicloCPU ------------------------------
(* CicloCPU with two processes: the first one runs each of the programs    *)
(* below and the second one always the same.                               *)
EXTENDS CicloCPU, TLC

CONSTANTS p1, p2

(* Three pages each, in frames that alternate. *)
MCTablaPaginas == (p1 :> <<4, 1, 3>>) @@ (p2 :> <<2, 0, 5>>)

(* No two bytes are equal, so that it shows which ones were moved.         *)
MCContenidos == {[df \in 0 .. TAM_MEMORIA - 1 |-> df % CHICO]}

I(code, r, s, t, n, nombre) ==
  [code |-> code, r |-> r, s |-> s, t |-> t, n |-> n, nombre |-> nombre]
PonerEn(r, n) == I("SET", r, "", "", n, "")
Con(code, r, s) == I(code, r, s, "", 0, "")
Fin == I("EXIT", "", "", "", 0, "")

(* Copies that start anywhere in a page and take one, two or three.        *)
Copias ==
  {<<PonerEn("SI", d), PonerEn("DI", e), I("COPY_STRING", "", "", "", t, ""), Fin>> :
     d \in {0, 3}, e \in {2, 7}, t \in {1, 5}}
  \cup {<<PonerEn("SI", 1), PonerEn("DI", 2), I("COPY_STRING", "", "", "", 10, ""), Fin>>}

(* A number of four bytes, written and read at each offset of a page.      *)
NUMERO == 3 * CHICO * CHICO + 7 * CHICO + 9
Movimientos ==
  {<<PonerEn("EAX", NUMERO), PonerEn("EBX", a), Con("MOV_OUT", "EBX", "EAX"),
     Con("MOV_IN", r, "EBX"), Fin>> : a \in {0, 2, 7}, r \in {"ECX", "DX"}}
  \cup {<<PonerEn("AX", 7), PonerEn("BX", 3), Con("MOV_OUT", "BX", "AX"),
          Con("MOV_IN", "ECX", "BX"), Fin>>}

(* Sums and subtractions that overflow, with registers of both sizes, a    *)
(* loop and a jump.                                                        *)
Cuentas ==
  {<<PonerEn(r, CHICO - 2), PonerEn(s, 5), Con("SUM", r, s), Con("SUB", s, r), Fin>> :
     r \in {"AX", "EAX"}, s \in {"BX", "EBX"}}
  \cup {<<PonerEn("CX", 1), PonerEn("SI", 3), PonerEn("EDX", 1), PonerEn("DI", 1),
          Con("SUB", "CX", "EDX"), I("JNZ", "CX", "", "", 3, ""), Fin>>,
        <<PonerEn("CX", 2), PonerEn("PC", 3), Fin, I("JNZ", "CX", "", "", 2, "")>>,
        <<I("RESIZE", "", "", "", 12, ""), I("SIGNAL", "", "", "", 0, "RA"),
          PonerEn("AX", 1), Fin>>}

(* Accesses of the interfaces: no piece of theirs crosses a page (those of *)
(* an access that does not start a page and goes past the second do).      *)
Entran(d, t) == d + t <= TamProceso /\ (offset(d) = 0 \/ t <= 2 * tamanio_pagina - offset(d))
Accesos == {x \in {0, 1, 6} \X {0, 5, 9} : Entran(x[1], x[2])}
DeInterfaces ==
  {<<PonerEn("EAX", x[1]), PonerEn("BX", x[2]), PonerEn("ECX", 6),
     I(code, "EAX", "BX", "ECX", 2, "archivo"), Fin>> :
     x \in Accesos, code \in {"IO_STDIN_READ", "IO_FS_READ"}}
  \cup {<<PonerEn("EAX", x[1]), PonerEn("BX", x[2]), PonerEn("ECX", 6),
          I(code, "EAX", "BX", "ECX", 2, "archivo"), Fin>> :
     x \in {<<1, 5>>, <<4, 8>>}, code \in DeEntradaSalida}

MCCargas ==
  {(p1 :> a) @@ (p2 :> <<PonerEn("AX", 6), Con("MOV_OUT", "AX", "AX"),
                         I("WAIT", "", "", "", 0, "RA"), Fin>>) :
     a \in Copias \cup Movimientos \cup Cuentas \cup DeInterfaces}
=============================================================================
