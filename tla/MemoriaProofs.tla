---------------------------- MODULE MemoriaProofs ----------------------------
(***************************************************************************)
(* Proofs about MemoriaPaginas, for every set of processes, every number   *)
(* of frames and every size of a RESIZE; and about Tlb, for every set of   *)
(* processes and pages, every size of the TLB and both policies.           *)
(***************************************************************************)
EXTENDS MemoriaPaginas, Tlb, SecuenciasProofs, FiniteSetTheorems, SequenceTheorems, TLAPS

(* A page table that loses its last page keeps the others. *)
LEMMA SinUltima ==
  ASSUME NEW S, NEW s \in Seq(S), s # <<>>
  PROVE  LET t == SubSeq(s, 1, Len(s) - 1)
         IN  /\ t \in Seq(S)
             /\ Len(t) = Len(s) - 1
             /\ DOMAIN t \subseteq DOMAIN s
             /\ Len(s) \in DOMAIN s /\ Len(s) \notin DOMAIN t
             /\ \A i \in DOMAIN t : t[i] = s[i]
<1>1. Len(s) \in Nat /\ Len(s) > 0 /\ DOMAIN s = 1..Len(s)
  OBVIOUS
<1>2. QED
  BY <1>1

(* A page table that gains a page keeps the ones it had. *)
LEMMA ConUnaMas ==
  ASSUME NEW S, NEW s \in Seq(S), NEW e \in S
  PROVE  LET t == Append(s, e)
         IN  /\ t \in Seq(S)
             /\ Len(t) = Len(s) + 1
             /\ DOMAIN t = DOMAIN s \cup {Len(s) + 1}
             /\ \A i \in DOMAIN s : t[i] = s[i]
             /\ t[Len(s) + 1] = e
<1>1. Len(s) \in Nat /\ DOMAIN s = 1..Len(s)
  OBVIOUS
<1>2. QED
  BY <1>1

-----------------------------------------------------------------------------
(* Types.                                                                  *)

\* The memory starts well typed, with no request in course.
LEMMA TipoInicial == Init => TypeOK /\ PedidoValido
<1> SUFFICES ASSUME Init PROVE TypeOK /\ PedidoValido
  OBVIOUS
<1>1. <<>> \in Seq(0..NumMarcos)
  OBVIOUS
<1>2. tabla \in [Pids -> Seq(0..NumMarcos)]
  BY <1>1 DEF Init
<1>3. QED
  BY <1>2 DEF Init, TypeOK, PedidoValido

(* The answer to a RESIZE touches no page table. *)
LEMMA ResponderTipo ==
  ASSUME TypeOK, pid_cpu \in Pids, NEW b \in BOOLEAN, responder(b)
  PROVE  TypeOK' /\ PedidoValido' /\ UNCHANGED <<tabla, ocupados, procesos, terminados>>
BY DEF responder, TypeOK, PedidoValido

\* Every step of the two threads keeps the types; the kernel ends a process only when
\* the CPU has returned it, so the request in course stays one of a process with a table.
LEMMA TipoPaso == TypeOK /\ PedidoValido /\ [Next]_vars => TypeOK' /\ PedidoValido'
<1> SUFFICES ASSUME TypeOK, PedidoValido, [Next]_vars
             PROVE  TypeOK' /\ PedidoValido'
  OBVIOUS
<1>1. ASSUME NEW p \in Pids, crear_proceso(p) \/ finalizar_proceso(p)
      PROVE  TypeOK' /\ PedidoValido'
  <2>1. <<>> \in Seq(0..NumMarcos)
    OBVIOUS
  <2>2. QED
    BY <1>1, <2>1 DEF crear_proceso, finalizar_proceso, TypeOK, PedidoValido, pedido, resultado
<1>2. ASSUME NEW p \in Pids, NEW n \in 0..MaxPaginas, resize(p, n)
      PROVE  TypeOK' /\ PedidoValido'
  <2>1. n \in Nat /\ Len(tabla[p]) \in Nat
    BY MemoriaAssumption DEF MemoriaAssumption, TypeOK
  <2>2. QED
    BY <1>2, <2>1 DEF resize, TypeOK, PedidoValido
<1>3. CASE crear_pagina
  <2>1. pid_cpu \in Pids
    BY <1>3 DEF crear_pagina, PedidoValido
  <2>2. PICK f \in 0..NumMarcos : /\ ocupados' = ocupados \cup {f}
                                  /\ tabla' = [tabla EXCEPT ![pid_cpu] = Append(@, f)]
                                  /\ frame' = f
    BY <1>3 DEF crear_pagina
  <2>3. Append(tabla[pid_cpu], f) \in Seq(0..NumMarcos)
    BY <2>1 DEF TypeOK
  <2>4. f \in Nat
    BY MemoriaAssumption DEF MemoriaAssumption
  <2>5. QED
    BY <1>3, <2>1, <2>2, <2>3, <2>4 DEF crear_pagina, TypeOK, PedidoValido, resultado
<1>4. CASE quitar_pagina
  <2>1. pid_cpu \in Pids
    BY <1>4 DEF quitar_pagina, PedidoValido
  <2>2. tabla[pid_cpu] \in Seq(0..NumMarcos) /\ size \in Nat
    BY <2>1 DEF TypeOK
  <2>3. tabla[pid_cpu] # <<>>
    BY <1>4, <2>2 DEF quitar_pagina
  <2>4. SubSeq(tabla[pid_cpu], 1, Len(tabla[pid_cpu]) - 1) \in Seq(0..NumMarcos)
    BY <2>2, <2>3, SinUltima
  <2>5. QED
    BY <1>4, <2>1, <2>4 DEF quitar_pagina, TypeOK, PedidoValido, pedido, resultado
<1>5. CASE fin_ampliacion \/ fin_reduccion
  <2>1. pid_cpu \in Pids
    BY <1>5 DEF fin_ampliacion, fin_reduccion, PedidoValido
  <2>2. \E b \in BOOLEAN : responder(b)
    BY <1>5 DEF fin_ampliacion, fin_reduccion
  <2>3. QED
    BY <2>1, <2>2, ResponderTipo
<1>6. CASE UNCHANGED vars
  BY <1>6 DEF vars, pedido, resultado, TypeOK, PedidoValido
<1>7. QED
  BY <1>1, <1>2, <1>3, <1>4, <1>5, <1>6 DEF Next, PasoKernel, PasoResize

(* Every page is a frame of the memory or the number after the last one,   *)
(* and the thread of the CPU only works for a process.                     *)
THEOREM TipoInvariante == Spec => [](TypeOK /\ PedidoValido)
<1>1. QED
  BY TipoInicial, TipoPaso, PTL DEF Spec

-----------------------------------------------------------------------------
(* Isolation.                                                              *)

(* What the next two lemmas keep: what a page shares with another one.     *)
Aislados == MarcosPropios /\ TablasEnBitmap

\* A new page (memoria_utils.c, crear_pagina) takes a frame whose bit is clear, hence
\* one that is in no table.
LEMMA CrearPaginaAislada ==
  ASSUME TypeOK, PedidoValido, Aislados, crear_pagina
  PROVE  Aislados'
<1>1. pid_cpu \in Pids
  BY DEF crear_pagina, PedidoValido
<1>2. PICK f \in 0..NumMarcos : /\ primer_frame_libre(f)
                                /\ ocupados' = ocupados \cup {f}
                                /\ tabla' = [tabla EXCEPT ![pid_cpu] = Append(@, f)]
  BY DEF crear_pagina
<1> DEFINE s == tabla[pid_cpu]
           n == Len(s) + 1
<1>3. s \in Seq(0..NumMarcos) /\ tabla'[pid_cpu] = Append(s, f)
  BY <1>1, <1>2 DEF TypeOK
<1>4. /\ DOMAIN tabla'[pid_cpu] = DOMAIN s \cup {n}
      /\ \A i \in DOMAIN s : tabla'[pid_cpu][i] = s[i]
      /\ tabla'[pid_cpu][n] = f
  BY <1>3, ConUnaMas
<1>5. \A p \in Pids : p # pid_cpu => tabla'[p] = tabla[p]
  BY <1>2 DEF TypeOK
<1>6. f \in Marcos => f \notin ocupados
  BY <1>2, MemoriaAssumption DEF primer_frame_libre, Marcos, MemoriaAssumption
<1>7. ASSUME NEW p \in Pids, NEW i \in DOMAIN tabla'[p]
      PROVE  \/ i \in DOMAIN tabla[p] /\ tabla'[p][i] = tabla[p][i]
             \/ p = pid_cpu /\ i = n /\ tabla'[p][i] = f
  BY <1>4, <1>5
<1>8. TablasEnBitmap'
  <2> SUFFICES ASSUME NEW p \in Pids, NEW i \in DOMAIN tabla'[p], tabla'[p][i] \in Marcos
               PROVE  tabla'[p][i] \in ocupados'
    BY DEF TablasEnBitmap, Marcos
  <2>1. QED
    BY <1>2, <1>7 DEF Aislados, TablasEnBitmap
<1>9. MarcosPropios'
  <2> SUFFICES ASSUME NEW p \in Pids, NEW q \in Pids,
                      NEW i \in DOMAIN tabla'[p], NEW j \in DOMAIN tabla'[q],
                      tabla'[p][i] = tabla'[q][j], tabla'[p][i] \in Marcos
               PROVE  p = q /\ i = j
    BY DEF MarcosPropios, Marcos
  <2>1. CASE i \in DOMAIN tabla[p] /\ tabla'[p][i] = tabla[p][i]
    <3>1. tabla[p][i] \in ocupados
      BY <2>1 DEF Aislados, TablasEnBitmap
    <3>2. ~(q = pid_cpu /\ j = n /\ tabla'[q][j] = f)
      BY <2>1, <3>1, <1>6
    <3>3. j \in DOMAIN tabla[q] /\ tabla'[q][j] = tabla[q][j]
      BY <3>2, <1>7
    <3>4. QED
      BY <2>1, <3>3 DEF Aislados, MarcosPropios
  <2>2. CASE p = pid_cpu /\ i = n /\ tabla'[p][i] = f
    <3>1. ~(j \in DOMAIN tabla[q] /\ tabla'[q][j] = tabla[q][j])
      BY <2>2, <1>6 DEF Aislados, TablasEnBitmap
    <3>2. QED
      BY <2>2, <3>1, <1>7
  <2>3. QED
    BY <2>1, <2>2, <1>7
<1>10. QED
  BY <1>8, <1>9 DEF Aislados

\* A page that is given back clears the bit of its frame, which no other page has.
LEMMA QuitarPaginaAislada ==
  ASSUME TypeOK, PedidoValido, Aislados, quitar_pagina
  PROVE  Aislados'
<1> DEFINE s == tabla[pid_cpu]
           n == Len(s)
<1>1. pid_cpu \in Pids /\ s \in Seq(0..NumMarcos) /\ s # <<>>
  BY DEF quitar_pagina, PedidoValido, TypeOK
<1>2. /\ tabla'[pid_cpu] = SubSeq(s, 1, Len(s) - 1)
      /\ ocupados' = ocupados \ {s[n]}
  BY <1>1 DEF quitar_pagina, TypeOK
<1>3. /\ DOMAIN tabla'[pid_cpu] \subseteq DOMAIN s
      /\ n \in DOMAIN s /\ n \notin DOMAIN tabla'[pid_cpu]
      /\ \A i \in DOMAIN tabla'[pid_cpu] : tabla'[pid_cpu][i] = s[i]
  BY <1>1, <1>2, SinUltima
<1>4. \A p \in Pids : p # pid_cpu => tabla'[p] = tabla[p]
  BY DEF quitar_pagina, TypeOK
<1>5. ASSUME NEW p \in Pids, NEW i \in DOMAIN tabla'[p]
      PROVE  /\ i \in DOMAIN tabla[p] /\ tabla'[p][i] = tabla[p][i]
             /\ ~(p = pid_cpu /\ i = n)
  BY <1>3, <1>4
<1>6. TablasEnBitmap'
  <2> SUFFICES ASSUME NEW p \in Pids, NEW i \in DOMAIN tabla'[p], tabla'[p][i] \in Marcos
               PROVE  tabla'[p][i] \in ocupados'
    BY DEF TablasEnBitmap, Marcos
  <2>1. tabla[p][i] # s[n]
    BY <1>1, <1>3, <1>5 DEF Aislados, MarcosPropios
  <2>2. QED
    BY <1>2, <1>5, <2>1 DEF Aislados, TablasEnBitmap
<1>7. MarcosPropios'
  BY <1>5 DEF Aislados, MarcosPropios, Marcos
<1>8. QED
  BY <1>6, <1>7 DEF Aislados

\* Every step keeps the frames apart and their bits set.
LEMMA AislamientoPaso == InvMarcos /\ [Next]_vars => InvMarcos'
<1> SUFFICES ASSUME InvMarcos, [Next]_vars PROVE InvMarcos'
  OBVIOUS
<1>1. TypeOK /\ PedidoValido /\ Aislados
  BY DEF InvMarcos, Aislados
<1>2. TypeOK' /\ PedidoValido'
  BY <1>1, TipoPaso
<1>3. Aislados'
  <2>1. CASE UNCHANGED <<tabla, ocupados>>
    BY <1>1, <2>1 DEF Aislados, MarcosPropios, TablasEnBitmap, Marcos
  <2>2. ASSUME NEW p \in Pids, finalizar_proceso(p)
        PROVE  Aislados'
    <3>1. /\ tabla' = [tabla EXCEPT ![p] = <<>>]
          /\ UNCHANGED ocupados
      BY <2>2 DEF finalizar_proceso
    <3>2. \A q \in Pids : \A i \in DOMAIN tabla'[q] :
            i \in DOMAIN tabla[q] /\ tabla'[q][i] = tabla[q][i]
      BY <1>1, <3>1 DEF TypeOK
    <3>3. QED
      BY <1>1, <3>1, <3>2 DEF Aislados, MarcosPropios, TablasEnBitmap, Marcos
  <2>3. CASE crear_pagina
    BY <1>1, <2>3, CrearPaginaAislada
  <2>4. CASE quitar_pagina
    BY <1>1, <2>4, QuitarPaginaAislada
  <2>5. QED
    BY <2>1, <2>2, <2>3, <2>4
       DEF Next, PasoKernel, PasoResize, crear_proceso, resize, fin_ampliacion,
           fin_reduccion, responder, vars
<1>4. QED
  BY <1>1, <1>2, <1>3 DEF InvMarcos, Aislados

(* No frame of the memory is ever in two pages, of one or of two           *)
(* processes, and every frame in a table is marked as busy, whatever       *)
(* processes are created, resized or destroyed.                            *)
THEOREM AislamientoInvariante == Spec => []InvMarcos
<1>1. Init => InvMarcos
  <2>1. Init => MarcosPropios /\ TablasEnBitmap
    BY DEF Init, MarcosPropios, TablasEnBitmap
  <2>2. QED
    BY <2>1, TipoInicial DEF InvMarcos
<1>2. QED
  BY <1>1, AislamientoPaso, PTL DEF Spec

-----------------------------------------------------------------------------
(* Sizes.                                                                  *)

(* What makes TamanioConcedido inductive: a request in course is of a      *)
(* process that is still served, and the table of a process that was never *)
(* created is empty.                                                       *)
PedidoEnCurso ==
  /\ linea # "lista" => esperando
  /\ esperando => pid_cpu \in procesos \ sinMemoria

TablasNuevas ==
  \A p \in Pids \ (procesos \cup terminados) : Len(tabla[p]) = concedido[p]

InvTamanio == TypeOK /\ PedidoValido /\ PedidoEnCurso /\ TablasNuevas /\ TamanioConcedido

\* Every step keeps the tables at their confirmed sizes between requests.
LEMMA TamanioPaso == InvTamanio /\ [Next]_vars => InvTamanio'
<1> SUFFICES ASSUME InvTamanio, [Next]_vars PROVE InvTamanio'
  OBVIOUS
<1>1. TypeOK /\ PedidoValido /\ PedidoEnCurso /\ TablasNuevas /\ TamanioConcedido
  BY DEF InvTamanio
<1>2. TypeOK' /\ PedidoValido'
  BY <1>1, TipoPaso
<1> DEFINE Resto == PedidoEnCurso /\ TablasNuevas /\ TamanioConcedido
<1>3. ASSUME NEW p \in Pids, crear_proceso(p)
      PROVE  Resto'
  BY <1>1, <1>3
     DEF crear_proceso, pedido, resultado, PedidoEnCurso, TablasNuevas, TamanioConcedido
<1>4. ASSUME NEW p \in Pids, finalizar_proceso(p)
      PROVE  Resto'
  <2>1. \A q \in Pids : q # p => tabla'[q] = tabla[q]
    BY <1>1, <1>4 DEF finalizar_proceso, TypeOK
  <2>2. /\ procesos' = procesos \ {p} /\ terminados' = terminados \cup {p}
        /\ p \in procesos /\ ~(esperando /\ pid_cpu = p)
        /\ UNCHANGED <<linea, pid_cpu, esperando, sinMemoria, concedido>>
    BY <1>4 DEF finalizar_proceso, pedido, resultado
  <2>3. PedidoEnCurso'
    BY <1>1, <2>2 DEF PedidoEnCurso
  <2>4. TablasNuevas' /\ TamanioConcedido'
    BY <1>1, <2>1, <2>2 DEF TablasNuevas, TamanioConcedido, TypeOK
  <2>5. QED
    BY <2>3, <2>4
<1>5. ASSUME NEW p \in Pids, NEW n \in 0..MaxPaginas, resize(p, n)
      PROVE  Resto'
  <2>1. /\ ~esperando /\ esperando' /\ pid_cpu' = p /\ p \in procesos \ sinMemoria
        /\ UNCHANGED <<procesos, terminados, tabla, sinMemoria, concedido>>
    BY <1>5 DEF resize
  <2>2. QED
    BY <1>1, <2>1 DEF PedidoEnCurso, TablasNuevas, TamanioConcedido
<1>6. ASSUME crear_pagina \/ quitar_pagina
      PROVE  Resto'
  <2>1. /\ linea # "lista"
        /\ UNCHANGED <<procesos, terminados, linea, pid_cpu, resultado>>
        /\ \E s : tabla' = [tabla EXCEPT ![pid_cpu] = s]
    BY <1>6 DEF crear_pagina, quitar_pagina, pedido
  <2>2. esperando /\ pid_cpu \in procesos \ sinMemoria
    BY <1>1, <2>1 DEF PedidoEnCurso
  <2>3. \A q \in Pids : q # pid_cpu => tabla'[q] = tabla[q]
    BY <1>1, <2>1 DEF TypeOK
  <2>4. UNCHANGED <<esperando, sinMemoria, concedido>>
    BY <2>1 DEF resultado
  <2>5. QED
    BY <1>1, <2>1, <2>2, <2>3, <2>4 DEF PedidoEnCurso, TablasNuevas, TamanioConcedido, TypeOK
<1>7. ASSUME fin_ampliacion \/ fin_reduccion
      PROVE  Resto'
  <2>1. PICK b \in BOOLEAN : /\ linea # "lista"
                             /\ responder(b)
                             /\ b => Len(tabla[pid_cpu]) = size
    BY <1>7 DEF fin_ampliacion, fin_reduccion
  <2>2. /\ linea' = "lista" /\ ~esperando'
        /\ UNCHANGED <<procesos, terminados, tabla>>
    BY <2>1 DEF responder
  <2>3. pid_cpu \in procesos \ sinMemoria /\ pid_cpu \in Pids
    BY <1>1, <2>1 DEF PedidoEnCurso, TypeOK
  <2>4. \A q \in Pids : q # pid_cpu =>
          concedido'[q] = concedido[q] /\ (q \in sinMemoria' <=> q \in sinMemoria)
    BY <1>1, <2>1 DEF responder, TypeOK
  <2>5. b => concedido'[pid_cpu] = Len(tabla[pid_cpu])
    BY <1>1, <2>1, <2>3 DEF responder, TypeOK
  <2>6. ~b => pid_cpu \in sinMemoria'
    BY <2>1 DEF responder
  <2>7. QED
    BY <1>1, <2>2, <2>3, <2>4, <2>5, <2>6 DEF PedidoEnCurso, TablasNuevas, TamanioConcedido, TypeOK
<1>8. ASSUME UNCHANGED vars
      PROVE  Resto'
  BY <1>1, <1>8 DEF vars, pedido, resultado, PedidoEnCurso, TablasNuevas, TamanioConcedido
<1>9. Resto'
  BY <1>3, <1>4, <1>5, <1>6, <1>7, <1>8 DEF Next, PasoKernel, PasoResize
<1>10. QED
  BY <1>2, <1>9 DEF InvTamanio

(* Between requests a process has exactly the pages of its last confirmed  *)
(* RESIZE, whatever other processes do in the middle of it.                *)
THEOREM TamanioInvariante == Spec => []TamanioConcedido
<1>1. Init => InvTamanio
  <2>1. ASSUME Init PROVE PedidoEnCurso /\ TablasNuevas /\ TamanioConcedido
    BY <2>1 DEF Init, PedidoEnCurso, TablasNuevas, TamanioConcedido
  <2>2. QED
    BY <2>1, TipoInicial DEF InvTamanio
<1>2. InvTamanio => TamanioConcedido
  BY DEF InvTamanio
<1>3. QED
  BY <1>1, <1>2, TamanioPaso, PTL DEF Spec

-----------------------------------------------------------------------------
(* Pages that stay.                                                        *)

(* Every step of a page table adds a page at the end, removes the last one *)
(* or destroys the table, so a page that stays keeps its frame.            *)
THEOREM PaginasEstablesSiempre == Spec => PaginasEstables
<1> DEFINE Estable ==
      \A p \in Pids : tabla'[p] # <<>> =>
        \A i \in DOMAIN tabla[p] \cap DOMAIN tabla'[p] : tabla'[p][i] = tabla[p][i]
<1>1. TypeOK /\ PedidoValido /\ [Next]_vars => [Estable]_vars
  <2> SUFFICES ASSUME TypeOK, PedidoValido, [Next]_vars PROVE Estable \/ UNCHANGED vars
    OBVIOUS
  <2>1. CASE UNCHANGED tabla
    BY <2>1
  <2>2. ASSUME NEW p \in Pids, finalizar_proceso(p)
        PROVE  Estable
    BY <2>2 DEF finalizar_proceso, TypeOK
  <2>3. CASE crear_pagina
    <3>1. pid_cpu \in Pids
      BY <2>3 DEF crear_pagina, PedidoValido
    <3>2. PICK f \in 0..NumMarcos : tabla' = [tabla EXCEPT ![pid_cpu] = Append(@, f)]
      BY <2>3 DEF crear_pagina
    <3>3. \A i \in DOMAIN tabla[pid_cpu] : tabla'[pid_cpu][i] = tabla[pid_cpu][i]
      BY <3>1, <3>2, ConUnaMas DEF TypeOK
    <3>4. \A p \in Pids : p # pid_cpu => tabla'[p] = tabla[p]
      BY <3>2 DEF TypeOK
    <3>5. QED
      BY <3>3, <3>4
  <2>4. CASE quitar_pagina
    <3>1. pid_cpu \in Pids /\ tabla[pid_cpu] # <<>>
      BY <2>4 DEF quitar_pagina, PedidoValido, TypeOK
    <3>2. /\ tabla'[pid_cpu] = SubSeq(tabla[pid_cpu], 1, Len(tabla[pid_cpu]) - 1)
          /\ \A p \in Pids : p # pid_cpu => tabla'[p] = tabla[p]
      BY <2>4, <3>1 DEF quitar_pagina, TypeOK
    <3>3. \A i \in DOMAIN tabla'[pid_cpu] : tabla'[pid_cpu][i] = tabla[pid_cpu][i]
      BY <3>1, <3>2, SinUltima DEF TypeOK
    <3>4. QED
      BY <3>2, <3>3
  <2>5. QED
    BY <2>1, <2>2, <2>3, <2>4
       DEF Next, PasoKernel, PasoResize, crear_proceso, resize, fin_ampliacion,
           fin_reduccion, responder
<1>2. QED
  BY <1>1, TipoInvariante, PTL DEF Spec, PaginasEstables

-----------------------------------------------------------------------------
(* Out of memory.                                                          *)

(* What makes an OUT_OF_MEMORY justified: the loop that adds pages does    *)
(* not go past the size, and when it stops short of it no frame is free,   *)
(* or the process had already as many pages as there are frames.           *)
CuentaDelPedido ==
  linea = "amplia" =>
    /\ Len(tabla[pid_cpu]) <= size
    /\ frame >= NumMarcos => Marcos \subseteq ocupados \/ NumMarcos <= Len(tabla[pid_cpu])
    /\ frame > NumMarcos =>
         NumMarcos <= Len(tabla[pid_cpu]) /\ Len(tabla[pid_cpu]) < size

InvCuenta == InvMarcos /\ InvTamanio /\ CuentaDelPedido

\* Every step keeps the count of the RESIZE in course.
LEMMA CuentaPaso == InvCuenta /\ [Next]_vars => InvCuenta'
<1> SUFFICES ASSUME InvCuenta, [Next]_vars PROVE InvCuenta'
  OBVIOUS
<1>1. TypeOK /\ PedidoValido /\ PedidoEnCurso /\ CuentaDelPedido
  BY DEF InvCuenta, InvMarcos, InvTamanio
<1>2. InvMarcos' /\ InvTamanio'
  BY AislamientoPaso, TamanioPaso DEF InvCuenta
<1>3. ASSUME NEW p \in Pids, crear_proceso(p)
      PROVE  CuentaDelPedido'
  BY <1>1, <1>3 DEF crear_proceso, pedido, CuentaDelPedido, Marcos
<1>4. ASSUME NEW p \in Pids, finalizar_proceso(p)
      PROVE  CuentaDelPedido'
  <2>1. /\ UNCHANGED <<ocupados, linea, pid_cpu, size, frame>>
        /\ tabla' = [tabla EXCEPT ![p] = <<>>] /\ ~(esperando /\ pid_cpu = p)
    BY <1>4 DEF finalizar_proceso, pedido
  <2>2. linea = "amplia" => tabla'[pid_cpu] = tabla[pid_cpu]
    BY <1>1, <2>1 DEF PedidoEnCurso, PedidoValido, TypeOK
  <2>3. QED
    BY <1>1, <2>1, <2>2 DEF CuentaDelPedido, Marcos
<1>5. ASSUME NEW p \in Pids, NEW n \in 0..MaxPaginas, resize(p, n)
      PROVE  CuentaDelPedido'
  <2> DEFINE tam == Len(tabla[p])
  <2>1. /\ pid_cpu' = p /\ size' = n /\ tabla' = tabla
        /\ frame' = IF tam < n THEN tam ELSE 0
        /\ linea' = "amplia" => tam = 0 \/ tam < n
    BY <1>5 DEF resize
  <2>2. tam \in Nat /\ n \in Nat /\ NumMarcos \in Nat \ {0}
    BY <1>1, MemoriaAssumption DEF TypeOK
  <2>3. ASSUME linea' = "amplia"
        PROVE  /\ tam <= n
               /\ frame' >= NumMarcos => NumMarcos <= tam
               /\ frame' > NumMarcos => NumMarcos <= tam /\ tam < n
    <3>1. tam = 0 \/ tam < n
      BY <2>1, <2>3
    <3>2. tam < n => frame' = tam
      BY <2>1
    <3>3. ~(tam < n) => frame' = 0
      BY <2>1
    <3> HIDE DEF tam
    <3>4. QED
      BY <2>2, <3>1, <3>2, <3>3
  <2>4. QED
    BY <2>1, <2>3 DEF CuentaDelPedido
<1>6. ASSUME crear_pagina
      PROVE  CuentaDelPedido'
  <2>1. PICK f \in 0..NumMarcos : /\ primer_frame_libre(f)
                                  /\ ocupados' = ocupados \cup {f}
                                  /\ tabla' = [tabla EXCEPT ![pid_cpu] = Append(@, f)]
                                  /\ frame' = f
    BY <1>6 DEF crear_pagina
  <2>2. /\ pid_cpu \in Pids /\ linea = "amplia" /\ Len(tabla[pid_cpu]) < size
        /\ UNCHANGED <<linea, pid_cpu, size>>
    BY <1>1, <1>6 DEF crear_pagina, PedidoValido
  <2>3. /\ Len(tabla'[pid_cpu]) = Len(tabla[pid_cpu]) + 1
        /\ Len(tabla[pid_cpu]) \in Nat /\ size \in Nat
    BY <1>1, <2>1, <2>2, ConUnaMas DEF TypeOK
  <2>4. f \in Nat /\ f <= NumMarcos /\ NumMarcos \in Nat
    BY MemoriaAssumption
  <2>5. f >= NumMarcos => Marcos \subseteq ocupados'
    <3>1. SUFFICES ASSUME f >= NumMarcos, NEW g \in Marcos
                   PROVE  g \in ocupados
      BY <2>1
    <3>2. g < f
      BY <2>4, <3>1 DEF Marcos
    <3>3. QED
      BY <2>1, <3>2 DEF primer_frame_libre
  <2>6. QED
    BY <2>1, <2>2, <2>3, <2>4, <2>5 DEF CuentaDelPedido, Marcos
<1>7. ASSUME linea' # "amplia"
      PROVE  CuentaDelPedido'
  BY <1>7 DEF CuentaDelPedido
<1>8. ASSUME UNCHANGED vars
      PROVE  CuentaDelPedido'
  BY <1>1, <1>8 DEF vars, pedido, CuentaDelPedido, Marcos
<1>9. CuentaDelPedido'
  BY <1>3, <1>4, <1>5, <1>6, <1>7, <1>8
     DEF Next, PasoKernel, PasoResize, quitar_pagina, fin_ampliacion, fin_reduccion,
         responder, pedido
<1>10. QED
  BY <1>2, <1>9 DEF InvCuenta

(* The pages of a process that are frames of the memory are not more than  *)
(* its pages, nor, with the free frames, more than the frames.             *)
LEMMA MarcosDeUnProceso ==
  ASSUME InvMarcos, NEW p \in Pids
  PROVE  LET propias == {i \in DOMAIN tabla[p] : tabla[p][i] \in Marcos}
         IN  /\ Cardinality(propias) \in Nat
             /\ Cardinality(Marcos \ ocupados) \in Nat
             /\ Cardinality(propias) <= Len(tabla[p])
             /\ Cardinality(Marcos \ ocupados) + Cardinality(propias) <= NumMarcos
<1> DEFINE s == tabla[p]
           propias == {i \in DOMAIN s : s[i] \in Marcos}
           usados == Marcos \cap ocupados
           pagina == [i \in propias |-> s[i]]
<1>1. s \in Seq(0..NumMarcos) /\ Len(s) \in Nat /\ DOMAIN s = 1..Len(s)
  BY DEF InvMarcos, TypeOK
<1>2. IsFiniteSet(1..Len(s)) /\ Cardinality(1..Len(s)) = Len(s)
  BY <1>1, FS_Interval
<1>3. IsFiniteSet(propias) /\ Cardinality(propias) <= Len(s) /\ Cardinality(propias) \in Nat
  <2>1. propias \in SUBSET (1..Len(s))
    BY <1>1
  <2>2. QED
    BY <1>2, <2>1, FS_Subset, FS_CardinalityType
<1>4. IsFiniteSet(Marcos) /\ Cardinality(Marcos) = NumMarcos /\ NumMarcos \in Nat
  BY MemoriaAssumption, FS_Interval DEF Marcos
<1>5. IsFiniteSet(usados) /\ Cardinality(usados) \in Nat
  BY <1>4, FS_Subset, FS_CardinalityType
<1>6. Cardinality(Marcos \ ocupados) = NumMarcos - Cardinality(usados)
      /\ Cardinality(Marcos \ ocupados) \in Nat
  BY <1>4, FS_Difference, FS_CardinalityType
<1>7. Cardinality(propias) <= Cardinality(usados)
  <2>1. pagina \in [propias -> usados]
    BY DEF InvMarcos, TablasEnBitmap
  <2>2. \A i, j \in propias : pagina[i] = pagina[j] => i = j
    BY DEF InvMarcos, MarcosPropios
  <2> HIDE DEF pagina, propias, usados
  <2>3. ~(Cardinality(usados) < Cardinality(propias))
    BY <1>3, <1>5, <2>1, <2>2, FS_PigeonHole
  <2>4. QED
    BY <1>3, <1>5, <2>3
<1> HIDE DEF propias, usados
<1>8. Cardinality(Marcos \ ocupados) + Cardinality(propias) <= NumMarcos
  BY <1>3, <1>4, <1>5, <1>6, <1>7
<1>9. QED
  BY <1>3, <1>6, <1>8 DEF propias

(* RechazoJustificado: a process is answered OUT_OF_MEMORY only when its   *)
(* frames and the free ones are fewer than the pages it asks for, whatever *)
(* it had and whoever is created or destroyed during its RESIZE.           *)
THEOREM RechazoSiempreJustificado == Spec => RechazoJustificado
<1> DEFINE Justo ==
      sinMemoria' # sinMemoria =>
        Cardinality(Marcos \ ocupados)
          + Cardinality({i \in DOMAIN tabla[pid_cpu] : tabla[pid_cpu][i] \in Marcos})
          < size
<1>1. Init => InvCuenta
  <2>1. ASSUME Init PROVE InvMarcos /\ InvTamanio /\ CuentaDelPedido
    <3>1. TypeOK /\ PedidoValido
      BY <2>1, TipoInicial
    <3>2. MarcosPropios /\ TablasEnBitmap /\ PedidoEnCurso /\ TablasNuevas
          /\ TamanioConcedido /\ CuentaDelPedido
      BY <2>1 DEF Init, MarcosPropios, TablasEnBitmap, PedidoEnCurso, TablasNuevas,
                  TamanioConcedido, CuentaDelPedido
    <3>3. QED
      BY <3>1, <3>2 DEF InvMarcos, InvTamanio
  <2>2. QED
    BY <2>1 DEF InvCuenta
<1>2. InvCuenta /\ [Next]_vars => [Justo]_vars
  <2> SUFFICES ASSUME InvCuenta, [Next]_vars, sinMemoria' # sinMemoria
               PROVE  Cardinality(Marcos \ ocupados)
                        + Cardinality({i \in DOMAIN tabla[pid_cpu] :
                                         tabla[pid_cpu][i] \in Marcos})
                        < size
    OBVIOUS
  <2>1. linea = "amplia" /\ ~(Len(tabla[pid_cpu]) < size /\ frame < NumMarcos)
        /\ ~(Len(tabla[pid_cpu]) = size /\ frame <= NumMarcos)
    BY DEF Next, PasoKernel, PasoResize, crear_proceso, finalizar_proceso, resize,
           crear_pagina, quitar_pagina, fin_ampliacion, fin_reduccion, responder, resultado,
           vars
  <2>2. InvMarcos /\ TypeOK /\ pid_cpu \in Pids /\ CuentaDelPedido
    BY <2>1 DEF InvCuenta, InvMarcos, PedidoValido
  <2> DEFINE n == Len(tabla[pid_cpu])
             libres == Cardinality(Marcos \ ocupados)
             propias == Cardinality({i \in DOMAIN tabla[pid_cpu] :
                                       tabla[pid_cpu][i] \in Marcos})
  <2>3. /\ propias \in Nat /\ libres \in Nat /\ propias <= n
        /\ libres + propias <= NumMarcos
    BY <2>2, MarcosDeUnProceso
  <2>4. n \in Nat /\ size \in Nat /\ frame \in Nat /\ NumMarcos \in Nat
    BY <2>2, MemoriaAssumption DEF TypeOK
  <2>5. /\ n <= size
        /\ frame >= NumMarcos => Marcos \subseteq ocupados \/ NumMarcos <= n
        /\ frame > NumMarcos => n < size
    BY <2>1, <2>2 DEF CuentaDelPedido
  <2>6. Marcos \subseteq ocupados => libres = 0
    <3>1. Marcos \subseteq ocupados => Marcos \ ocupados = {}
      OBVIOUS
    <3>2. QED
      BY <3>1, FS_EmptySet
  <2>7. ~(n < size /\ frame < NumMarcos) /\ ~(n = size /\ frame <= NumMarcos)
    BY <2>1
  <2> HIDE DEF n, libres, propias
  <2>8. n < size /\ frame >= NumMarcos
    BY <2>4, <2>5, <2>7
  <2>9. libres + propias < size
    BY <2>3, <2>4, <2>5, <2>6, <2>8
  <2>10. QED
    BY <2>9 DEF libres, propias
<1>3. QED
  BY <1>1, <1>2, CuentaPaso, PTL DEF Spec, RechazoJustificado

-----------------------------------------------------------------------------
(* The TLB.                                                                *)

-----------------------------------------------------------------------------
(* Entries and the pages they are of.                                      *)

MismaPagina(e, d) == e.pid = d.pid /\ e.pagina = d.pagina

Unicas(s) == \A i, j \in 1..Len(s) : MismaPagina(s[i], s[j]) => i = j

Falta(e, s) == \A i \in 1..Len(s) : ~MismaPagina(s[i], e)

(* A page that was not there is added. *)
LEMMA UnicasTrasAgregar ==
  ASSUME NEW s \in Seq(Entrada), NEW e \in Entrada, Unicas(s), Falta(e, s)
  PROVE  Unicas(Append(s, e))
<1> DEFINE t == Append(s, e)
<1>1. /\ Len(s) \in Nat
      /\ Len(t) = Len(s) + 1
      /\ \A i \in 1..Len(s) : t[i] = s[i]
      /\ t[Len(s) + 1] = e
  BY AppendProperties, LenProperties
<1> HIDE DEF t
<1>2. ASSUME NEW i \in 1..Len(t), NEW j \in 1..Len(t), MismaPagina(t[i], t[j])
      PROVE  i = j
  <2>1. CASE i \in 1..Len(s) /\ j \in 1..Len(s)
    BY <1>1, <1>2, <2>1 DEF Unicas
  <2>2. CASE i = Len(s) + 1 \/ j = Len(s) + 1
    BY <1>1, <1>2, <2>2 DEF Falta, MismaPagina
  <2>3. QED
    BY <1>1, <2>1, <2>2
<1>3. QED
  BY <1>2 DEF Unicas, t

(* It takes the place of another one. *)
LEMMA UnicasTrasReemplazar ==
  ASSUME NEW s \in Seq(Entrada), NEW e \in Entrada, NEW k \in 1..Len(s), Unicas(s), Falta(e, s)
  PROVE  Unicas([s EXCEPT ![k] = e])
<1> DEFINE t == [s EXCEPT ![k] = e]
<1>1. /\ Len(t) = Len(s)
      /\ \A j \in 1..Len(s) : t[j] = IF j = k THEN e ELSE s[j]
  BY ExceptSeq
<1> HIDE DEF t
<1>2. ASSUME NEW i \in 1..Len(t), NEW j \in 1..Len(t), MismaPagina(t[i], t[j])
      PROVE  i = j
  <2>1. CASE i # k /\ j # k
    BY <1>1, <1>2, <2>1 DEF Unicas
  <2>2. CASE i = k \/ j = k
    BY <1>1, <1>2, <2>2 DEF Falta, MismaPagina
  <2>3. QED
    BY <2>1, <2>2
<1>3. QED
  BY <1>2 DEF Unicas, t

(* What is left of a list without repetitions has none, nor has it a page  *)
(* that was not in the list.                                               *)
LEMMA UnicasTrasQuitar ==
  ASSUME NEW s \in Seq(Entrada), NEW e \in Entrada, NEW k \in 1..Len(s), Unicas(s), Falta(e, s)
  PROVE  Unicas(RemoveAt(s, k)) /\ Falta(e, RemoveAt(s, k))
<1> DEFINE t == RemoveAt(s, k)
           viejo(j) == IF j < k THEN j ELSE j + 1
<1>1. /\ Len(t) = Len(s) - 1
      /\ \A j \in 1..Len(s) - 1 : t[j] = s[viejo(j)]
  BY SinElemento
<1> HIDE DEF t
<1>2. Len(s) \in Nat
  BY LenProperties
<1>3. \A j \in 1..Len(t) : viejo(j) \in 1..Len(s) /\ t[j] = s[viejo(j)]
  BY <1>1, <1>2
<1>4. \A i, j \in 1..Len(t) : viejo(i) = viejo(j) => i = j
  BY <1>1, <1>2
<1> HIDE DEF viejo
<1>5. QED
  BY <1>3, <1>4 DEF Unicas, Falta, t

-----------------------------------------------------------------------------
(* Types.                                                                  *)

\* The TLB starts empty, with its index at the first entry.
LEMMA TiposIniciales == InitTlb => TypeOKTlb
BY TlbAssumption, EmptySeq DEF InitTlb, TypeOKTlb

(* A hit changes the time of one entry. *)
LEMMA TrasConsultar ==
  ASSUME TypeOKTlb, NEW p \in Procesos, NEW pag \in Paginas, consultar_tlb(p, pag)
  PROVE  /\ entradas' \in Seq(Entrada)
         /\ Len(entradas') = Len(entradas)
         /\ \A k \in 1..Len(entradas) : MismaPagina(entradas'[k], entradas[k])
<1> DEFINE x == CHOOSE i \in esta_la_pagina(p, pag) : \A j \in esta_la_pagina(p, pag) : i <= j
           e == [entradas[x] EXCEPT !.tiempo = tiempo_actual]
<1>1. entradas' = [entradas EXCEPT ![x] = e]
  BY DEF consultar_tlb
<1> HIDE DEF x
<1>2. entradas \in Seq(Entrada) /\ tiempo_actual \in Nat
  BY TlbAssumption DEF TypeOKTlb
<1>3. CASE x \in 1..Len(entradas)
  <2>1. entradas[x] \in Entrada
    BY <1>2, <1>3, ElementOfSeq
  <2>2. e \in Entrada /\ MismaPagina(e, entradas[x])
    BY <1>2, <2>1 DEF Entrada, MismaPagina
  <2> HIDE DEF e
  <2>3. /\ entradas' \in Seq(Entrada)
        /\ Len(entradas') = Len(entradas)
        /\ \A k \in 1..Len(entradas) : entradas'[k] = IF k = x THEN e ELSE entradas[k]
    BY <1>1, <1>2, <1>3, <2>2, ExceptSeq
  <2>4. QED
    BY <2>2, <2>3 DEF MismaPagina
<1>4. CASE x \notin 1..Len(entradas)
  <2>1. entradas \in [1..Len(entradas) -> Entrada]
    BY <1>2, LenProperties
  <2> HIDE DEF e
  <2>2. entradas' = entradas
    BY <1>1, <1>4, <2>1
  <2>3. QED
    BY <1>2, <2>2 DEF MismaPagina
<1>5. QED
  BY <1>3, <1>4

(* FIFO: the entry at the index is replaced and the index goes round. *)
LEMMA TrasFifo ==
  ASSUME TypeOKTlb, NEW e \in Entrada, Len(entradas) = CantidadEntradas,
         reemplazar_por_fifo(e)
  PROVE  /\ reemplazar_fifo + 1 \in 1..Len(entradas)
         /\ entradas' = [entradas EXCEPT ![reemplazar_fifo + 1] = e]
         /\ entradas' \in Seq(Entrada) /\ Len(entradas') = CantidadEntradas
         /\ reemplazar_fifo' \in 0..CantidadEntradas - 1
<1>1. reemplazar_fifo + 1 \in 1..Len(entradas)
  BY TlbAssumption DEF TypeOKTlb
<1>2. entradas' = [entradas EXCEPT ![reemplazar_fifo + 1] = e]
  BY DEF reemplazar_por_fifo
<1>3. entradas' \in Seq(Entrada) /\ Len(entradas') = Len(entradas)
  BY <1>1, <1>2, ExceptSeq DEF TypeOKTlb
<1>4. reemplazar_fifo' = (reemplazar_fifo + 1) % CantidadEntradas
  BY DEF reemplazar_por_fifo
<1>5. reemplazar_fifo' \in 0..CantidadEntradas - 1
  BY <1>4, TlbAssumption DEF TypeOKTlb
<1>6. QED
  BY <1>1, <1>2, <1>3, <1>5

(* LRU: some entry goes and the new one is the last. *)
LEMMA TrasLru ==
  ASSUME TypeOKTlb, NEW e \in Entrada, Len(entradas) = CantidadEntradas, reemplazar_lru(e)
  PROVE  /\ \E i \in 1..Len(entradas) : entradas' = Append(RemoveAt(entradas, i), e)
         /\ entradas' \in Seq(Entrada) /\ Len(entradas') = CantidadEntradas
         /\ reemplazar_fifo' = reemplazar_fifo
<1>1. entradas \in Seq(Entrada) /\ DOMAIN entradas = 1..Len(entradas)
  BY LenProperties DEF TypeOKTlb
<1>2. PICK i \in 1..Len(entradas) : entradas' = Append(RemoveAt(entradas, i), e)
  BY <1>1 DEF reemplazar_lru
<1>3. RemoveAt(entradas, i) \in Seq(Entrada) /\ Len(RemoveAt(entradas, i)) = Len(entradas) - 1
  BY <1>1, SinElemento
<1>4. /\ Append(RemoveAt(entradas, i), e) \in Seq(Entrada)
      /\ Len(Append(RemoveAt(entradas, i), e)) = Len(entradas) - 1 + 1
  BY <1>3, AppendProperties
<1>5. QED
  BY <1>2, <1>4, TlbAssumption DEF reemplazar_lru

(* The three ways to bring a page in. *)
nuevo(p, pag, f) == [pid |-> p, pagina |-> pag, frame |-> f, tiempo |-> tiempo_actual]

\* agregar_entrada_tlb in its two cases: there is room, or the policy replaces.
LEMMA TrasAgregar ==
  ASSUME TypeOKTlb, NEW p \in Procesos, NEW pag \in Paginas, NEW f \in Frames,
         agregar_entrada_tlb(p, pag, f)
  PROVE  LET e == nuevo(p, pag, f) IN
         /\ e \in Entrada /\ Falta(e, entradas)
         /\ \/ /\ Len(entradas) < CantidadEntradas
               /\ entradas' = Append(entradas, e)
               /\ reemplazar_fifo' = reemplazar_fifo
            \/ /\ Len(entradas) = CantidadEntradas
               /\ reemplazar_por_fifo(e) \/ reemplazar_lru(e)
<1> DEFINE e == nuevo(p, pag, f)
<1>1. entradas \in Seq(Entrada) /\ DOMAIN entradas = 1..Len(entradas) /\ Len(entradas) \in Nat
  BY LenProperties DEF TypeOKTlb
<1>2. e \in Entrada
  BY TlbAssumption DEF nuevo, Entrada, TypeOKTlb
<1>3. Falta(e, entradas)
  BY <1>1 DEF agregar_entrada_tlb, esta_la_pagina, Falta, MismaPagina, nuevo
<1>4. Len(entradas) <= CantidadEntradas
  BY DEF TypeOKTlb
<1>5. CASE Len(entradas) < CantidadEntradas
  BY <1>2, <1>3, <1>5 DEF agregar_entrada_tlb, nuevo
<1>6. CASE ~(Len(entradas) < CantidadEntradas)
  <2>1. reemplazar_por_fifo(e) \/ reemplazar_lru(e)
    BY <1>6 DEF agregar_entrada_tlb, nuevo
  <2>2. CantidadEntradas \in Nat /\ Len(entradas) \in Nat
    BY <1>1, TlbAssumption
  <2>3. Len(entradas) = CantidadEntradas
    BY <1>4, <1>6, <2>2
  <2>4. QED
    BY <1>2, <1>3, <2>1, <2>3
<1>7. QED
  BY <1>5, <1>6

-----------------------------------------------------------------------------
(* The invariant.                                                          *)

InvTlb == TypeOKTlb /\ SinRepetidas

\* SinRepetidas in terms of the positions of the list.
LEMMA SinRepetidasEsUnicas == TypeOKTlb => (SinRepetidas <=> Unicas(entradas))
BY LenProperties DEF TypeOKTlb, SinRepetidas, Unicas, MismaPagina

\* A search keeps the pages unique: it only changes the time of an entry.
LEMMA PasoConsultar ==
  ASSUME InvTlb, NEW p \in Procesos, NEW pag \in Paginas, consultar_tlb(p, pag)
  PROVE  /\ entradas' \in Seq(Entrada) /\ Len(entradas') <= CantidadEntradas
         /\ reemplazar_fifo' \in 0..CantidadEntradas - 1
         /\ Unicas(entradas')
<1>1. TypeOKTlb /\ Unicas(entradas)
  BY SinRepetidasEsUnicas DEF InvTlb
<1>2. /\ entradas' \in Seq(Entrada)
      /\ Len(entradas') = Len(entradas)
      /\ \A k \in 1..Len(entradas) : MismaPagina(entradas'[k], entradas[k])
  BY <1>1, TrasConsultar
<1>3. Unicas(entradas')
  BY <1>1, <1>2 DEF Unicas, MismaPagina
<1>4. reemplazar_fifo' = reemplazar_fifo
  BY DEF consultar_tlb
<1>5. QED
  BY <1>1, <1>2, <1>3, <1>4 DEF TypeOKTlb

\* An addition after a miss keeps the pages unique.
LEMMA PasoAgregar ==
  ASSUME InvTlb, NEW p \in Procesos, NEW pag \in Paginas, NEW f \in Frames,
         agregar_entrada_tlb(p, pag, f)
  PROVE  /\ entradas' \in Seq(Entrada) /\ Len(entradas') <= CantidadEntradas
         /\ reemplazar_fifo' \in 0..CantidadEntradas - 1
         /\ Unicas(entradas')
<1> DEFINE e == nuevo(p, pag, f)
<1>1. TypeOKTlb /\ Unicas(entradas) /\ entradas \in Seq(Entrada)
  BY SinRepetidasEsUnicas DEF InvTlb, TypeOKTlb
<1>2. /\ e \in Entrada /\ Falta(e, entradas)
      /\ \/ /\ Len(entradas) < CantidadEntradas
            /\ entradas' = Append(entradas, e)
            /\ reemplazar_fifo' = reemplazar_fifo
         \/ /\ Len(entradas) = CantidadEntradas
            /\ reemplazar_por_fifo(e) \/ reemplazar_lru(e)
  BY <1>1, TrasAgregar
<1> HIDE DEF e
<1>3. CASE /\ Len(entradas) < CantidadEntradas
           /\ entradas' = Append(entradas, e)
           /\ reemplazar_fifo' = reemplazar_fifo
  <2>1. Append(entradas, e) \in Seq(Entrada) /\ Len(Append(entradas, e)) = Len(entradas) + 1
    BY <1>1, <1>2, AppendProperties
  <2>2. Unicas(Append(entradas, e))
    BY <1>1, <1>2, UnicasTrasAgregar
  <2>3. Len(entradas) \in Nat
    BY <1>1, LenProperties
  <2>4. QED
    BY <1>1, <1>3, <2>1, <2>2, <2>3, TlbAssumption DEF TypeOKTlb
<1>4. CASE Len(entradas) = CantidadEntradas /\ reemplazar_por_fifo(e)
  <2>1. /\ reemplazar_fifo + 1 \in 1..Len(entradas)
        /\ entradas' = [entradas EXCEPT ![reemplazar_fifo + 1] = e]
        /\ entradas' \in Seq(Entrada) /\ Len(entradas') = CantidadEntradas
        /\ reemplazar_fifo' \in 0..CantidadEntradas - 1
    BY <1>1, <1>2, <1>4, TrasFifo
  <2>2. Unicas(entradas')
    BY <1>1, <1>2, <2>1, UnicasTrasReemplazar
  <2>3. QED
    BY <2>1, <2>2, TlbAssumption
<1>5. CASE Len(entradas) = CantidadEntradas /\ reemplazar_lru(e)
  <2>1. /\ \E i \in 1..Len(entradas) : entradas' = Append(RemoveAt(entradas, i), e)
        /\ entradas' \in Seq(Entrada) /\ Len(entradas') = CantidadEntradas
        /\ reemplazar_fifo' = reemplazar_fifo
    BY <1>1, <1>2, <1>5, TrasLru
  <2>2. PICK i \in 1..Len(entradas) : entradas' = Append(RemoveAt(entradas, i), e)
    BY <2>1
  <2>3. RemoveAt(entradas, i) \in Seq(Entrada)
    BY <1>1, SinElemento
  <2>4. Unicas(RemoveAt(entradas, i)) /\ Falta(e, RemoveAt(entradas, i))
    BY <1>1, <1>2, UnicasTrasQuitar
  <2>5. Unicas(entradas')
    BY <1>2, <2>2, <2>3, <2>4, UnicasTrasAgregar
  <2>6. QED
    BY <1>1, <2>1, <2>5, TlbAssumption DEF TypeOKTlb
<1>6. QED
  BY <1>2, <1>3, <1>4, <1>5

\* Every step keeps the types and the pages unique.
LEMMA PasoTlb == InvTlb /\ [NextTlb]_tlb => InvTlb'
<1> SUFFICES ASSUME InvTlb, [NextTlb]_tlb PROVE InvTlb'
  OBVIOUS
<1>1. ASSUME NEW p \in Procesos, NEW pag \in Paginas, NEW f \in Frames, obtener_frame(p, pag, f)
      PROVE  InvTlb'
  <2>1. /\ entradas' \in Seq(Entrada) /\ Len(entradas') <= CantidadEntradas
        /\ reemplazar_fifo' \in 0..CantidadEntradas - 1
        /\ Unicas(entradas')
    BY <1>1, PasoConsultar, PasoAgregar DEF obtener_frame
  <2>2. tiempo_actual < MaxTiempo /\ tiempo_actual' = tiempo_actual + 1
    BY <1>1 DEF obtener_frame, consultar_tlb, agregar_entrada_tlb, avanza_tiempo
  <2>3. tiempo_actual' \in 0..MaxTiempo
    BY <2>2, TlbAssumption DEF InvTlb, TypeOKTlb
  <2>4. TypeOKTlb'
    BY <1>1, <2>1, <2>3 DEF obtener_frame, InvTlb, TypeOKTlb
  <2>5. SinRepetidas'
    BY <2>1, LenProperties DEF SinRepetidas, Unicas, MismaPagina
  <2>6. QED
    BY <2>4, <2>5 DEF InvTlb
<1>2. CASE UNCHANGED tlb
  BY <1>2 DEF tlb, InvTlb, TypeOKTlb, SinRepetidas
<1>3. QED
  BY <1>1, <1>2 DEF NextTlb

\* The invariant of the TLB, from its initial state and its steps.
LEMMA InvariantesTlb == SpecTlb => []InvTlb
<1>1. InitTlb => InvTlb
  <2>1. InitTlb => SinRepetidas
    BY DEF InitTlb, SinRepetidas
  <2>2. QED
    BY <2>1, TiposIniciales DEF InvTlb
<1>2. QED
  BY <1>1, PasoTlb, PTL DEF SpecTlb

(* The list never has more entries than configured and the index of FIFO   *)
(* and the clock stay in range (agregar_entrada_tlb, reemplazar_fifo).     *)
THEOREM TiposDeLaTlb == SpecTlb => []TypeOKTlb
BY InvariantesTlb, PTL DEF InvTlb

(* No page is in two entries, whatever hits and replacements come in       *)
(* between, under either policy (consultar_tlb, agregar_entrada_tlb).      *)
THEOREM PaginaEnUnaEntrada == SpecTlb => []SinRepetidas
BY InvariantesTlb, PTL DEF InvTlb

-----------------------------------------------------------------------------
(* The refinement of the abstract cache: the order of replacement.         *)

(* s has the entries of t from the oldest time to the newest one. *)
Ordena(s, t) ==
  /\ s \in Seq(Entrada)
  /\ Len(s) = Len(t)
  /\ ToSet(s) = ToSet(t)
  /\ \A i, j \in 1..Len(s) : i < j => s[i].tiempo < s[j].tiempo

(* Two lists with the same entries in the order of their times are one:    *)
(* where they differ first, each would have the smaller time.              *)
LEMMA OrdenUnico ==
  ASSUME NEW t, NEW s, NEW r, Ordena(s, t), Ordena(r, t)
  PROVE  s = r
<1>1. /\ s \in Seq(Entrada) /\ r \in Seq(Entrada)
      /\ Len(s) = Len(r) /\ Len(s) \in Nat
      /\ {s[i] : i \in 1..Len(s)} = {r[i] : i \in 1..Len(s)}
  <2>1. /\ s \in Seq(Entrada) /\ r \in Seq(Entrada)
        /\ Len(s) = Len(r) /\ ToSet(s) = ToSet(r)
    BY DEF Ordena
  <2>2. /\ Len(s) \in Nat
        /\ ToSet(s) = {s[i] : i \in 1..Len(s)}
        /\ ToSet(r) = {r[i] : i \in 1..Len(r)}
    BY <2>1, ElementosDe
  <2>3. QED
    BY <2>1, <2>2
<1> DEFINE n == Len(s)
           Distintas == {i \in 1..n : s[i] # r[i]}
<1>2. \A i \in 1..n : s[i].tiempo \in Nat /\ r[i].tiempo \in Nat
  <2>1. \A i \in 1..n : s[i] \in Entrada /\ r[i] \in Entrada
    BY <1>1, ElementOfSeq
  <2>2. QED
    BY <2>1 DEF Entrada
<1>3. /\ \A i, j \in 1..n : i < j => s[i].tiempo < s[j].tiempo
      /\ \A i, j \in 1..n : i < j => r[i].tiempo < r[j].tiempo
  BY <1>1 DEF Ordena
<1>4. ASSUME Distintas # {} PROVE FALSE
  <2>1. PICK m \in Distintas : \A k \in Distintas : m <= k
    <3>1. Distintas \in SUBSET Nat
      BY <1>1
    <3>2. QED
      BY <1>4, <3>1, HayPrimero
  <2>2. m \in 1..n /\ s[m] # r[m] /\ \A k \in 1..n : k < m => s[k] = r[k]
    BY <1>1, <2>1
  <2>3. PICK j \in 1..n : r[j] = s[m]
    BY <1>1, <2>2
  <2>4. PICK k \in 1..n : s[k] = r[m]
    BY <1>1, <2>2
  <2> HIDE DEF n, Distintas
  <2>5. m < j
    <3>1. ~(j < m)
      BY <1>2, <1>3, <2>2, <2>3
    <3>2. j # m /\ j \in Int /\ m \in Int
      BY <1>1, <2>2, <2>3 DEF n
    <3>3. QED
      BY <3>1, <3>2
  <2>6. m < k
    <3>1. ~(k < m)
      BY <1>2, <1>3, <2>2, <2>4
    <3>2. k # m /\ k \in Int /\ m \in Int
      BY <1>1, <2>2, <2>4 DEF n
    <3>3. QED
      BY <3>1, <3>2
  <2>7. r[m].tiempo < s[m].tiempo /\ s[m].tiempo < r[m].tiempo
    BY <1>3, <2>2, <2>3, <2>4, <2>5, <2>6
  <2>8. QED
    BY <1>2, <2>2, <2>7
<1>5. ASSUME NEW i \in 1..n PROVE s[i] = r[i]
  <2>1. CASE s[i] # r[i]
    <3>1. i \in Distintas
      BY <2>1
    <3>2. QED
      BY <1>4, <3>1
  <2>2. QED
    BY <2>1
<1>6. QED
  BY <1>1, <1>5, SeqEqual

(* The order of LRU is any list that has the entries by their times. *)
LEMMA PorTiempoEs ==
  ASSUME NEW t \in Seq(Entrada), NEW s, Ordena(s, t)
  PROVE  por_tiempo(t) = s
<1> DEFINE n == Len(t)
           Es(q) == /\ ToSet(q) = ToSet(t)
                    /\ \A i, j \in 1..n : i < j => q[i].tiempo < q[j].tiempo
<1>1. s \in [1..n -> ToSet(t)] /\ Es(s)
  BY ElementosDe DEF Ordena
<1>2. por_tiempo(t) = CHOOSE q \in [1..n -> ToSet(t)] : Es(q)
  BY DEF por_tiempo
<1>3. por_tiempo(t) \in [1..n -> ToSet(t)] /\ Es(por_tiempo(t))
  <2> HIDE DEF Es
  <2>1. QED
    BY <1>1, <1>2
<1>4. Ordena(por_tiempo(t), t)
  <2> DEFINE q == por_tiempo(t)
  <2>1. ToSet(t) \subseteq Entrada /\ n \in Nat
    BY ElementosDe
  <2>2. q \in [1..n -> Entrada]
    BY <1>3, <2>1
  <2> HIDE DEF q
  <2>3. q \in Seq(Entrada)
    BY <2>1, <2>2
  <2>4. Len(q) = n
    BY <2>1, <2>2, <2>3, LenProperties
  <2>5. QED
    BY <1>3, <2>3, <2>4 DEF Ordena, q
<1>5. QED
  BY <1>4, OrdenUnico

(* The pages of a list of entries. *)
Claves(q) == [i \in 1..Len(q) |-> clave(q[i])]

\* They are as many as the entries.
LEMMA ClavesDe ==
  ASSUME NEW q \in Seq(Entrada)
  PROVE  /\ Claves(q) \in Seq(Procesos \X Paginas)
         /\ Len(Claves(q)) = Len(q) /\ Len(q) \in Nat
         /\ DOMAIN Claves(q) = 1..Len(q)
         /\ \A i \in 1..Len(q) : Claves(q)[i] = clave(q[i])
<1>1. Len(q) \in Nat /\ \A i \in 1..Len(q) : q[i] \in Entrada
  BY LenProperties, ElementOfSeq
<1>2. \A i \in 1..Len(q) : clave(q[i]) \in Procesos \X Paginas
  BY <1>1 DEF Entrada, clave
<1>3. Claves(q) \in [1..Len(q) -> Procesos \X Paginas]
  BY <1>2 DEF Claves
<1>4. Claves(q) \in Seq(Procesos \X Paginas)
  BY <1>1, <1>3
<1>5. Len(Claves(q)) = Len(q)
  BY <1>1, <1>3, <1>4, LenProperties
<1>6. QED
  BY <1>1, <1>4, <1>5 DEF Claves

(* The pages of a list to which an entry is added. *)
LEMMA ClavesConUna ==
  ASSUME NEW q \in Seq(Entrada), NEW e \in Entrada
  PROVE  Claves(Append(q, e)) = Append(Claves(q), clave(e))
<1> DEFINE a == Claves(Append(q, e))
           b == Append(Claves(q), clave(e))
<1>1. /\ Append(q, e) \in Seq(Entrada) /\ Len(Append(q, e)) = Len(q) + 1
      /\ \A i \in 1..Len(q) : Append(q, e)[i] = q[i]
      /\ Append(q, e)[Len(q) + 1] = e
  BY AppendProperties
<1>2. /\ a \in Seq(Procesos \X Paginas) /\ Len(a) = Len(q) + 1
      /\ \A i \in 1..Len(q) + 1 : a[i] = clave(Append(q, e)[i])
  BY <1>1, ClavesDe
<1>3. clave(e) \in Procesos \X Paginas
  BY DEF Entrada, clave
<1>4. /\ b \in Seq(Procesos \X Paginas) /\ Len(b) = Len(q) + 1
      /\ \A i \in 1..Len(q) : b[i] = clave(q[i])
      /\ b[Len(q) + 1] = clave(e)
  BY <1>3, ClavesDe, AppendProperties
<1>5. Len(q) \in Nat
  BY LenProperties
<1> HIDE DEF a, b
<1>6. \A i \in 1..Len(q) + 1 : a[i] = b[i]
  BY <1>1, <1>2, <1>4, <1>5
<1>7. a = b
  BY <1>2, <1>4, <1>6, SeqEqual
<1>8. QED
  BY <1>7 DEF a, b

(* The pages of a list from which an entry goes. *)
LEMMA ClavesSinUna ==
  ASSUME NEW q \in Seq(Entrada), NEW k \in 1..Len(q)
  PROVE  Claves(RemoveAt(q, k)) = RemoveAt(Claves(q), k)
<1> DEFINE a == Claves(RemoveAt(q, k))
           b == RemoveAt(Claves(q), k)
           viejo(j) == IF j < k THEN j ELSE j + 1
<1>1. /\ RemoveAt(q, k) \in Seq(Entrada) /\ Len(RemoveAt(q, k)) = Len(q) - 1
      /\ \A j \in 1..Len(q) - 1 : RemoveAt(q, k)[j] = q[viejo(j)]
  BY SinElemento
<1>2. /\ a \in Seq(Procesos \X Paginas) /\ Len(a) = Len(q) - 1
      /\ \A j \in 1..Len(q) - 1 : a[j] = clave(RemoveAt(q, k)[j])
  BY <1>1, ClavesDe
<1>3. /\ Claves(q) \in Seq(Procesos \X Paginas) /\ Len(Claves(q)) = Len(q) /\ Len(q) \in Nat
      /\ \A i \in 1..Len(q) : Claves(q)[i] = clave(q[i])
  BY ClavesDe
<1>4. /\ b \in Seq(Procesos \X Paginas) /\ Len(b) = Len(q) - 1
      /\ \A j \in 1..Len(q) - 1 : b[j] = Claves(q)[viejo(j)]
  BY <1>3, SinElemento
<1>5. \A j \in 1..Len(q) - 1 : viejo(j) \in 1..Len(q)
  BY <1>3
<1> HIDE DEF a, b, viejo
<1>6. \A j \in 1..Len(q) - 1 : a[j] = b[j]
  BY <1>1, <1>2, <1>3, <1>4, <1>5
<1>7. a = b
  BY <1>2, <1>4, <1>6, SeqEqual
<1>8. QED
  BY <1>7 DEF a, b

(* A list without its first element. *)
LEMMA SinElPrimeroEsTail ==
  ASSUME NEW S, NEW q \in Seq(S), q # <<>>
  PROVE  RemoveAt(q, 1) = Tail(q)
<1>1. /\ Tail(q) \in Seq(S) /\ Len(Tail(q)) = Len(q) - 1
      /\ \A i \in 1..Len(q) - 1 : Tail(q)[i] = q[i + 1]
  BY HeadTailProperties
<1>2. Len(q) \in Nat /\ 1 \in 1..Len(q)
  BY ElementosDe
<1>3. /\ RemoveAt(q, 1) \in Seq(S) /\ Len(RemoveAt(q, 1)) = Len(q) - 1
      /\ \A j \in 1..Len(q) - 1 : RemoveAt(q, 1)[j] = q[IF j < 1 THEN j ELSE j + 1]
  BY <1>2, SinElemento
<1>4. \A j \in 1..Len(q) - 1 : RemoveAt(q, 1)[j] = Tail(q)[j]
  BY <1>1, <1>2, <1>3
<1>5. QED
  BY <1>1, <1>3, <1>4, SeqEqual

(* An entry that is newer than all the others comes in. *)
LEMMA OrdenaAlEntrar ==
  ASSUME NEW t \in Seq(Entrada), NEW s, Ordena(s, t), NEW e \in Entrada,
         \A x \in ToSet(t) : x.tiempo < e.tiempo
  PROVE  Ordena(Append(s, e), Append(t, e))
<1> DEFINE u == Append(s, e)
           n == Len(s)
<1>1. /\ s \in Seq(Entrada) /\ n = Len(t) /\ n \in Nat
      /\ \A i \in 1..n : s[i] \in ToSet(t)
      /\ \A i, j \in 1..n : i < j => s[i].tiempo < s[j].tiempo
  BY ElementosDe DEF Ordena
<1>2. /\ u \in Seq(Entrada) /\ Len(u) = n + 1
      /\ \A i \in 1..n : u[i] = s[i]
      /\ u[n + 1] = e
  BY <1>1, AppendProperties
<1>3. ToSet(u) = ToSet(Append(t, e)) /\ Len(Append(t, e)) = Len(t) + 1
  <2>1. ToSet(u) = ToSet(s) \cup {e}
    BY <1>1, ElementosConUnoMas
  <2>2. ToSet(Append(t, e)) = ToSet(t) \cup {e} /\ Len(Append(t, e)) = Len(t) + 1
    BY ElementosConUnoMas
  <2>3. QED
    BY <2>1, <2>2 DEF Ordena
<1> HIDE DEF u, n
<1>4. ASSUME NEW i \in 1..Len(u), NEW j \in 1..Len(u), i < j
      PROVE  u[i].tiempo < u[j].tiempo
  <2>1. i \in 1..n
    BY <1>1, <1>2, <1>4
  <2>2. CASE j \in 1..n
    BY <1>1, <1>2, <1>4, <2>1, <2>2
  <2>3. CASE j = n + 1
    BY <1>1, <1>2, <2>1, <2>3
  <2>4. QED
    BY <1>1, <1>2, <2>2, <2>3
<1>5. QED
  BY <1>1, <1>2, <1>3, <1>4 DEF Ordena, u

(* An entry goes and another one, newer than all, comes. *)
LEMMA OrdenaAlCambiar ==
  ASSUME NEW t \in Seq(Entrada), NEW s, Ordena(s, t), Distintos(t),
         NEW x \in 1..Len(t), NEW k \in 1..Len(s), s[k] = t[x],
         NEW e \in Entrada, \A y \in ToSet(t) : y.tiempo < e.tiempo,
         NEW u \in Seq(Entrada), Len(u) = Len(t),
         ToSet(u) = (ToSet(t) \ {t[x]}) \cup {e}
  PROVE  Ordena(Append(RemoveAt(s, k), e), u)
<1> DEFINE q == RemoveAt(s, k)
           r == Append(q, e)
           n == Len(s)
           viejo(j) == IF j < k THEN j ELSE j + 1
<1>1. /\ s \in Seq(Entrada) /\ n = Len(t) /\ n \in Nat
      /\ ToSet(s) = ToSet(t)
      /\ \A i \in 1..n : s[i] \in ToSet(t) /\ s[i] \in Entrada
      /\ \A i, j \in 1..n : i < j => s[i].tiempo < s[j].tiempo
  BY ElementosDe, ElementOfSeq DEF Ordena
<1>2. Distintos(s)
  <2>1. \A i \in 1..n : s[i].tiempo \in Nat
    BY <1>1 DEF Entrada
  <2>2. ASSUME NEW i \in 1..n, NEW j \in 1..n, s[i] = s[j] PROVE i = j
    <3>1. ~(i < j) /\ ~(j < i)
      BY <1>1, <2>1, <2>2
    <3>2. QED
      BY <1>1, <3>1
  <2>3. QED
    BY <2>2 DEF Distintos
<1>3. /\ q \in Seq(Entrada) /\ Len(q) = n - 1 /\ n > 0
      /\ ToSet(q) = ToSet(t) \ {t[x]}
  <2>0. /\ q \in Seq(Entrada) /\ Len(q) = n - 1 /\ n > 0
        /\ ToSet(s) = ToSet(q) \cup {s[k]}
        /\ Distintos(s) => Distintos(q) /\ s[k] \notin ToSet(q)
    <3>1. s \in Seq(Entrada)
      BY <1>1
    <3>2. QED
      BY <3>1, ElementosSinUno
  <2>1. s[k] \notin ToSet(q)
    BY <1>2, <2>0
  <2> HIDE DEF q
  <2>2. QED
    BY <1>1, <2>0, <2>1
<1>4. \A j \in 1..n - 1 : q[j] = s[viejo(j)]
  BY <1>1, SinElemento
<1>5. \A j \in 1..n - 1 : viejo(j) \in 1..n
  BY <1>1
<1>6. \A i, j \in 1..n - 1 : i < j => viejo(i) < viejo(j)
  BY <1>1
<1> HIDE DEF viejo, q, n
<1>7. /\ r \in Seq(Entrada) /\ Len(r) = n - 1 + 1
      /\ ToSet(r) = ToSet(q) \cup {e}
      /\ \A i \in 1..n - 1 : r[i] = q[i]
      /\ r[n - 1 + 1] = e
  BY <1>3, AppendProperties, ElementosConUnoMas
<1>8. n - 1 + 1 = n
  BY <1>1
<1> HIDE DEF r
<1>9. ASSUME NEW i \in 1..Len(r), NEW j \in 1..Len(r), i < j
      PROVE  r[i].tiempo < r[j].tiempo
  <2>1. i \in 1..n - 1 /\ (j \in 1..n - 1 \/ j = n)
    BY <1>1, <1>7, <1>8, <1>9
  <2>2. CASE j \in 1..n - 1
    BY <1>1, <1>4, <1>5, <1>6, <1>7, <1>9, <2>1, <2>2
  <2>3. CASE j = n
    BY <1>1, <1>4, <1>5, <1>7, <1>8, <2>1, <2>3
  <2>4. QED
    BY <2>1, <2>2, <2>3
<1>10. Len(r) = Len(u) /\ ToSet(r) = ToSet(u)
  BY <1>1, <1>3, <1>7, <1>8
<1>11. QED
  BY <1>7, <1>9, <1>10 DEF Ordena, r, q

(* Going round a list of n elements once. *)
LEMMA Vuelta ==
  ASSUME NEW n \in Nat, n > 0, NEW a \in Nat, a < n + n
  PROVE  a % n = IF a < n THEN a ELSE a - n
OBVIOUS

(* The pages in the order of FIFO, when the index of the list t is r. *)
Girada(t, r) == [i \in 1..Len(t) |-> clave(desde(t, r)[i])]

(* Where the i-th to leave is. *)
Lugar(i, r, n) == IF i + r <= n THEN i + r ELSE i + r - n

\* The rotation by its places.
LEMMA GiradaDe ==
  ASSUME NEW t \in Seq(Entrada), NEW r \in Nat, r = 0 \/ r < Len(t)
  PROVE  /\ Girada(t, r) \in Seq(Procesos \X Paginas)
         /\ Len(Girada(t, r)) = Len(t) /\ DOMAIN Girada(t, r) = 1..Len(t) /\ Len(t) \in Nat
         /\ \A i \in 1..Len(t) : /\ Lugar(i, r, Len(t)) \in 1..Len(t)
                                 /\ Girada(t, r)[i] = clave(t[Lugar(i, r, Len(t))])
<1> DEFINE n == Len(t)
           g == Girada(t, r)
<1>1. n \in Nat /\ (r = 0 \/ r < n) /\ \A i \in 1..n : t[i] \in Entrada
  BY LenProperties, ElementOfSeq
<1>2. ASSUME NEW i \in 1..n
      PROVE  /\ Lugar(i, r, n) \in 1..n
             /\ g[i] = clave(t[Lugar(i, r, n)])
  <2> HIDE DEF n
  <2>1. i - 1 + r \in Nat /\ i - 1 + r < n + n /\ n \in Nat /\ n > 0
    BY <1>1, <1>2
  <2>2. (i - 1 + r) % n = IF i - 1 + r < n THEN i - 1 + r ELSE i - 1 + r - n
    BY <2>1, Vuelta
  <2>3. ((i - 1 + r) % n) + 1 = Lugar(i, r, n) /\ Lugar(i, r, n) \in 1..n
    BY <1>1, <2>1, <2>2 DEF Lugar
  <2>4. g[i] = clave(t[((i - 1 + r) % n) + 1])
    BY <1>2 DEF Girada, desde, n
  <2>5. QED
    BY <2>3, <2>4
<1>3. \A i \in 1..n : clave(t[Lugar(i, r, n)]) \in Procesos \X Paginas
  <2>1. \A i \in 1..n : t[Lugar(i, r, n)] \in Entrada
    BY <1>1, <1>2
  <2>2. QED
    BY <2>1 DEF Entrada, clave
<1>4. g \in [1..n -> Procesos \X Paginas]
  BY <1>2, <1>3 DEF Girada
<1> HIDE DEF g
<1>5. g \in Seq(Procesos \X Paginas)
  BY <1>1, <1>4
<1>6. Len(g) = n /\ DOMAIN g = 1..n
  BY <1>1, <1>4, <1>5, LenProperties
<1>7. QED
  BY <1>1, <1>2, <1>5, <1>6 DEF g

(* A hit changes no page. *)
LEMMA GiradaIgual ==
  ASSUME NEW t \in Seq(Entrada), NEW u \in Seq(Entrada), Len(u) = Len(t),
         \A k \in 1..Len(t) : MismaPagina(u[k], t[k]),
         NEW r \in Nat, r = 0 \/ r < Len(t)
  PROVE  Girada(u, r) = Girada(t, r)
<1>1. \A i \in 1..Len(t) : /\ Lugar(i, r, Len(t)) \in 1..Len(t)
                           /\ Girada(t, r)[i] = clave(t[Lugar(i, r, Len(t))])
                           /\ Girada(u, r)[i] = clave(u[Lugar(i, r, Len(t))])
  BY GiradaDe
<1>2. \A k \in 1..Len(t) : clave(u[k]) = clave(t[k])
  BY DEF MismaPagina, clave
<1>3. /\ Girada(t, r) \in Seq(Procesos \X Paginas) /\ Len(Girada(t, r)) = Len(t)
      /\ Girada(u, r) \in Seq(Procesos \X Paginas) /\ Len(Girada(u, r)) = Len(t)
  BY GiradaDe
<1>4. \A i \in 1..Len(t) : Girada(u, r)[i] = Girada(t, r)[i]
  BY <1>1, <1>2
<1>5. QED
  BY <1>3, <1>4, SeqEqual

(* Every page of the list has its turn. *)
LEMMA GiradaTiene ==
  ASSUME NEW t \in Seq(Entrada), NEW r \in Nat, r = 0 \/ r < Len(t), NEW x \in 1..Len(t)
  PROVE  \E i \in 1..Len(t) : Girada(t, r)[i] = clave(t[x])
<1> DEFINE n == Len(t)
           i == IF x > r THEN x - r ELSE x - r + n
<1>1. n \in Nat
  BY LenProperties
<1> HIDE DEF n
<1>2. i \in 1..n /\ Lugar(i, r, n) = x
  BY <1>1 DEF Lugar, n
<1> HIDE DEF i
<1>3. Girada(t, r)[i] = clave(t[Lugar(i, r, n)])
  BY <1>2, GiradaDe DEF n
<1>4. QED
  BY <1>2, <1>3 DEF n

(* While there is room the index is at the first entry and the new one is  *)
(* the last.                                                               *)
LEMMA GiradaAlEntrar ==
  ASSUME NEW t \in Seq(Entrada), NEW e \in Entrada
  PROVE  Girada(Append(t, e), 0) = Append(Girada(t, 0), clave(e))
<1> DEFINE u == Append(t, e)
           n == Len(t)
           g == Girada(t, 0)
           h == Girada(u, 0)
<1>1. /\ u \in Seq(Entrada) /\ Len(u) = n + 1
      /\ \A i \in 1..n : u[i] = t[i]
      /\ u[n + 1] = e
  BY AppendProperties
<1>2. /\ g \in Seq(Procesos \X Paginas) /\ Len(g) = n /\ n \in Nat
      /\ \A i \in 1..n : g[i] = clave(t[Lugar(i, 0, n)])
  BY GiradaDe
<1>3. /\ h \in Seq(Procesos \X Paginas) /\ Len(h) = n + 1
      /\ \A i \in 1..n + 1 : h[i] = clave(u[Lugar(i, 0, n + 1)])
  <2>1. /\ h \in Seq(Procesos \X Paginas) /\ Len(h) = Len(u)
        /\ \A i \in 1..Len(u) : h[i] = clave(u[Lugar(i, 0, Len(u))])
    BY <1>1, GiradaDe
  <2>2. QED
    BY <1>1, <2>1
<1> HIDE DEF u, g, h, n
<1>4. /\ \A i \in 1..n : Lugar(i, 0, n) = i
      /\ \A i \in 1..n + 1 : Lugar(i, 0, n + 1) = i
  BY <1>2 DEF Lugar
<1>5. clave(e) \in Procesos \X Paginas
  BY DEF Entrada, clave
<1>6. /\ Append(g, clave(e)) \in Seq(Procesos \X Paginas)
      /\ Len(Append(g, clave(e))) = n + 1
      /\ \A i \in 1..n : Append(g, clave(e))[i] = g[i]
      /\ Append(g, clave(e))[n + 1] = clave(e)
  BY <1>2, <1>5, AppendProperties
<1>7. ASSUME NEW i \in 1..n + 1 PROVE h[i] = Append(g, clave(e))[i]
  <2>1. CASE i \in 1..n
    <3>1. i \in 1..n + 1
      BY <1>2, <2>1
    <3>2. h[i] = clave(u[i]) /\ g[i] = clave(t[i])
      BY <1>2, <1>3, <1>4, <2>1, <3>1
    <3>3. QED
      BY <1>1, <1>6, <2>1, <3>2
  <2>2. CASE i = n + 1
    BY <1>1, <1>2, <1>3, <1>4, <1>6, <2>2
  <2>3. QED
    BY <1>2, <2>1, <2>2
<1>8. h = Append(g, clave(e))
  BY <1>3, <1>6, <1>7, SeqEqual
<1>9. QED
  BY <1>8 DEF u, g, h

(* When there is none the entry at the index, the first to leave, goes:    *)
(* the new one takes its place and, as the index advances, is the last.    *)
LEMMA GiradaAlReemplazar ==
  ASSUME NEW t \in Seq(Entrada), NEW e \in Entrada, NEW r \in 0..Len(t) - 1
  PROVE  /\ Girada([t EXCEPT ![r + 1] = e], (r + 1) % Len(t))
              = Append(Tail(Girada(t, r)), clave(e))
         /\ (r + 1) % Len(t) \in 0..Len(t) - 1
<1> DEFINE n == Len(t)
           u == [t EXCEPT ![r + 1] = e]
           q == (r + 1) % n
           g == Girada(t, r)
           h == Girada(u, q)
           f == Append(Tail(g), clave(e))
<1>1. n \in Nat \ {0} /\ r + 1 \in 1..n /\ r \in Nat /\ r < n
  BY LenProperties
<1>2. u \in Seq(Entrada) /\ Len(u) = n /\ \A j \in 1..n : u[j] = IF j = r + 1 THEN e ELSE t[j]
  BY <1>1, ExceptSeq
<1>3. q = IF r + 1 < n THEN r + 1 ELSE 0
  <2> HIDE DEF n
  <2>1. r + 1 \in Nat /\ r + 1 < n + n /\ n \in Nat /\ n > 0
    BY <1>1
  <2>2. (r + 1) % n = IF r + 1 < n THEN r + 1 ELSE r + 1 - n
    BY <2>1, Vuelta
  <2>3. QED
    BY <1>1, <2>2
<1>4. /\ g \in Seq(Procesos \X Paginas) /\ Len(g) = n
      /\ \A i \in 1..n : Lugar(i, r, n) \in 1..n /\ g[i] = clave(t[Lugar(i, r, n)])
  BY <1>1, GiradaDe
<1> HIDE DEF q, u
<1>5. q \in 0..n - 1 /\ q \in Nat /\ q < n
  BY <1>1, <1>3
<1>6. /\ h \in Seq(Procesos \X Paginas) /\ Len(h) = n
      /\ \A i \in 1..n : Lugar(i, q, n) \in 1..n /\ h[i] = clave(u[Lugar(i, q, n)])
  BY <1>2, <1>5, GiradaDe
<1>7. clave(e) \in Procesos \X Paginas
  BY DEF Entrada, clave
<1> HIDE DEF n, g, h
<1>8. /\ Tail(g) \in Seq(Procesos \X Paginas) /\ Len(Tail(g)) = n - 1
      /\ \A i \in 1..n - 1 : Tail(g)[i] = g[i + 1]
  <2>1. g # <<>>
    BY <1>1, <1>4, EmptySeq
  <2>2. QED
    BY <1>4, <2>1, HeadTailProperties
<1>9. /\ f \in Seq(Procesos \X Paginas) /\ Len(f) = n
      /\ \A i \in 1..n - 1 : f[i] = g[i + 1]
      /\ f[n] = clave(e)
  <2>1. /\ f \in Seq(Procesos \X Paginas) /\ Len(f) = n - 1 + 1
        /\ \A i \in 1..n - 1 : f[i] = Tail(g)[i]
        /\ f[n - 1 + 1] = clave(e)
    BY <1>7, <1>8, AppendProperties
  <2>2. n - 1 + 1 = n
    BY <1>1
  <2>3. QED
    BY <1>8, <2>1, <2>2
<1> HIDE DEF f
<1>10. ASSUME NEW i \in 1..n PROVE h[i] = f[i]
  <2>1. CASE i = n
    <3>1. Lugar(n, q, n) = r + 1
      BY <1>1, <1>3 DEF Lugar
    <3>2. QED
      BY <1>1, <1>2, <1>6, <1>9, <2>1, <3>1
  <2>2. CASE i \in 1..n - 1
    <3>1. Lugar(i, q, n) = Lugar(i + 1, r, n) /\ Lugar(i, q, n) # r + 1 /\ i + 1 \in 1..n
      BY <1>1, <1>3, <2>2 DEF Lugar
    <3>2. u[Lugar(i, q, n)] = t[Lugar(i, q, n)]
      BY <1>2, <1>6, <3>1
    <3>3. h[i] = clave(u[Lugar(i, q, n)]) /\ f[i] = g[i + 1]
      BY <1>1, <1>6, <1>9, <2>2
    <3>4. g[i + 1] = clave(t[Lugar(i + 1, r, n)])
      BY <1>4, <3>1
    <3>5. QED
      BY <3>1, <3>2, <3>3, <3>4
  <2>3. QED
    BY <1>1, <2>1, <2>2
<1>11. h = f
  BY <1>6, <1>9, <1>10, SeqEqual
<1>12. QED
  BY <1>5, <1>11 DEF h, f, g, u, q, n

(* Two entries of one page. *)
LEMMA MismaClave ==
  ASSUME NEW e, NEW d
  PROVE  clave(e) = clave(d) <=> MismaPagina(e, d)
BY DEF clave, MismaPagina

(* The times of the entries are past, the index of FIFO only moves when    *)
(* the list is full, and under LRU there is an order of the entries.       *)
Tiempos ==
  /\ \A e \in ToSet(entradas) : e.tiempo < tiempo_actual
  /\ Len(entradas) < CantidadEntradas => reemplazar_fifo = 0
  /\ ALGORITMO_TLB = "LRU" => \E s : Ordena(s, entradas)

InvCache == InvTlb /\ Tiempos

(* FIFO: the pages from the index on, round the list. *)
LEMMA SalidaFifo ==
  ALGORITMO_TLB = "FIFO" => OrdenDeSalida = Girada(entradas, reemplazar_fifo)
BY DEF OrdenDeSalida, Girada

\* LRU: the pages of the list that has the entries in the order of their times.
LEMMA SalidaLru ==
  ASSUME NEW t \in Seq(Entrada), NEW s, Ordena(s, t)
  PROVE  [i \in 1..Len(t) |-> clave(por_tiempo(t)[i])] = Claves(s)
<1>1. por_tiempo(t) = s /\ Len(s) = Len(t)
  BY PorTiempoEs DEF Ordena
<1>2. QED
  BY <1>1 DEF Claves

(* A hit: the entry of the page gets the current time. *)
LEMMA EntradaAcertada ==
  ASSUME InvTlb, NEW p \in Procesos, NEW pag \in Paginas, consultar_tlb(p, pag)
  PROVE  \E x \in 1..Len(entradas), e \in Entrada :
           /\ clave(entradas[x]) = <<p, pag>> /\ clave(e) = <<p, pag>>
           /\ e.tiempo = tiempo_actual
           /\ entradas' = [entradas EXCEPT ![x] = e]
<1> DEFINE x == CHOOSE i \in esta_la_pagina(p, pag) : \A j \in esta_la_pagina(p, pag) : i <= j
           e == [entradas[x] EXCEPT !.tiempo = tiempo_actual]
<1>1. entradas' = [entradas EXCEPT ![x] = e] /\ esta_la_pagina(p, pag) # {}
  BY DEF consultar_tlb
<1>2. PICK y \in 1..Len(entradas) : entradas[y].pid = p /\ entradas[y].pagina = pag
  BY <1>1, LenProperties DEF esta_la_pagina, InvTlb, TypeOKTlb
<1>3. esta_la_pagina(p, pag) = {y}
  BY <1>2, LenProperties DEF esta_la_pagina, InvTlb, TypeOKTlb, SinRepetidas
<1>4. x = y
  <2>1. y \in Nat /\ y <= y
    BY <1>2, LenProperties DEF InvTlb, TypeOKTlb
  <2>2. QED
    BY <1>3, <2>1
<1> HIDE DEF x
<1>5. entradas[y] \in Entrada /\ tiempo_actual \in Nat
  BY <1>2, ElementOfSeq, TlbAssumption DEF InvTlb, TypeOKTlb
<1>6. e \in Entrada /\ clave(e) = <<p, pag>> /\ e.tiempo = tiempo_actual
  BY <1>2, <1>4, <1>5 DEF Entrada, clave
<1>7. QED
  BY <1>1, <1>2, <1>4, <1>6 DEF clave

(* The entries of a list in which one takes the place of another. *)
LEMMA ElementosConOtro ==
  ASSUME NEW S, NEW t \in Seq(S), Distintos(t), NEW x \in 1..Len(t), NEW e \in S
  PROVE  /\ [t EXCEPT ![x] = e] \in Seq(S) /\ Len([t EXCEPT ![x] = e]) = Len(t)
         /\ ToSet([t EXCEPT ![x] = e]) = (ToSet(t) \ {t[x]}) \cup {e}
<1> DEFINE u == [t EXCEPT ![x] = e]
<1>1. /\ u \in Seq(S) /\ Len(u) = Len(t)
      /\ \A j \in 1..Len(t) : u[j] = IF j = x THEN e ELSE t[j]
  BY ExceptSeq
<1> HIDE DEF u
<1>2. /\ ToSet(u) = {u[i] : i \in 1..Len(t)}
      /\ ToSet(t) = {t[i] : i \in 1..Len(t)}
  BY <1>1, ElementosDe
<1>3. ASSUME NEW y PROVE y \in ToSet(u) <=> y \in (ToSet(t) \ {t[x]}) \cup {e}
  <2>1. ASSUME y \in ToSet(u) PROVE y \in (ToSet(t) \ {t[x]}) \cup {e}
    <3>1. PICK i \in 1..Len(t) : y = u[i]
      BY <1>2, <2>1
    <3>2. CASE i = x
      BY <1>1, <3>1, <3>2
    <3>3. CASE i # x
      <4>1. y = t[i] /\ t[i] # t[x]
        BY <1>1, <3>1, <3>3 DEF Distintos
      <4>2. QED
        BY <1>2, <4>1
    <3>4. QED
      BY <3>2, <3>3
  <2>2. ASSUME y \in ToSet(t), y # t[x] PROVE y \in ToSet(u)
    <3>1. PICK i \in 1..Len(t) : y = t[i]
      BY <1>2, <2>2
    <3>2. u[i] = y
      BY <1>1, <2>2, <3>1
    <3>3. QED
      BY <1>2, <3>2
  <2>3. e \in ToSet(u)
    BY <1>1, <1>2
  <2>4. QED
    BY <2>1, <2>2, <2>3
<1>4. QED
  BY <1>1, <1>3 DEF u

(* Entries of different pages are different. *)
LEMMA UnicasSonDistintas ==
  ASSUME NEW s, Unicas(s)
  PROVE  Distintos(s)
BY DEF Unicas, Distintos, MismaPagina

(* What a hit leaves, and the hit of the abstract cache. *)
LEMMA CacheAlAcertar ==
  ASSUME InvCache, NEW p \in Procesos, NEW pag \in Paginas, consultar_tlb(p, pag),
         ALGORITMO_TLB' = ALGORITMO_TLB
  PROVE  Tiempos' /\ Abstracta!Acierto(<<p, pag>>)
<1>1. /\ entradas \in Seq(Entrada) /\ Len(entradas) \in Nat /\ tiempo_actual \in Nat
      /\ reemplazar_fifo \in Nat /\ CantidadEntradas \in Nat
      /\ Len(entradas) <= CantidadEntradas /\ reemplazar_fifo < CantidadEntradas
      /\ ALGORITMO_TLB \in {"FIFO", "LRU"}
  BY LenProperties, TlbAssumption DEF InvCache, InvTlb, TypeOKTlb
<1>2. /\ \A d \in ToSet(entradas) : d.tiempo < tiempo_actual
      /\ reemplazar_fifo = 0 \/ reemplazar_fifo < Len(entradas)
  BY <1>1 DEF InvCache, Tiempos
<1>3. Unicas(entradas) /\ Distintos(entradas)
  BY SinRepetidasEsUnicas, UnicasSonDistintas DEF InvCache, InvTlb
<1>4. PICK x \in 1..Len(entradas), e \in Entrada :
        /\ clave(entradas[x]) = <<p, pag>> /\ clave(e) = <<p, pag>>
        /\ e.tiempo = tiempo_actual
        /\ entradas' = [entradas EXCEPT ![x] = e]
  BY EntradaAcertada DEF InvCache
<1>5. /\ entradas' \in Seq(Entrada) /\ Len(entradas') = Len(entradas)
      /\ ToSet(entradas') = (ToSet(entradas) \ {entradas[x]}) \cup {e}
  <2> DEFINE u == [entradas EXCEPT ![x] = e]
  <2>1. /\ u \in Seq(Entrada) /\ Len(u) = Len(entradas)
        /\ ToSet(u) = (ToSet(entradas) \ {entradas[x]}) \cup {e}
    BY <1>1, <1>3, ElementosConOtro
  <2> HIDE DEF u
  <2>2. entradas' = u
    BY <1>4 DEF u
  <2>3. QED
    BY <2>1, <2>2
<1>6. tiempo_actual' = tiempo_actual + 1 /\ reemplazar_fifo' = reemplazar_fifo
  BY DEF consultar_tlb, avanza_tiempo
<1>7. \A d \in ToSet(entradas') : d.tiempo < tiempo_actual'
  <2>1. \A d \in ToSet(entradas) : d.tiempo \in Nat
    <3>1. ToSet(entradas) \subseteq Entrada
      BY <1>1, ElementosDe
    <3>2. QED
      BY <3>1 DEF Entrada
  <2>2. QED
    BY <1>1, <1>2, <1>4, <1>5, <1>6, <2>1
<1>8. ASSUME NEW s, ALGORITMO_TLB = "LRU", Ordena(s, entradas)
      PROVE  (\E r : Ordena(r, entradas)') /\ Abstracta!Acierto(<<p, pag>>)
  <2>1. s \in Seq(Entrada) /\ ToSet(s) = ToSet(entradas)
    BY <1>8 DEF Ordena
  <2>2. PICK k \in 1..Len(s) : s[k] = entradas[x]
    <3>1. entradas[x] \in ToSet(entradas)
      BY <1>1, <1>4, ElementosDe
    <3>2. ToSet(s) = {s[i] : i \in 1..Len(s)}
      BY <2>1, ElementosDe
    <3>3. QED
      BY <2>1, <3>1, <3>2
  <2> DEFINE r == Append(RemoveAt(s, k), e)
  <2>3. Ordena(r, entradas')
    BY <1>1, <1>2, <1>3, <1>4, <1>5, <1>8, <2>2, OrdenaAlCambiar
  <2>4. OrdenDeSalida = Claves(s)
    BY <1>1, <1>8, SalidaLru DEF OrdenDeSalida
  <2>5. OrdenDeSalida' = Claves(r)
    BY <1>5, <1>8, <2>3, SalidaLru DEF OrdenDeSalida
  <2>6. Claves(r) = Append(RemoveAt(Claves(s), k), <<p, pag>>)
    BY <1>4, <2>1, <2>2, SinElemento, ClavesConUna, ClavesSinUna
  <2>7. k \in DOMAIN Claves(s) /\ Claves(s)[k] = <<p, pag>>
    BY <1>4, <2>1, <2>2, ClavesDe
  <2>8. QED
    <3>1. OrdenDeSalida' = Append(Abstracta!RemoveAt(OrdenDeSalida, k), <<p, pag>>)
      BY <2>4, <2>5, <2>6 DEF Abstracta!RemoveAt, RemoveAt
    <3>2. k \in DOMAIN OrdenDeSalida /\ OrdenDeSalida[k] = <<p, pag>>
      BY <2>4, <2>7
    <3>3. Abstracta!Acierto(<<p, pag>>)
      BY <1>8, <3>1, <3>2 DEF Abstracta!Acierto
    <3>4. QED
      BY <2>3, <3>3
<1>9. ASSUME ALGORITMO_TLB = "FIFO"
      PROVE  Abstracta!Acierto(<<p, pag>>)
  <2>1. OrdenDeSalida = Girada(entradas, reemplazar_fifo)
    BY <1>9, SalidaFifo
  <2>2. OrdenDeSalida' = Girada(entradas', reemplazar_fifo)
    BY <1>6, <1>9 DEF OrdenDeSalida, Girada
  <2>3. \A k \in 1..Len(entradas) : MismaPagina(entradas'[k], entradas[k])
    BY TrasConsultar DEF InvCache, InvTlb
  <2>4. OrdenDeSalida' = OrdenDeSalida
    <3>1. Girada(entradas', reemplazar_fifo) = Girada(entradas, reemplazar_fifo)
      BY <1>1, <1>2, <1>5, <2>3, GiradaIgual
    <3>2. QED
      BY <2>1, <2>2, <3>1
  <2>5. PICK i \in 1..Len(entradas) : Girada(entradas, reemplazar_fifo)[i] = <<p, pag>>
    <3>1. PICK i \in 1..Len(entradas) :
            Girada(entradas, reemplazar_fifo)[i] = clave(entradas[x])
      BY <1>1, <1>2, GiradaTiene
    <3>2. QED
      BY <1>4, <3>1
  <2>6. i \in DOMAIN Girada(entradas, reemplazar_fifo)
    BY <1>1, <1>2, <2>5, GiradaDe
  <2>7. QED
    BY <1>9, <2>1, <2>4, <2>5, <2>6 DEF Abstracta!Acierto
<1>10. Len(entradas') < CantidadEntradas => reemplazar_fifo' = 0
  BY <1>5, <1>6 DEF InvCache, Tiempos
<1>11. CASE ALGORITMO_TLB = "LRU"
  <2>1. PICK s : Ordena(s, entradas)
    BY <1>11 DEF InvCache, Tiempos
  <2>2. QED
    BY <1>7, <1>8, <1>10, <1>11, <2>1 DEF Tiempos
<1>12. CASE ALGORITMO_TLB = "FIFO"
  BY <1>7, <1>9, <1>10, <1>12 DEF Tiempos
<1>13. QED
  BY <1>1, <1>11, <1>12

(* The first of the list under LRU has the oldest time. *)
LEMMA PrimeroEsElMasViejo ==
  ASSUME NEW t \in Seq(Entrada), NEW s, Ordena(s, t), NEW i \in 1..Len(t),
         \A j \in 1..Len(t) : t[i].tiempo <= t[j].tiempo
  PROVE  s # <<>> /\ 1 \in 1..Len(s) /\ s[1] = t[i]
<1>1. /\ s \in Seq(Entrada) /\ Len(s) \in Nat /\ ToSet(s) = ToSet(t)
      /\ ToSet(s) = {s[j] : j \in 1..Len(s)} /\ ToSet(t) = {t[j] : j \in 1..Len(t)}
      /\ \A j, k \in 1..Len(s) : j < k => s[j].tiempo < s[k].tiempo
  BY ElementosDe DEF Ordena
<1>2. PICK k \in 1..Len(s) : s[k] = t[i]
  BY <1>1
<1>3. 1 \in 1..Len(s) /\ s # <<>>
  BY <1>1, <1>2, EmptySeq
<1>4. PICK j \in 1..Len(t) : t[j] = s[1]
  BY <1>1, <1>3
<1>5. s[1] \in Entrada /\ s[k] \in Entrada
  BY <1>1, <1>3, ElementOfSeq
<1>6. s[1].tiempo \in Nat /\ s[k].tiempo \in Nat /\ s[k].tiempo <= s[1].tiempo
  BY <1>2, <1>4, <1>5 DEF Entrada
<1>7. ~(1 < k)
  BY <1>1, <1>3, <1>6
<1>8. k = 1
  BY <1>1, <1>7
<1>9. QED
  BY <1>2, <1>3, <1>8

(* What is in the order of replacement is in the list. *)
LEMMA AusenteDeLaSalida ==
  ASSUME NEW t \in Seq(Entrada), NEW e, Falta(e, t)
  PROVE  /\ \A r \in Nat : r = 0 \/ r < Len(t) => clave(e) \notin ToSet(Girada(t, r))
         /\ \A s : Ordena(s, t) => clave(e) \notin ToSet(Claves(s))
<1>1. \A i \in 1..Len(t) : clave(t[i]) # clave(e)
  BY MismaClave DEF Falta
<1>2. ASSUME NEW r \in Nat, r = 0 \/ r < Len(t)
      PROVE  clave(e) \notin ToSet(Girada(t, r))
  <2>1. /\ Girada(t, r) \in Seq(Procesos \X Paginas) /\ Len(Girada(t, r)) = Len(t)
        /\ \A i \in 1..Len(t) : /\ Lugar(i, r, Len(t)) \in 1..Len(t)
                                /\ Girada(t, r)[i] = clave(t[Lugar(i, r, Len(t))])
    BY <1>2, GiradaDe
  <2>2. ToSet(Girada(t, r)) = {Girada(t, r)[i] : i \in 1..Len(t)}
    BY <2>1, ElementosDe
  <2>3. QED
    BY <1>1, <2>1, <2>2
<1>3. ASSUME NEW s, Ordena(s, t)
      PROVE  clave(e) \notin ToSet(Claves(s))
  <2>1. s \in Seq(Entrada) /\ ToSet(s) = ToSet(t)
    BY <1>3 DEF Ordena
  <2>2. /\ ToSet(s) = {s[i] : i \in 1..Len(s)}
        /\ ToSet(t) = {t[i] : i \in 1..Len(t)}
    BY <2>1, ElementosDe
  <2>3. /\ Claves(s) \in Seq(Procesos \X Paginas) /\ Len(Claves(s)) = Len(s)
        /\ \A i \in 1..Len(s) : Claves(s)[i] = clave(s[i])
    BY <2>1, ClavesDe
  <2>4. ToSet(Claves(s)) = {Claves(s)[i] : i \in 1..Len(s)}
    BY <2>3, ElementosDe
  <2>5. \A i \in 1..Len(s) : s[i] \in ToSet(t)
    BY <2>1, <2>2
  <2>6. \A i \in 1..Len(s) : clave(s[i]) # clave(e)
    BY <1>1, <2>2, <2>5
  <2>7. QED
    BY <2>3, <2>4, <2>6
<1>4. QED
  BY <1>2, <1>3

(* What a miss leaves, and the miss of the abstract cache. *)
LEMMA CacheAlFallar ==
  ASSUME InvCache, NEW p \in Procesos, NEW pag \in Paginas, NEW f \in Frames,
         agregar_entrada_tlb(p, pag, f), ALGORITMO_TLB' = ALGORITMO_TLB
  PROVE  Tiempos' /\ Abstracta!Fallo(<<p, pag>>)
<1> DEFINE e == nuevo(p, pag, f)
           n == Len(entradas)
<1>1. /\ entradas \in Seq(Entrada) /\ n \in Nat /\ tiempo_actual \in Nat
      /\ reemplazar_fifo \in Nat /\ CantidadEntradas \in Nat \ {0}
      /\ n <= CantidadEntradas /\ reemplazar_fifo < CantidadEntradas
      /\ ALGORITMO_TLB \in {"FIFO", "LRU"}
  BY LenProperties, TlbAssumption DEF InvCache, InvTlb, TypeOKTlb
<1>2. /\ \A d \in ToSet(entradas) : d.tiempo < tiempo_actual
      /\ reemplazar_fifo = 0 \/ reemplazar_fifo < n
      /\ n < CantidadEntradas => reemplazar_fifo = 0
  BY <1>1 DEF InvCache, Tiempos
<1>3. Unicas(entradas) /\ Distintos(entradas)
  BY SinRepetidasEsUnicas, UnicasSonDistintas DEF InvCache, InvTlb
<1>4. /\ e \in Entrada /\ Falta(e, entradas)
      /\ \/ /\ n < CantidadEntradas
            /\ entradas' = Append(entradas, e)
            /\ reemplazar_fifo' = reemplazar_fifo
         \/ /\ n = CantidadEntradas
            /\ reemplazar_por_fifo(e) \/ reemplazar_lru(e)
  BY TrasAgregar DEF InvCache, InvTlb
<1>5. clave(e) = <<p, pag>> /\ e.tiempo = tiempo_actual
  BY DEF nuevo, clave
<1>6. tiempo_actual' = tiempo_actual + 1
  BY DEF agregar_entrada_tlb, avanza_tiempo
<1> HIDE DEF e
<1>7. ASSUME entradas' \in Seq(Entrada), ToSet(entradas') \subseteq ToSet(entradas) \cup {e}
      PROVE  \A d \in ToSet(entradas') : d.tiempo < tiempo_actual'
  <2>1. ToSet(entradas) \subseteq Entrada
    BY <1>1, ElementosDe
  <2>2. \A d \in ToSet(entradas) : d.tiempo \in Nat
    BY <2>1 DEF Entrada
  <2>3. QED
    BY <1>1, <1>2, <1>5, <1>6, <1>7, <2>2
<1>8. ALGORITMO_TLB = "LRU" => \E s : Ordena(s, entradas)
  BY DEF InvCache, Tiempos
<1>9. /\ ALGORITMO_TLB = "FIFO" =>
           /\ OrdenDeSalida = Girada(entradas, reemplazar_fifo)
           /\ OrdenDeSalida' = Girada(entradas', reemplazar_fifo')
           /\ clave(e) \notin ToSet(OrdenDeSalida)
      /\ ALGORITMO_TLB = "LRU" => \A s : Ordena(s, entradas) =>
           /\ OrdenDeSalida = Claves(s)
           /\ clave(e) \notin ToSet(OrdenDeSalida)
  <2>1. /\ \A r \in Nat : r = 0 \/ r < n => clave(e) \notin ToSet(Girada(entradas, r))
        /\ \A s : Ordena(s, entradas) => clave(e) \notin ToSet(Claves(s))
    BY <1>1, <1>4, AusenteDeLaSalida
  <2>2. CASE ALGORITMO_TLB = "FIFO"
    <3>1. OrdenDeSalida' = Girada(entradas', reemplazar_fifo')
      BY <2>2 DEF OrdenDeSalida, Girada
    <3>2. QED
      BY <1>1, <1>2, <2>1, <2>2, <3>1, SalidaFifo
  <2>3. CASE ALGORITMO_TLB = "LRU"
    <3>1. ASSUME NEW s, Ordena(s, entradas) PROVE OrdenDeSalida = Claves(s)
      BY <1>1, <2>3, <3>1, SalidaLru DEF OrdenDeSalida
    <3>2. QED
      BY <2>1, <2>3, <3>1
  <2>4. QED
    BY <1>1, <2>2, <2>3
<1>10. ASSUME NEW s, ALGORITMO_TLB = "LRU", entradas' \in Seq(Entrada), Ordena(s, entradas')
       PROVE  OrdenDeSalida' = Claves(s)
  BY <1>10, SalidaLru DEF OrdenDeSalida
<1>11. CASE /\ n < CantidadEntradas
            /\ entradas' = Append(entradas, e)
            /\ reemplazar_fifo' = reemplazar_fifo
  <2>1. /\ entradas' \in Seq(Entrada) /\ Len(entradas') = n + 1
        /\ ToSet(entradas') = ToSet(entradas) \cup {e}
    BY <1>1, <1>4, <1>11, ElementosConUnoMas
  <2>2. \A d \in ToSet(entradas') : d.tiempo < tiempo_actual'
    BY <1>7, <2>1
  <2>3. reemplazar_fifo' = 0 /\ reemplazar_fifo = 0
    BY <1>2, <1>11
  <2>4. CASE ALGORITMO_TLB = "FIFO"
    <3>1. OrdenDeSalida' = Append(OrdenDeSalida, clave(e)) /\ Len(OrdenDeSalida) = n
      <4>1. Girada(Append(entradas, e), 0) = Append(Girada(entradas, 0), clave(e))
        BY <1>1, <1>4, GiradaAlEntrar
      <4>2. Len(Girada(entradas, 0)) = n
        BY <1>1, GiradaDe
      <4>3. QED
        BY <1>9, <1>11, <2>3, <2>4, <4>1, <4>2
    <3>2. Abstracta!Fallo(<<p, pag>>)
      BY <1>5, <1>9, <1>11, <2>4, <3>1
         DEF Abstracta!Fallo, Abstracta!Presente, Abstracta!ToSet, ToSet
    <3>3. QED
      BY <2>2, <2>3, <2>4, <3>2 DEF Tiempos
  <2>5. CASE ALGORITMO_TLB = "LRU"
    <3>1. PICK s : Ordena(s, entradas)
      BY <1>8, <2>5
    <3>2. s \in Seq(Entrada) /\ Len(s) = n
      BY <3>1 DEF Ordena
    <3>3. Ordena(Append(s, e), entradas')
      BY <1>1, <1>2, <1>4, <1>5, <1>11, <3>1, OrdenaAlEntrar
    <3>4. /\ OrdenDeSalida' = Append(OrdenDeSalida, clave(e))
          /\ Len(OrdenDeSalida) = n
      <4>1. OrdenDeSalida' = Claves(Append(s, e)) /\ OrdenDeSalida = Claves(s)
        BY <1>9, <1>10, <2>1, <2>5, <3>1, <3>3
      <4>2. Claves(Append(s, e)) = Append(Claves(s), clave(e)) /\ Len(Claves(s)) = Len(s)
        BY <1>4, <3>2, ClavesConUna, ClavesDe
      <4>3. QED
        BY <3>2, <4>1, <4>2
    <3>5. clave(e) \notin ToSet(OrdenDeSalida)
      BY <1>9, <2>5, <3>1
    <3>6. Abstracta!Fallo(<<p, pag>>)
      BY <1>5, <1>11, <3>4, <3>5
         DEF Abstracta!Fallo, Abstracta!Presente, Abstracta!ToSet, ToSet
    <3>7. QED
      BY <2>2, <2>3, <3>3, <3>6 DEF Tiempos
  <2>6. QED
    BY <1>1, <2>4, <2>5
<1>12. CASE n = CantidadEntradas /\ reemplazar_por_fifo(e)
  <2> DEFINE u == [entradas EXCEPT ![reemplazar_fifo + 1] = e]
             q == (reemplazar_fifo + 1) % n
  <2>1. entradas' = u /\ reemplazar_fifo' = q /\ ALGORITMO_TLB = "FIFO"
    BY <1>12 DEF reemplazar_por_fifo
  <2>2. reemplazar_fifo \in 0..n - 1 /\ reemplazar_fifo + 1 \in 1..n
    BY <1>1, <1>12
  <2>3. Girada(u, q) = Append(Tail(Girada(entradas, reemplazar_fifo)), clave(e))
    BY <1>1, <1>4, <2>2, GiradaAlReemplazar
  <2>4. /\ u \in Seq(Entrada) /\ Len(u) = n
        /\ ToSet(u) = (ToSet(entradas) \ {entradas[reemplazar_fifo + 1]}) \cup {e}
    BY <1>1, <1>3, <1>4, <2>2, ElementosConOtro
  <2>5. Len(Girada(entradas, reemplazar_fifo)) = n
    BY <1>1, <1>2, GiradaDe
  <2> HIDE DEF u, q
  <2>6. OrdenDeSalida' = Append(Tail(OrdenDeSalida), clave(e)) /\ Len(OrdenDeSalida) = n
    BY <1>9, <2>1, <2>3, <2>5
  <2>7. clave(e) \notin ToSet(OrdenDeSalida)
    BY <1>9, <2>1
  <2>8. Abstracta!Fallo(<<p, pag>>)
    BY <1>1, <1>5, <1>12, <2>6, <2>7
       DEF Abstracta!Fallo, Abstracta!Presente, Abstracta!ToSet, ToSet
  <2>9. \A d \in ToSet(entradas') : d.tiempo < tiempo_actual'
    BY <1>7, <2>1, <2>4
  <2>10. Len(entradas') = CantidadEntradas
    BY <1>12, <2>1, <2>4
  <2>11. QED
    BY <1>1, <2>1, <2>8, <2>9, <2>10 DEF Tiempos
<1>13. CASE n = CantidadEntradas /\ reemplazar_lru(e)
  <2>1. PICK i \in 1..n :
          /\ \A j \in 1..n : entradas[i].tiempo <= entradas[j].tiempo
          /\ entradas' = Append(RemoveAt(entradas, i), e)
    BY <1>1, <1>13, LenProperties DEF reemplazar_lru
  <2>2. ALGORITMO_TLB = "LRU" /\ reemplazar_fifo' = reemplazar_fifo
    BY <1>13 DEF reemplazar_lru
  <2>3. PICK s : Ordena(s, entradas)
    BY <1>8, <2>2
  <2>4. s # <<>> /\ 1 \in 1..Len(s) /\ s[1] = entradas[i]
    BY <1>1, <2>1, <2>3, PrimeroEsElMasViejo
  <2>5. s \in Seq(Entrada) /\ Len(s) = n
    BY <2>3 DEF Ordena
  <2> DEFINE q == RemoveAt(entradas, i)
  <2>6. /\ q \in Seq(Entrada) /\ Len(q) = n - 1
        /\ ToSet(q) = ToSet(entradas) \ {entradas[i]}
    <3>1. /\ q \in Seq(Entrada) /\ Len(q) = n - 1
          /\ ToSet(entradas) = ToSet(q) \cup {entradas[i]}
          /\ Distintos(entradas) => Distintos(q) /\ entradas[i] \notin ToSet(q)
      BY <1>1, <2>1, ElementosSinUno
    <3> HIDE DEF q
    <3>2. QED
      BY <1>3, <3>1
  <2>7. /\ entradas' \in Seq(Entrada) /\ Len(entradas') = n
        /\ ToSet(entradas') = (ToSet(entradas) \ {entradas[i]}) \cup {e}
    <3> HIDE DEF q
    <3>1. /\ Append(q, e) \in Seq(Entrada) /\ Len(Append(q, e)) = n - 1 + 1
          /\ ToSet(Append(q, e)) = ToSet(q) \cup {e}
      BY <1>4, <2>6, ElementosConUnoMas
    <3>2. entradas' = Append(q, e)
      BY <2>1 DEF q
    <3>3. QED
      BY <1>1, <2>6, <3>1, <3>2
  <2> DEFINE r == Append(RemoveAt(s, 1), e)
  <2>8. Ordena(r, entradas')
    BY <1>1, <1>2, <1>3, <1>4, <1>5, <2>1, <2>3, <2>4, <2>7, OrdenaAlCambiar
  <2>9. OrdenDeSalida' = Claves(r) /\ OrdenDeSalida = Claves(s)
    BY <1>9, <1>10, <2>2, <2>3, <2>7, <2>8
  <2>10. Claves(r) = Append(Tail(Claves(s)), clave(e)) /\ Len(Claves(s)) = n
    <3>1. /\ Claves(s) \in Seq(Procesos \X Paginas) /\ Len(Claves(s)) = Len(s)
          /\ RemoveAt(s, 1) \in Seq(Entrada)
      BY <2>4, <2>5, ClavesDe, SinElemento
    <3>2. Claves(r) = Append(RemoveAt(Claves(s), 1), clave(e))
      BY <1>4, <2>4, <2>5, <3>1, ClavesConUna, ClavesSinUna
    <3>3. Claves(s) # <<>>
      BY <2>4, <3>1, EmptySeq
    <3>4. RemoveAt(Claves(s), 1) = Tail(Claves(s))
      BY <3>1, <3>3, SinElPrimeroEsTail
    <3>5. QED
      BY <2>5, <3>1, <3>2, <3>4
  <2>11. Abstracta!Fallo(<<p, pag>>)
    <3>1. clave(e) \notin ToSet(OrdenDeSalida)
      BY <1>9, <2>2, <2>3
    <3>2. OrdenDeSalida' = Append(Tail(OrdenDeSalida), clave(e)) /\ Len(OrdenDeSalida) = n
      BY <2>9, <2>10
    <3>3. QED
      BY <1>1, <1>5, <1>13, <3>1, <3>2
         DEF Abstracta!Fallo, Abstracta!Presente, Abstracta!ToSet, ToSet
  <2>12. \A d \in ToSet(entradas') : d.tiempo < tiempo_actual'
    BY <1>7, <2>7
  <2>13. Len(entradas') = CantidadEntradas
    BY <1>13, <2>7
  <2>14. QED
    BY <1>1, <2>8, <2>11, <2>12, <2>13 DEF Tiempos
<1>14. QED
  BY <1>4, <1>11, <1>12, <1>13

(* The TLB implements the abstract cache of its policy: whatever it        *)
(* replaces is the oldest page, or the least recently used one, for any    *)
(* number of entries (mmu.c, consultar_tlb and agregar_entrada_tlb).       *)
THEOREM LaTlbImplementaLaCache == SpecTlb => ImplementaCache
<1>1. InitTlb => InvCache
  <2>1. ASSUME InitTlb PROVE Tiempos
    <3>1. Ordena(<<>>, entradas) /\ ToSet(entradas) = {}
      BY <2>1, EmptySeq DEF InitTlb, Ordena, ToSet
    <3>2. QED
      BY <2>1, <3>1 DEF InitTlb, Tiempos
  <2>2. InitTlb => InvTlb
    BY TiposIniciales DEF InvTlb, InitTlb, SinRepetidas
  <2>3. QED
    BY <2>1, <2>2 DEF InvCache
<1>2. ASSUME InvCache, [NextTlb]_tlb
      PROVE  InvCache' /\ [Abstracta!Next]_<<ALGORITMO_TLB, accedida, OrdenDeSalida>>
  <2>1. InvTlb'
    BY <1>2, PasoTlb DEF InvCache
  <2>2. ASSUME NEW p \in Procesos, NEW pag \in Paginas, NEW f \in Frames,
               obtener_frame(p, pag, f)
        PROVE  Tiempos' /\ Abstracta!Next
    <3>1. ALGORITMO_TLB' = ALGORITMO_TLB /\ accedida' = <<p, pag>>
      BY <2>2 DEF obtener_frame
    <3>2. /\ Tiempos'
          /\ Abstracta!Acierto(<<p, pag>>) \/ Abstracta!Fallo(<<p, pag>>)
      BY <1>2, <2>2, <3>1, CacheAlAcertar, CacheAlFallar DEF obtener_frame
    <3>3. <<p, pag>> \in Procesos \X Paginas
      OBVIOUS
    <3>4. QED
      BY <3>1, <3>2, <3>3 DEF Abstracta!Next
  <2>3. CASE UNCHANGED tlb
    <3>1. Tiempos'
      BY <1>2, <2>3 DEF tlb, InvCache, Tiempos
    <3>2. UNCHANGED <<ALGORITMO_TLB, accedida, OrdenDeSalida>>
      BY <2>3 DEF tlb, OrdenDeSalida
    <3>3. QED
      BY <2>1, <3>1, <3>2 DEF InvCache
  <2>4. QED
    BY <1>2, <2>1, <2>2, <2>3 DEF NextTlb, InvCache
<1>3. InitTlb => Abstracta!Init
  <2>1. ASSUME InitTlb PROVE OrdenDeSalida = <<>>
    BY <2>1 DEF InitTlb, OrdenDeSalida
  <2>2. QED
    BY <2>1 DEF InitTlb, Abstracta!Init
<1>4. QED
  BY <1>1, <1>2, <1>3, PTL DEF SpecTlb, ImplementaCache, Abstracta!Spec
=============================================================================
