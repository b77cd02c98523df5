--------------------------------- MODULE Tlb ---------------------------------
(***************************************************************************)
(* The TLB of the CPU (mmu.c): a list of at most CANTIDAD_ENTRADAS_TLB     *)
(* entries, the index reemplazar_fifo of the entry FIFO replaces next and  *)
(* the clock tiempo_actual that LRU compares.  The thread of the CPU is    *)
(* the only one that uses it.  With CANTIDAD_ENTRADAS_TLB = 0 the code     *)
(* does not use it at all, so that value is left out.                      *)
(***************************************************************************)
EXTENDS Integers, Sequences, SequencesExt

CONSTANTS
  Procesos,       \* process identifiers
  Paginas,        \* page numbers
  Frames,         \* what the memory may answer
  CantidadEntradas,
  MaxTiempo       \* bound of the clock

ASSUME TlbAssumption ==
  /\ CantidadEntradas \in Nat \ {0}
  /\ MaxTiempo \in Nat

VARIABLES
  ALGORITMO_TLB,    \* read from the configuration when the CPU starts
  entradas,         \* tlb.entradas
  tiempo_actual,    \* tlb.tiempo_actual
  reemplazar_fifo,  \* tlb.reemplazar_fifo, from 0
  accedida          \* history: the page of the last access

tlb == <<ALGORITMO_TLB, entradas, tiempo_actual, reemplazar_fifo, accedida>>

Entrada == [pid : Procesos, pagina : Paginas, frame : Frames, tiempo : Nat]

InitTlb ==
  /\ ALGORITMO_TLB \in {"FIFO", "LRU"}
  /\ entradas = <<>>
  /\ tiempo_actual = 0
  /\ reemplazar_fifo = 0
  /\ accedida = <<>>

(* The positions of the entries of a page of a process. *)
esta_la_pagina(p, pag) ==
  {i \in DOMAIN entradas : entradas[i].pid = p /\ entradas[i].pagina = pag}

avanza_tiempo ==
  /\ tiempo_actual < MaxTiempo
  /\ tiempo_actual' = tiempo_actual + 1

(* Wrong variants (mut_...) of the definitions they precede: none of them  *)
(* is used by the specification; the runs are expected to refute each one. *)

(* A hit leaves the time of the entry alone. *)
mut_consultar_sin_tiempo(p, pag) ==
  /\ esta_la_pagina(p, pag) # {}
  /\ avanza_tiempo
  /\ UNCHANGED <<entradas, reemplazar_fifo>>

(* TLB HIT: the first entry of the page gets the current time. *)
consultar_tlb(p, pag) ==
  /\ esta_la_pagina(p, pag) # {}
  /\ LET i == CHOOSE i \in esta_la_pagina(p, pag) : \A j \in esta_la_pagina(p, pag) : i <= j
     IN  entradas' = [entradas EXCEPT ![i].tiempo = tiempo_actual]
  /\ avanza_tiempo
  /\ UNCHANGED reemplazar_fifo

(* The index is taken back to 0 one replacement too late. *)
mut_fifo_vuelta_tarde(nuevo) ==
  /\ ALGORITMO_TLB = "FIFO"
  /\ entradas' = [entradas EXCEPT ![reemplazar_fifo + 1] = nuevo]
  /\ reemplazar_fifo' = IF reemplazar_fifo = CantidadEntradas THEN 0 ELSE reemplazar_fifo + 1

reemplazar_por_fifo(nuevo) ==
  /\ ALGORITMO_TLB = "FIFO"
  /\ entradas' = [entradas EXCEPT ![reemplazar_fifo + 1] = nuevo]
  /\ reemplazar_fifo' = (reemplazar_fifo + 1) % CantidadEntradas

(* The entry that is least recently used goes, the new one is the last. *)
reemplazar_lru(nuevo) ==
  /\ ALGORITMO_TLB = "LRU"
  /\ \E i \in DOMAIN entradas :
       /\ \A j \in DOMAIN entradas : entradas[i].tiempo <= entradas[j].tiempo
       /\ \A j \in DOMAIN entradas : j < i => entradas[i].tiempo < entradas[j].tiempo
       /\ entradas' = Append(RemoveAt(entradas, i), nuevo)
  /\ UNCHANGED reemplazar_fifo

(* The page is added without asking whether it is there. *)
mut_agregar_sin_consultar(p, pag, f) ==
  /\ LET nuevo == [pid |-> p, pagina |-> pag, frame |-> f, tiempo |-> tiempo_actual] IN
     IF Len(entradas) < CantidadEntradas
       THEN entradas' = Append(entradas, nuevo) /\ UNCHANGED reemplazar_fifo
       ELSE reemplazar_por_fifo(nuevo) \/ reemplazar_lru(nuevo)
  /\ avanza_tiempo

(* TLB MISS: the memory answered f. *)
agregar_entrada_tlb(p, pag, f) ==
  /\ esta_la_pagina(p, pag) = {}
  /\ LET nuevo == [pid |-> p, pagina |-> pag, frame |-> f, tiempo |-> tiempo_actual] IN
     IF Len(entradas) < CantidadEntradas
       THEN entradas' = Append(entradas, nuevo) /\ UNCHANGED reemplazar_fifo
       ELSE reemplazar_por_fifo(nuevo) \/ reemplazar_lru(nuevo)
  /\ avanza_tiempo

obtener_frame(p, pag, f) ==
  /\ consultar_tlb(p, pag) \/ agregar_entrada_tlb(p, pag, f)
  /\ accedida' = <<p, pag>>
  /\ UNCHANGED ALGORITMO_TLB

NextTlb == \E p \in Procesos, pag \in Paginas, f \in Frames : obtener_frame(p, pag, f)

SpecTlb == InitTlb /\ [][NextTlb]_tlb

-----------------------------------------------------------------------------

TypeOKTlb ==
  /\ ALGORITMO_TLB \in {"FIFO", "LRU"}
  /\ entradas \in Seq(Entrada)
  /\ Len(entradas) <= CantidadEntradas
  /\ tiempo_actual \in 0..MaxTiempo
  /\ reemplazar_fifo \in 0..CantidadEntradas - 1
  /\ accedida \in {<<>>} \cup (Procesos \X Paginas)

(* A page is in one entry at most, whatever hits and replacements come in  *)
(* between: a second entry would survive the replacement of the first.     *)
SinRepetidas ==
  \A i, j \in DOMAIN entradas :
    entradas[i].pid = entradas[j].pid /\ entradas[i].pagina = entradas[j].pagina => i = j

(* The page that an entry is of. *)
clave(e) == <<e.pid, e.pagina>>

(* The order in which the entries will be replaced: FIFO goes round the    *)
(* list from reemplazar_fifo, LRU by time.                                 *)
desde(lista, indice) ==
  [i \in 1..Len(lista) |-> lista[((i - 1 + indice) % Len(lista)) + 1]]

por_tiempo(lista) ==
  CHOOSE s \in [1..Len(lista) -> ToSet(lista)] :
    /\ ToSet(s) = ToSet(lista)
    /\ \A i, j \in 1..Len(lista) : i < j => s[i].tiempo < s[j].tiempo

OrdenDeSalida ==
  LET salida == IF ALGORITMO_TLB = "FIFO" THEN desde(entradas, reemplazar_fifo)
                                          ELSE por_tiempo(entradas)
  IN  [i \in 1..Len(entradas) |-> clave(salida[i])]

Abstracta == INSTANCE Cache WITH
  Claves <- Procesos \X Paginas, Capacidad <- CantidadEntradas,
  algoritmo <- ALGORITMO_TLB, orden <- OrdenDeSalida

(* The list, the index and the clock implement the policy of the config:   *)
(* what is replaced is always the oldest page, or the least recently used. *)
ImplementaCache == Abstracta!Spec

=============================================================================
