--------------------------- MODULE RecursosProofs ---------------------------
(***************************************************************************)
(* Proofs about Recursos, for every set of processes, every set of         *)
(* resources and every number of units.                                    *)
(***************************************************************************)
EXTENDS Recursos, FiniteSetTheorems, TLAPS

(* Removing one element of a list of processes leaves a list of processes. *)
LEMMA SinIndiceTipo ==
  ASSUME NEW S, NEW s \in Seq(S), NEW i \in DOMAIN s
  PROVE  /\ SinIndice(s, i) \in Seq(S)
         /\ Len(SinIndice(s, i)) = Len(s) - 1
         /\ \A j \in 1..(Len(s) - 1) :
              SinIndice(s, i)[j] = IF j < i THEN s[j] ELSE s[j + 1]
<1> DEFINE t == SinIndice(s, i)
<1>1. Len(s) \in Nat /\ Len(s) >= 1 /\ i \in 1..Len(s)
  OBVIOUS
<1>2. \A j \in 1..(Len(s) - 1) : s[j] \in S /\ s[j + 1] \in S
  BY <1>1
<1>3. t = [j \in 1..(Len(s) - 1) |-> IF j < i THEN s[j] ELSE s[j + 1]]
  BY DEF SinIndice
<1>4. t \in [1..(Len(s) - 1) -> S]
  BY <1>2, <1>3
<1>5. t \in Seq(S)
  BY <1>1, <1>4
<1>6. Len(t) = Len(s) - 1
  BY <1>1, <1>4, <1>5
<1>7. QED
  BY <1>3, <1>5, <1>6

(* The shape of one SIGNAL, used by every proof below. *)
LEMMA SignalTipo ==
  ASSUME TypeOK, NEW p \in Pids, NEW r \in NombresRecursos,
         ejecutar_instruccion_signal(p, r)
  PROVE  /\ estado' \in [Pids -> Estados]
         /\ usados' \in [Pids -> [NombresRecursos -> 0..MaxUsos]]
         /\ causa' \in [Pids -> NombresRecursos \cup {Ninguno}]
         /\ instancias' \in [NombresRecursos -> Int]
         /\ bloqueados' \in [NombresRecursos -> Seq(Pids)]
         /\ creadas' \in [NombresRecursos -> Nat]
<1> USE DEF TypeOK, Estados
<1>1. instancias' \in [NombresRecursos -> Int]
  BY SMTT(30) DEF ejecutar_instruccion_signal
<1>2. /\ usados' \in [Pids -> [NombresRecursos -> 0..MaxUsos]]
      /\ creadas' \in [NombresRecursos -> Nat]
  <2>1. CASE usados[p][r] > 0
    <3>1. usados[p][r] - 1 \in 0..MaxUsos
      BY <2>1, RecursosAssumption DEF RecursosAssumption
    <3>2. usados' = [usados EXCEPT ![p][r] = @ - 1] /\ creadas' = creadas
      BY <2>1 DEF ejecutar_instruccion_signal
    <3>3. [usados[p] EXCEPT ![r] = @ - 1] \in [NombresRecursos -> 0..MaxUsos]
      BY <3>1
    <3>4. QED
      BY <3>2, <3>3
  <2>2. CASE ~(usados[p][r] > 0)
    <3>1. usados' = usados /\ creadas' = [creadas EXCEPT ![r] = @ + 1]
      BY <2>2 DEF ejecutar_instruccion_signal
    <3>2. creadas[r] + 1 \in Nat
      OBVIOUS
    <3>3. QED
      BY <3>1, <3>2
  <2>3. QED
    BY <2>1, <2>2
<1>3. /\ estado' \in [Pids -> Estados]
      /\ causa' \in [Pids -> NombresRecursos \cup {Ninguno}]
      /\ bloqueados' \in [NombresRecursos -> Seq(Pids)]
  <2>1. CASE recurso_debe_desbloquear_proceso(bloqueados[r], instancias[r] + 1)
    <3>1. bloqueados[r] \in Seq(Pids) /\ bloqueados[r] # <<>>
      BY <2>1 DEF recurso_debe_desbloquear_proceso
    <3>2. Head(bloqueados[r]) \in Pids /\ Tail(bloqueados[r]) \in Seq(Pids)
      BY <3>1
    <3>3. QED
      BY <2>1, <3>2 DEF ejecutar_instruccion_signal
  <2>2. CASE ~recurso_debe_desbloquear_proceso(bloqueados[r], instancias[r] + 1)
    BY <2>2 DEF ejecutar_instruccion_signal
  <2>3. QED
    BY <2>1, <2>2
<1>4. QED
  BY <1>1, <1>2, <1>3

-----------------------------------------------------------------------------
(* Type correctness.                                                       *)

\* The resources start well typed.
LEMMA TypeOKInicial == Init => TypeOK
<1> SUFFICES ASSUME Init PROVE TypeOK
  OBVIOUS
<1>1. \A r \in NombresRecursos : Instancias[r] \in Int
  BY RecursosAssumption DEF RecursosAssumption
<1>2. instancias \in [NombresRecursos -> Int]
  BY <1>1, RecursosAssumption DEF Init, RecursosAssumption
<1>3. 0 \in 0..MaxUsos
  BY RecursosAssumption DEF RecursosAssumption
<1>4. usados \in [Pids -> [NombresRecursos -> 0..MaxUsos]]
  BY <1>3 DEF Init
<1>5. QED
  BY <1>2, <1>4 DEF Init, TypeOK, Estados

\* Every operation on a resource keeps the types.
LEMMA TypeOKPaso == TypeOK /\ [Next]_vars => TypeOK'
<1> SUFFICES ASSUME TypeOK, [Next]_vars PROVE TypeOK'
  OBVIOUS
<1> USE DEF Estados
<1>1. CASE TomarDeExit
  <2>1. Head(colaExit) \in Pids /\ Tail(colaExit) \in Seq(Pids)
    BY <1>1 DEF TomarDeExit, TypeOK
  <2>2. QED
    BY <1>1, <2>1 DEF TomarDeExit, TypeOK
<1>2. ASSUME NEW p \in Pids,
             \/ Admitir(p) \/ Despachar(p) \/ FinQuantum(p)
             \/ BloquearPorIO(p) \/ FinIO(p)
      PROVE  TypeOK'
  BY <1>2 DEF TypeOK, Admitir, Despachar, FinQuantum, BloquearPorIO, FinIO
<1>3. ASSUME NEW p \in Pids, SalirDeExec(p) \/ FinalizarListo(p)
      PROVE  TypeOK'
  <2>1. Append(colaExit, p) \in Seq(Pids)
    BY DEF TypeOK
  <2>2. QED
    BY <1>3, <2>1 DEF TypeOK, SalirDeExec, FinalizarListo, proceso_a_exit
<1>4. ASSUME NEW p \in Pids, FinalizarBloqueado(p)
      PROVE  TypeOK'
  <2>1. Append(colaExit, p) \in Seq(Pids)
    BY DEF TypeOK
  <2>2. bloqueados' \in [NombresRecursos -> Seq(Pids)]
    <3>1. CASE UNCHANGED bloqueados
      BY <3>1 DEF TypeOK
    <3>2. CASE \E r \in NombresRecursos : \E i \in DOMAIN bloqueados[r] :
                 bloqueados' = [bloqueados EXCEPT ![r] = SinIndice(@, i)]
      <4>1. PICK r \in NombresRecursos : \E i \in DOMAIN bloqueados[r] :
                 bloqueados' = [bloqueados EXCEPT ![r] = SinIndice(@, i)]
        BY <3>2
      <4>2. PICK i \in DOMAIN bloqueados[r] :
                 bloqueados' = [bloqueados EXCEPT ![r] = SinIndice(@, i)]
        BY <4>1
      <4>3. bloqueados[r] \in Seq(Pids)
        BY DEF TypeOK
      <4>4. SinIndice(bloqueados[r], i) \in Seq(Pids)
        BY <4>3, SinIndiceTipo
      <4>5. QED
        BY <4>2, <4>4 DEF TypeOK
    <3>3. QED
      BY <1>4, <3>1, <3>2 DEF FinalizarBloqueado
  <2>3. QED
    BY <1>4, <2>1, <2>2 DEF TypeOK, FinalizarBloqueado, proceso_a_exit
<1>5. ASSUME NEW p \in Pids, FinalizarEnExec(p) \/ LiberarPCB(p)
      PROVE  TypeOK'
  BY <1>5 DEF TypeOK, FinalizarEnExec, LiberarPCB
<1>6. ASSUME NEW p \in Pids, NEW r \in NombresRecursos, EjecutarWait(p, r)
      PROVE  TypeOK'
  <2>1. instancias' \in [NombresRecursos -> Int]
    BY <1>6 DEF TypeOK, EjecutarWait
  <2>2. usados' \in [Pids -> [NombresRecursos -> 0..MaxUsos]]
    <3>1. usados[p][r] + 1 \in 0..MaxUsos
      BY <1>6, RecursosAssumption DEF TypeOK, EjecutarWait, RecursosAssumption
    <3>2. [usados[p] EXCEPT ![r] = @ + 1] \in [NombresRecursos -> 0..MaxUsos]
      BY <3>1 DEF TypeOK
    <3>3. QED
      BY <1>6, <3>2 DEF TypeOK, EjecutarWait
  <2>3. Append(bloqueados[r], p) \in Seq(Pids)
    BY DEF TypeOK
  <2>4. /\ bloqueados' \in [NombresRecursos -> Seq(Pids)]
        /\ causa' \in [Pids -> NombresRecursos \cup {Ninguno}]
        /\ estado' \in [Pids -> Estados]
    BY <1>6, <2>3 DEF TypeOK, EjecutarWait
  <2>5. QED
    BY <1>6, <2>1, <2>2, <2>4 DEF TypeOK, EjecutarWait
<1>7. ASSUME NEW p \in Pids, NEW r \in NombresRecursos,
             EjecutarSignal(p, r) \/ LiberarInstancia(p, r)
      PROVE  TypeOK'
  <2>1. ejecutar_instruccion_signal(p, r)
    BY <1>7 DEF EjecutarSignal, LiberarInstancia
  <2>2. UNCHANGED <<aFinalizar, colaExit, liberando>>
    BY <1>7 DEF EjecutarSignal, LiberarInstancia
  <2>3. QED
    BY <2>1, <2>2, SignalTipo DEF TypeOK
<1>8. CASE UNCHANGED vars
  BY <1>8 DEF TypeOK, vars
<1>9. QED
  BY <1>1, <1>2, <1>3, <1>4, <1>5, <1>6, <1>7, <1>8 DEF Next

(* Every state of the module has its type: in particular a PCB never       *)
(* records a negative number of units.                                     *)
THEOREM TypeOKInvariante == Spec => []TypeOK
<1>1. QED
  BY TypeOKInicial, TypeOKPaso, PTL DEF Spec

-----------------------------------------------------------------------------
(* How the set of used units follows the dictionaries of the PCBs.         *)

\* The units recorded in the PCBs can be counted.
LEMMA TomadasFinito ==
  ASSUME NEW r \in NombresRecursos
  PROVE  IsFiniteSet(Tomadas(r))
<1>1. IsFiniteSet(1..MaxUsos)
  BY FS_Interval, RecursosAssumption DEF RecursosAssumption
<1>2. IsFiniteSet(Pids \X (1..MaxUsos))
  BY <1>1, FS_Product, RecursosAssumption DEF RecursosAssumption
<1>3. QED
  BY <1>2, FS_Subset DEF Tomadas

\* A WAIT adds one unit to those recorded of its resource, and to no other.
LEMMA TomarUnidad ==
  ASSUME TypeOK, NEW p \in Pids, NEW r \in NombresRecursos,
         usados[p][r] < MaxUsos,
         usados' = [usados EXCEPT ![p][r] = @ + 1]
  PROVE  /\ Cardinality(Tomadas(r))' = Cardinality(Tomadas(r)) + 1
         /\ \A q \in NombresRecursos : q # r => Tomadas(q)' = Tomadas(q)
<1> DEFINE u == <<p, usados[p][r] + 1>>
<1>1. usados[p][r] \in Nat /\ usados[p][r] + 1 \in 1..MaxUsos
  BY RecursosAssumption DEF TypeOK, RecursosAssumption
<1>2. \A x \in Pids, q \in NombresRecursos :
        /\ usados[x][q] \in 0..MaxUsos
        /\ usados'[x][q] = IF x = p /\ q = r THEN usados[p][r] + 1
                                              ELSE usados[x][q]
  BY DEF TypeOK
<1>3. Tomadas(r)' = Tomadas(r) \cup {u}
  <2>1. ASSUME NEW x \in Pids, NEW k \in 1..MaxUsos
        PROVE  k <= usados'[x][r] <=> (k <= usados[x][r] \/ <<x, k>> = u)
    <3>1. CASE x = p
      BY <1>1, <1>2, <3>1
    <3>2. CASE x # p
      BY <1>2, <3>2
    <3>3. QED
      BY <3>1, <3>2
  <2>2. u \in Pids \X (1..MaxUsos)
    BY <1>1
  <2>3. Tomadas(r)' = {v \in Pids \X (1..MaxUsos) : v[2] <= usados'[v[1]][r]}
    BY DEF Tomadas
  <2>4. QED
    BY <2>1, <2>2, <2>3 DEF Tomadas
<1>4. u \notin Tomadas(r)
  BY <1>1 DEF Tomadas
<1>5. Cardinality(Tomadas(r) \cup {u}) = Cardinality(Tomadas(r)) + 1
  BY <1>4, TomadasFinito, FS_AddElement
<1>6. ASSUME NEW q \in NombresRecursos, q # r
      PROVE  Tomadas(q)' = Tomadas(q)
  <2>1. \A x \in Pids : usados'[x][q] = usados[x][q]
    BY <1>2, <1>6
  <2>2. Tomadas(q)' = {v \in Pids \X (1..MaxUsos) : v[2] <= usados'[v[1]][q]}
    BY DEF Tomadas
  <2>3. QED
    BY <2>1, <2>2 DEF Tomadas
<1>7. QED
  BY <1>3, <1>5, <1>6

\* A return takes one unit from those recorded of its resource, and from no other.
LEMMA DevolverUnidad ==
  ASSUME TypeOK, NEW p \in Pids, NEW r \in NombresRecursos,
         usados[p][r] > 0,
         usados' = [usados EXCEPT ![p][r] = @ - 1]
  PROVE  /\ Cardinality(Tomadas(r))' = Cardinality(Tomadas(r)) - 1
         /\ \A q \in NombresRecursos : q # r => Tomadas(q)' = Tomadas(q)
<1> DEFINE u == <<p, usados[p][r]>>
<1>1. usados[p][r] \in 1..MaxUsos
  BY RecursosAssumption DEF TypeOK, RecursosAssumption
<1>2. \A x \in Pids, q \in NombresRecursos :
        /\ usados[x][q] \in 0..MaxUsos
        /\ usados'[x][q] = IF x = p /\ q = r THEN usados[p][r] - 1
                                              ELSE usados[x][q]
  BY DEF TypeOK
<1>3. Tomadas(r)' = Tomadas(r) \ {u}
  <2>1. ASSUME NEW x \in Pids, NEW k \in 1..MaxUsos
        PROVE  k <= usados'[x][r] <=> (k <= usados[x][r] /\ <<x, k>> # u)
    <3>1. CASE x = p
      BY <1>1, <1>2, <3>1
    <3>2. CASE x # p
      BY <1>2, <3>2
    <3>3. QED
      BY <3>1, <3>2
  <2>2. Tomadas(r)' = {v \in Pids \X (1..MaxUsos) : v[2] <= usados'[v[1]][r]}
    BY DEF Tomadas
  <2>3. QED
    BY <2>1, <2>2 DEF Tomadas
<1>4. u \in Tomadas(r)
  BY <1>1 DEF Tomadas
<1>5. Cardinality(Tomadas(r) \ {u}) = Cardinality(Tomadas(r)) - 1
  BY <1>4, TomadasFinito, FS_RemoveElement
<1>6. ASSUME NEW q \in NombresRecursos, q # r
      PROVE  Tomadas(q)' = Tomadas(q)
  <2>1. \A x \in Pids : usados'[x][q] = usados[x][q]
    BY <1>2, <1>6
  <2>2. Tomadas(q)' = {v \in Pids \X (1..MaxUsos) : v[2] <= usados'[v[1]][q]}
    BY DEF Tomadas
  <2>3. QED
    BY <2>1, <2>2 DEF Tomadas
<1>7. QED
  BY <1>3, <1>5, <1>6

-----------------------------------------------------------------------------
(* The accounting.                                                         *)

(* The steps that move neither a counter, nor a dictionary, nor a cause. *)
LEMMA PasosSinCuentas ==
  ASSUME TypeOK, [Next]_vars,
         ~(\E p \in Pids, r \in NombresRecursos :
             EjecutarWait(p, r) \/ ejecutar_instruccion_signal(p, r))
  PROVE  UNCHANGED <<usados, causa, instancias, creadas>>
<1>1. CASE TomarDeExit
  BY <1>1 DEF TomarDeExit
<1>2. ASSUME NEW p \in Pids,
             \/ Admitir(p) \/ Despachar(p) \/ FinQuantum(p)
             \/ BloquearPorIO(p) \/ FinIO(p) \/ SalirDeExec(p)
             \/ FinalizarListo(p) \/ FinalizarBloqueado(p)
             \/ FinalizarEnExec(p) \/ LiberarPCB(p)
      PROVE  UNCHANGED <<usados, causa, instancias, creadas>>
  BY <1>2 DEF Admitir, Despachar, FinQuantum, BloquearPorIO, FinIO, SalirDeExec,
              FinalizarListo, FinalizarBloqueado, FinalizarEnExec, LiberarPCB
<1>3. CASE UNCHANGED vars
  BY <1>3 DEF vars
<1>4. QED
  BY <1>1, <1>2, <1>3 DEF Next, EjecutarSignal, LiberarInstancia

\* Counter and recorded units change by opposite amounts in every step.
LEMMA ConservacionPaso == TypeOK /\ Conservacion /\ [Next]_vars => Conservacion'
<1> SUFFICES ASSUME TypeOK, Conservacion, [Next]_vars,
                    NEW q \in NombresRecursos
             PROVE  (instancias[q] + Cardinality(Tomadas(q)) = Capacidad(q))'
  BY DEF Conservacion
<1>1. /\ instancias[q] \in Int
      /\ Cardinality(Tomadas(q)) \in Nat
      /\ creadas[q] \in Nat
      /\ Instancias[q] \in Nat
      /\ instancias[q] + Cardinality(Tomadas(q)) = Instancias[q] + creadas[q]
  BY TomadasFinito, FS_CardinalityType, RecursosAssumption
     DEF TypeOK, RecursosAssumption, Conservacion, Capacidad
<1>2. ASSUME NEW p \in Pids, NEW r \in NombresRecursos, EjecutarWait(p, r)
      PROVE  (instancias[q] + Cardinality(Tomadas(q)) = Capacidad(q))'
  <2>1. /\ usados[p][r] < MaxUsos
        /\ usados' = [usados EXCEPT ![p][r] = @ + 1]
        /\ instancias' = [instancias EXCEPT ![r] = @ - 1]
        /\ creadas' = creadas
    BY <1>2 DEF EjecutarWait
  <2>2. /\ Cardinality(Tomadas(r))' = Cardinality(Tomadas(r)) + 1
        /\ q # r => Tomadas(q)' = Tomadas(q)
    BY <2>1, TomarUnidad
  <2>3. instancias'[q] = IF q = r THEN instancias[q] - 1 ELSE instancias[q]
    BY <2>1 DEF TypeOK
  <2>4. Capacidad(q)' = Capacidad(q)
    BY <2>1 DEF Capacidad
  <2>5. CASE q = r
    BY <1>1, <2>2, <2>3, <2>4, <2>5 DEF Capacidad
  <2>6. CASE q # r
    BY <1>1, <2>2, <2>3, <2>4, <2>6 DEF Capacidad
  <2>7. QED
    BY <2>5, <2>6
<1>3. ASSUME NEW p \in Pids, NEW r \in NombresRecursos,
             ejecutar_instruccion_signal(p, r)
      PROVE  (instancias[q] + Cardinality(Tomadas(q)) = Capacidad(q))'
  <2>1. instancias'[q] = IF q = r THEN instancias[q] + 1 ELSE instancias[q]
    BY <1>3 DEF TypeOK, ejecutar_instruccion_signal
  <2>2. CASE usados[p][r] > 0
    <3>1. usados' = [usados EXCEPT ![p][r] = @ - 1] /\ creadas' = creadas
      BY <1>3, <2>2 DEF ejecutar_instruccion_signal
    <3>2. /\ Cardinality(Tomadas(r))' = Cardinality(Tomadas(r)) - 1
          /\ q # r => Tomadas(q)' = Tomadas(q)
      BY <2>2, <3>1, DevolverUnidad
    <3>3. Capacidad(q)' = Capacidad(q)
      BY <3>1 DEF Capacidad
    <3>4. CASE q = r
      BY <1>1, <2>1, <3>2, <3>3, <3>4 DEF Capacidad
    <3>5. CASE q # r
      BY <1>1, <2>1, <3>2, <3>3, <3>5 DEF Capacidad
    <3>6. QED
      BY <3>4, <3>5
  <2>3. CASE ~(usados[p][r] > 0)
    <3>1. usados' = usados /\ creadas' = [creadas EXCEPT ![r] = @ + 1]
      BY <1>3, <2>3 DEF ejecutar_instruccion_signal
    <3>2. Tomadas(q)' = Tomadas(q)
      BY <3>1 DEF Tomadas
    <3>3. creadas'[q] = IF q = r THEN creadas[q] + 1 ELSE creadas[q]
      BY <3>1 DEF TypeOK
    <3>4. QED
      BY <1>1, <2>1, <3>2, <3>3 DEF Capacidad
  <2>4. QED
    BY <2>2, <2>3
<1>4. CASE UNCHANGED <<usados, instancias, creadas>>
  <2>1. Tomadas(q)' = Tomadas(q) /\ Capacidad(q)' = Capacidad(q)
    BY <1>4 DEF Tomadas, Capacidad
  <2>2. QED
    BY <1>1, <1>4, <2>1 DEF Capacidad
<1>5. QED
  BY <1>2, <1>3, <1>4, PasosSinCuentas

\* At the start nothing is recorded and the counters are the capacities.
LEMMA ConservacionInicial == Init => Conservacion
<1> SUFFICES ASSUME Init, NEW r \in NombresRecursos
             PROVE  instancias[r] + Cardinality(Tomadas(r)) = Capacidad(r)
  BY DEF Conservacion
<1>1. Tomadas(r) = {}
  BY RecursosAssumption DEF Init, Tomadas, RecursosAssumption
<1>2. Cardinality(Tomadas(r)) = 0
  BY <1>1, FS_EmptySet
<1>3. Instancias[r] \in Nat
  BY RecursosAssumption DEF RecursosAssumption
<1>4. QED
  BY <1>2, <1>3 DEF Init, Capacidad

(* No unit of a resource is lost or counted twice, whatever is killed. *)
THEOREM ConservacionInvariante == Spec => []Conservacion
<1>1. Spec => [](TypeOK /\ Conservacion)
  BY TypeOKInicial, TypeOKPaso, ConservacionInicial, ConservacionPaso, PTL DEF Spec
<1>2. QED
  BY <1>1, PTL

-----------------------------------------------------------------------------
(* The lists.                                                              *)

(* The changes a WAIT and a SIGNAL make to one dictionary. *)
LEMMA UsadosTrasWait ==
  ASSUME TypeOK, NEW p \in Pids, NEW r \in NombresRecursos, EjecutarWait(p, r)
  PROVE  \A x \in Pids, y \in NombresRecursos :
           /\ usados[x][y] \in Nat
           /\ usados'[x][y] = IF x = p /\ y = r THEN usados[x][y] + 1
                                                ELSE usados[x][y]
<1>1. usados' = [usados EXCEPT ![p][r] = @ + 1]
  BY DEF EjecutarWait
<1>2. \A x \in Pids, y \in NombresRecursos : usados[x][y] \in 0..MaxUsos
  BY DEF TypeOK
<1>3. QED
  BY <1>1, <1>2, RecursosAssumption DEF TypeOK, RecursosAssumption

\* What a SIGNAL changes in the units that the PCBs record.
LEMMA UsadosTrasSignal ==
  ASSUME TypeOK, NEW p \in Pids, NEW r \in NombresRecursos,
         ejecutar_instruccion_signal(p, r)
  PROVE  \A x \in Pids, y \in NombresRecursos :
           /\ usados[x][y] \in Nat
           /\ usados'[x][y] = IF x = p /\ y = r /\ usados[p][r] > 0
                                THEN usados[x][y] - 1 ELSE usados[x][y]
<1>1. \A x \in Pids, y \in NombresRecursos : usados[x][y] \in 0..MaxUsos
  BY DEF TypeOK
<1>2. CASE usados[p][r] > 0
  <2>1. usados' = [usados EXCEPT ![p][r] = @ - 1]
    BY <1>2 DEF ejecutar_instruccion_signal
  <2>2. QED
    BY <1>1, <1>2, <2>1, RecursosAssumption DEF TypeOK, RecursosAssumption
<1>3. CASE ~(usados[p][r] > 0)
  <2>1. usados' = usados
    BY <1>3 DEF ejecutar_instruccion_signal
  <2>2. QED
    BY <1>1, <1>3, <2>1, RecursosAssumption DEF RecursosAssumption
<1>4. QED
  BY <1>2, <1>3

(* A step that only moves one process that is in no list. *)
LEMMA MoverAjeno ==
  ASSUME TypeOK, ColasCoherentes, NEW p \in Pids,
         UNCHANGED <<usados, causa, bloqueados>>,
         \A x \in Pids : x # p => estado'[x] = estado[x],
         estado[p] # "BLOCKED" \/ causa[p] = Ninguno,
         estado'[p] \in {"FUERA", "READY", "EXEC", "BLOCKED"} => causa[p] = Ninguno
  PROVE  ColasCoherentes'
<1>1. ASSUME NEW r \in NombresRecursos, NEW i \in DOMAIN bloqueados[r]
      PROVE  bloqueados[r][i] \in Pids /\ bloqueados[r][i] # p
  BY <1>1, RecursosAssumption
     DEF TypeOK, ColasCoherentes, ListasCoherentes, RecursosAssumption
<1>2. ListasCoherentes'
  BY <1>1 DEF ColasCoherentes, ListasCoherentes
<1>3. BloqueadosEnLista'
  BY DEF TypeOK, ColasCoherentes, BloqueadosEnLista
<1>4. SinCausa'
  BY DEF TypeOK, ColasCoherentes, SinCausa
<1>5. QED
  BY <1>2, <1>3, <1>4 DEF ColasCoherentes

\* A WAIT keeps state, cause and list of every process in agreement.
LEMMA ColasTrasWait ==
  ASSUME TypeOK, ColasCoherentes, NEW p \in Pids, NEW r \in NombresRecursos,
         EjecutarWait(p, r)
  PROVE  ColasCoherentes'
<1>1. estado[p] = "EXEC" /\ causa[p] = Ninguno
  BY DEF EjecutarWait, EnManejo, ColasCoherentes, SinCausa
<1>2. ASSUME NEW q \in NombresRecursos, NEW i \in DOMAIN bloqueados[q]
      PROVE  bloqueados[q][i] \in Pids /\ bloqueados[q][i] # p
  BY <1>1, <1>2 DEF TypeOK, ColasCoherentes, ListasCoherentes
<1>3. CASE ~(instancias[r] - 1 < 0)
  <2>1. UNCHANGED <<bloqueados, causa, estado>>
    BY <1>3 DEF EjecutarWait, recurso_debe_bloquear_proceso
  <2>2. ListasCoherentes'
    BY <1>2, <2>1, UsadosTrasWait DEF ColasCoherentes, ListasCoherentes
  <2>3. QED
    BY <2>1, <2>2 DEF ColasCoherentes, BloqueadosEnLista, SinCausa
<1>4. CASE instancias[r] - 1 < 0
  <2>1. /\ bloqueados' = [bloqueados EXCEPT ![r] = Append(@, p)]
        /\ causa' = [causa EXCEPT ![p] = r]
        /\ estado' = [estado EXCEPT ![p] = "BLOCKED"]
    BY <1>4 DEF EjecutarWait, recurso_debe_bloquear_proceso
  <2>2. /\ bloqueados[r] \in Seq(Pids)
        /\ bloqueados'[r] = Append(bloqueados[r], p)
        /\ \A q \in NombresRecursos : q # r => bloqueados'[q] = bloqueados[q]
    BY <2>1 DEF TypeOK
  <2>3. \A x \in Pids : /\ causa'[x] = IF x = p THEN r ELSE causa[x]
                        /\ estado'[x] = IF x = p THEN "BLOCKED" ELSE estado[x]
    BY <2>1 DEF TypeOK
  <2>4. ListasCoherentes'
    <3> SUFFICES ASSUME NEW q \in NombresRecursos, NEW i \in DOMAIN bloqueados'[q]
                 PROVE  LET x == bloqueados'[q][i] IN
                        /\ estado'[x] = "BLOCKED"
                        /\ causa'[x] = q
                        /\ usados'[x][q] > 0
                        /\ \A j \in DOMAIN bloqueados'[q] :
                             bloqueados'[q][j] = x => i = j
      BY DEF ListasCoherentes
    <3>1. CASE q # r
      BY <1>2, <2>2, <2>3, <3>1, UsadosTrasWait DEF ColasCoherentes, ListasCoherentes
    <3>2. CASE q = r /\ i \in DOMAIN bloqueados[r]
      <4>1. bloqueados'[q][i] = bloqueados[r][i]
        BY <2>2, <3>2
      <4>2. \A j \in DOMAIN bloqueados'[q] : bloqueados'[q][j] = bloqueados'[q][i] => i = j
        BY <1>2, <2>2, <3>2, SMTT(30) DEF ColasCoherentes, ListasCoherentes
      <4>3. QED
        BY <1>2, <2>3, <3>2, <4>1, <4>2, UsadosTrasWait
           DEF ColasCoherentes, ListasCoherentes
    <3>3. CASE q = r /\ i = Len(bloqueados[r]) + 1
      <4>1. bloqueados'[q][i] = p
        BY <2>2, <3>3
      <4>2. \A j \in DOMAIN bloqueados'[q] : bloqueados'[q][j] = p => i = j
        BY <1>2, <2>2, <3>3
      <4>3. usados'[p][r] > 0
        BY UsadosTrasWait
      <4>4. QED
        BY <2>3, <3>3, <4>1, <4>2, <4>3
    <3>4. QED
      BY <2>2, <3>1, <3>2, <3>3
  <2>5. BloqueadosEnLista'
    <3> SUFFICES ASSUME NEW x \in Pids, estado'[x] = "BLOCKED", causa'[x] # Ninguno
                 PROVE  \E i \in DOMAIN bloqueados'[causa'[x]] :
                          bloqueados'[causa'[x]][i] = x
      BY DEF BloqueadosEnLista
    <3>1. CASE x = p
      <4>1. Len(bloqueados[r]) + 1 \in DOMAIN bloqueados'[r]
        BY <2>2
      <4>2. bloqueados'[r][Len(bloqueados[r]) + 1] = p
        BY <2>2
      <4>3. QED
        BY <2>3, <3>1, <4>1, <4>2
    <3>2. CASE x # p
      <4>1. PICK i \in DOMAIN bloqueados[causa[x]] : bloqueados[causa[x]][i] = x
        BY <2>3, <3>2 DEF ColasCoherentes, BloqueadosEnLista
      <4>2. causa[x] \in NombresRecursos
        BY <2>3, <3>2 DEF TypeOK
      <4>3. i \in DOMAIN bloqueados'[causa[x]] /\ bloqueados'[causa[x]][i] = x
        BY <2>2, <4>1, <4>2
      <4>4. QED
        BY <2>3, <3>2, <4>3
    <3>3. QED
      BY <3>1, <3>2
  <2>6. SinCausa'
    BY <2>3 DEF ColasCoherentes, SinCausa
  <2>7. QED
    BY <2>4, <2>5, <2>6 DEF ColasCoherentes
<1>5. QED
  BY <1>3, <1>4 DEF TypeOK

(* The process that signals is not blocked, so it is never the one woken. *)
LEMMA ColasTrasSignal ==
  ASSUME TypeOK, ColasCoherentes, NEW p \in Pids, NEW r \in NombresRecursos,
         estado[p] # "BLOCKED", ejecutar_instruccion_signal(p, r)
  PROVE  ColasCoherentes'
<1> DEFINE w == Head(bloqueados[r])
<1>1. ASSUME NEW q \in NombresRecursos, NEW i \in DOMAIN bloqueados[q]
      PROVE  /\ bloqueados[q][i] \in Pids
             /\ bloqueados[q][i] # p
             /\ estado[bloqueados[q][i]] = "BLOCKED"
             /\ causa[bloqueados[q][i]] = q
             /\ usados'[bloqueados[q][i]][q] > 0
             /\ \A j \in DOMAIN bloqueados[q] :
                  bloqueados[q][j] = bloqueados[q][i] => i = j
  <2>1. /\ bloqueados[q][i] \in Pids
        /\ bloqueados[q][i] # p
    BY <1>1 DEF TypeOK, ColasCoherentes, ListasCoherentes
  <2>2. usados'[bloqueados[q][i]][q] = usados[bloqueados[q][i]][q]
    BY <2>1, UsadosTrasSignal
  <2>3. QED
    BY <1>1, <2>1, <2>2 DEF ColasCoherentes, ListasCoherentes
<1>2. CASE ~recurso_debe_desbloquear_proceso(bloqueados[r], instancias[r] + 1)
  <2>1. UNCHANGED <<bloqueados, causa, estado>>
    BY <1>2 DEF ejecutar_instruccion_signal
  <2>2. ListasCoherentes'
    BY <1>1, <2>1 DEF ListasCoherentes
  <2>3. QED
    BY <2>1, <2>2 DEF ColasCoherentes, BloqueadosEnLista, SinCausa
<1>3. CASE recurso_debe_desbloquear_proceso(bloqueados[r], instancias[r] + 1)
  <2>1. /\ bloqueados' = [bloqueados EXCEPT ![r] = Tail(@)]
        /\ causa' = [causa EXCEPT ![w] = Ninguno]
        /\ estado' = [estado EXCEPT ![w] = "READY"]
    BY <1>3 DEF ejecutar_instruccion_signal
  <2>2. /\ bloqueados[r] \in Seq(Pids)
        /\ bloqueados[r] # <<>>
    BY <1>3 DEF TypeOK, recurso_debe_desbloquear_proceso
  <2>3. 1 \in DOMAIN bloqueados[r] /\ w = bloqueados[r][1]
    BY <2>2
  <2>4. w \in Pids /\ causa[w] = r
    BY <1>1, <2>3
  <2>5. \A x \in Pids : /\ causa'[x] = IF x = w THEN Ninguno ELSE causa[x]
                        /\ estado'[x] = IF x = w THEN "READY" ELSE estado[x]
    BY <2>1 DEF TypeOK
  <2>6. /\ bloqueados'[r] = Tail(bloqueados[r])
        /\ \A q \in NombresRecursos : q # r => bloqueados'[q] = bloqueados[q]
    BY <2>1 DEF TypeOK
  <2>7. /\ \A i \in DOMAIN bloqueados'[r] :
             i + 1 \in DOMAIN bloqueados[r] /\ bloqueados'[r][i] = bloqueados[r][i + 1]
        /\ \A i \in DOMAIN bloqueados[r] :
             i # 1 => /\ i - 1 \in DOMAIN bloqueados'[r]
                      /\ bloqueados'[r][i - 1] = bloqueados[r][i]
        /\ DOMAIN bloqueados'[r] \subseteq Nat \ {0}
    BY <2>2, <2>6
  <2>8. ListasCoherentes'
    <3> SUFFICES ASSUME NEW q \in NombresRecursos, NEW i \in DOMAIN bloqueados'[q]
                 PROVE  LET x == bloqueados'[q][i] IN
                        /\ estado'[x] = "BLOCKED"
                        /\ causa'[x] = q
                        /\ usados'[x][q] > 0
                        /\ \A j \in DOMAIN bloqueados'[q] :
                             bloqueados'[q][j] = x => i = j
      BY DEF ListasCoherentes
    <3>1. CASE q # r
      BY <1>1, <2>4, <2>5, <2>6, <3>1
    <3>2. CASE q = r
      <4>1. i + 1 \in DOMAIN bloqueados[r] /\ bloqueados'[r][i] = bloqueados[r][i + 1]
        BY <2>7, <3>2
      <4>2. bloqueados[r][i + 1] # w
        BY <1>1, <2>3, <2>7, <3>2, <4>1
      <4>3. \A j \in DOMAIN bloqueados'[r] : bloqueados'[r][j] = bloqueados'[r][i] => i = j
        <5> SUFFICES ASSUME NEW j \in DOMAIN bloqueados'[r],
                            bloqueados'[r][j] = bloqueados'[r][i]
                     PROVE  i = j
          OBVIOUS
        <5>1. j + 1 \in DOMAIN bloqueados[r] /\ bloqueados[r][j + 1] = bloqueados[r][i + 1]
          BY <2>7, <4>1
        <5>2. i + 1 = j + 1
          BY <1>1, <4>1, <5>1
        <5>3. QED
          BY <2>7, <3>2, <5>2
      <4>4. QED
        BY <1>1, <2>5, <3>2, <4>1, <4>2, <4>3
    <3>3. QED
      BY <3>1, <3>2
  <2>9. BloqueadosEnLista'
    <3> SUFFICES ASSUME NEW x \in Pids, estado'[x] = "BLOCKED", causa'[x] # Ninguno
                 PROVE  \E i \in DOMAIN bloqueados'[causa'[x]] :
                          bloqueados'[causa'[x]][i] = x
      BY DEF BloqueadosEnLista
    <3>1. x # w /\ causa'[x] = causa[x] /\ estado[x] = "BLOCKED"
      BY <2>5
    <3>2. PICK i \in DOMAIN bloqueados[causa[x]] : bloqueados[causa[x]][i] = x
      BY <3>1 DEF ColasCoherentes, BloqueadosEnLista
    <3>3. causa[x] \in NombresRecursos
      BY <3>1 DEF TypeOK
    <3>4. CASE causa[x] # r
      BY <2>6, <3>1, <3>2, <3>3, <3>4
    <3>5. CASE causa[x] = r
      <4>1. i # 1
        BY <2>3, <3>1, <3>2, <3>5
      <4>2. i - 1 \in DOMAIN bloqueados'[r] /\ bloqueados'[r][i - 1] = x
        BY <2>7, <3>2, <3>5, <4>1
      <4>3. QED
        BY <3>1, <3>5, <4>2
    <3>6. QED
      BY <3>4, <3>5
  <2>10. SinCausa'
    BY <2>5 DEF ColasCoherentes, SinCausa
  <2>11. QED
    BY <2>8, <2>9, <2>10 DEF ColasCoherentes
<1>4. QED
  BY <1>2, <1>3

(* Killing a blocked process takes it out of the list of its resource. *)
LEMMA ColasTrasKill ==
  ASSUME TypeOK, ColasCoherentes, NEW p \in Pids, FinalizarBloqueado(p)
  PROVE  ColasCoherentes'
<1>1. /\ estado[p] = "BLOCKED"
      /\ estado' = [estado EXCEPT ![p] = "EXIT"]
      /\ UNCHANGED <<usados, causa>>
  BY DEF FinalizarBloqueado, proceso_a_exit
<1>2. \A x \in Pids : estado'[x] = IF x = p THEN "EXIT" ELSE estado[x]
  BY <1>1 DEF TypeOK
<1>3. SinCausa'
  BY <1>1, <1>2 DEF ColasCoherentes, SinCausa
<1>4. CASE causa[p] = Ninguno /\ UNCHANGED bloqueados
  BY <1>1, <1>2, <1>4, MoverAjeno
<1>5. ASSUME NEW r \in NombresRecursos, NEW i \in DOMAIN bloqueados[r],
             causa[p] = r, bloqueados[r][i] = p,
             bloqueados' = [bloqueados EXCEPT ![r] = SinIndice(@, i)]
      PROVE  ListasCoherentes' /\ BloqueadosEnLista'
  <2>1. /\ bloqueados[r] \in Seq(Pids)
        /\ bloqueados'[r] = SinIndice(bloqueados[r], i)
        /\ \A q \in NombresRecursos : q # r => bloqueados'[q] = bloqueados[q]
    BY <1>5 DEF TypeOK
  <2>2. /\ bloqueados'[r] \in Seq(Pids)
        /\ Len(bloqueados'[r]) = Len(bloqueados[r]) - 1
        /\ \A j \in 1..(Len(bloqueados[r]) - 1) :
             bloqueados'[r][j] = IF j < i THEN bloqueados[r][j]
                                          ELSE bloqueados[r][j + 1]
    <3> DEFINE s == bloqueados[r]
               t == SinIndice(s, i)
    <3>1. s \in Seq(Pids) /\ i \in DOMAIN s
      BY <2>1
    <3> HIDE DEF s
    <3>2. /\ t \in Seq(Pids)
          /\ Len(t) = Len(s) - 1
          /\ \A j \in 1..(Len(s) - 1) : t[j] = IF j < i THEN s[j] ELSE s[j + 1]
      BY <3>1, SinIndiceTipo
    <3> HIDE DEF t
    <3>3. bloqueados'[r] = t /\ bloqueados[r] = s
      BY <2>1 DEF s, t
    <3>4. QED
      BY <3>2, <3>3
  <2> DEFINE viejo(j) == IF j < i THEN j ELSE j + 1
  <2>3. ASSUME NEW j \in DOMAIN bloqueados'[r]
        PROVE  /\ j \in Int
               /\ viejo(j) \in DOMAIN bloqueados[r]
               /\ viejo(j) # i
               /\ bloqueados'[r][j] = bloqueados[r][viejo(j)]
    BY <1>5, <2>1, <2>2, <2>3
  <2>4. ASSUME NEW q \in NombresRecursos, NEW j \in DOMAIN bloqueados[q]
        PROVE  /\ bloqueados[q][j] \in Pids
               /\ estado[bloqueados[q][j]] = "BLOCKED"
               /\ causa[bloqueados[q][j]] = q
               /\ usados[bloqueados[q][j]][q] > 0
               /\ \A k \in DOMAIN bloqueados[q] :
                    bloqueados[q][k] = bloqueados[q][j] => j = k
    BY <2>4 DEF TypeOK, ColasCoherentes, ListasCoherentes
  <2>5. ListasCoherentes'
    <3> SUFFICES ASSUME NEW q \in NombresRecursos, NEW j \in DOMAIN bloqueados'[q]
                 PROVE  LET x == bloqueados'[q][j] IN
                        /\ estado'[x] = "BLOCKED"
                        /\ causa[x] = q
                        /\ usados[x][q] > 0
                        /\ \A k \in DOMAIN bloqueados'[q] :
                             bloqueados'[q][k] = x => j = k
      BY <1>1 DEF ListasCoherentes
    <3>1. CASE q # r
      <4>1. bloqueados'[q] = bloqueados[q] /\ bloqueados[q][j] # p
        BY <1>5, <2>1, <2>4, <3>1
      <4>2. QED
        BY <1>2, <2>4, <4>1
    <3>2. CASE q = r
      <4>1. bloqueados[r][viejo(j)] # p
        BY <1>5, <2>3, <2>4, <3>2
      <4>2. \A k \in DOMAIN bloqueados'[r] : bloqueados'[r][k] = bloqueados'[r][j] => j = k
        <5> SUFFICES ASSUME NEW k \in DOMAIN bloqueados'[r],
                            bloqueados'[r][k] = bloqueados'[r][j]
                     PROVE  j = k
          OBVIOUS
        <5>1. viejo(j) = viejo(k)
          BY <2>3, <2>4, <3>2
        <5>2. i \in Int /\ j \in Int /\ k \in Int
          BY <1>5, <2>1, <2>3, <3>2
        <5>3. QED
          BY <5>1, <5>2
      <4>3. QED
        BY <1>2, <2>3, <2>4, <3>2, <4>1, <4>2
    <3>3. QED
      BY <3>1, <3>2
  <2>6. BloqueadosEnLista'
    <3> SUFFICES ASSUME NEW x \in Pids, estado'[x] = "BLOCKED", causa[x] # Ninguno
                 PROVE  \E j \in DOMAIN bloqueados'[causa[x]] :
                          bloqueados'[causa[x]][j] = x
      BY <1>1 DEF BloqueadosEnLista
    <3>1. x # p /\ estado[x] = "BLOCKED"
      BY <1>2
    <3>2. PICK j \in DOMAIN bloqueados[causa[x]] : bloqueados[causa[x]][j] = x
      BY <3>1 DEF ColasCoherentes, BloqueadosEnLista
    <3>3. causa[x] \in NombresRecursos
      BY DEF TypeOK
    <3>4. CASE causa[x] # r
      BY <2>1, <3>2, <3>3, <3>4
    <3>5. CASE causa[x] = r
      <4>1. i \in 1..Len(bloqueados[r]) /\ j \in 1..Len(bloqueados[r]) /\ i # j
        BY <1>5, <2>1, <3>1, <3>2, <3>5
      <4>2. CASE j < i
        <5>1. j \in DOMAIN bloqueados'[r] /\ bloqueados'[r][j] = x
          BY <2>1, <2>2, <3>2, <3>5, <4>1, <4>2
        <5>2. QED
          BY <3>5, <5>1
      <4>3. CASE i < j
        <5>1. j - 1 \in DOMAIN bloqueados'[r] /\ bloqueados'[r][j - 1] = x
          BY <2>1, <2>2, <3>2, <3>5, <4>1, <4>3
        <5>2. QED
          BY <3>5, <5>1
      <4>4. QED
        BY <4>1, <4>2, <4>3
    <3>6. QED
      BY <3>4, <3>5
  <2>7. QED
    BY <2>5, <2>6
<1>6. QED
  BY <1>3, <1>4, <1>5 DEF FinalizarBloqueado, ColasCoherentes

-----------------------------------------------------------------------------
(* The queue of EXIT.                                                      *)

\* What the thread of EXIT holds or has queued stays in EXIT, once.
LEMMA SalidaCoherentePaso ==
  TypeOK /\ ColasCoherentes /\ SalidaCoherente /\ [Next]_vars => SalidaCoherente'
<1> SUFFICES ASSUME TypeOK, ColasCoherentes, SalidaCoherente, [Next]_vars
             PROVE  SalidaCoherente'
  OBVIOUS
<1>1. /\ colaExit \in Seq(Pids)
      /\ \A i \in DOMAIN colaExit : colaExit[i] \in Pids
      /\ Ninguno \notin Pids
  BY RecursosAssumption DEF TypeOK, RecursosAssumption
<1>2. ASSUME UNCHANGED <<colaExit, liberando>>,
             \A x \in Pids : estado[x] = "EXIT" => estado'[x] = "EXIT"
      PROVE  SalidaCoherente'
  BY <1>1, <1>2 DEF TypeOK, SalidaCoherente
<1>3. ASSUME NEW p \in Pids, estado[p] # "EXIT", proceso_a_exit(p),
             UNCHANGED liberando
      PROVE  SalidaCoherente'
  <2>1. /\ estado'[p] = "EXIT"
        /\ \A x \in Pids : estado[x] = "EXIT" => estado'[x] = "EXIT"
    BY <1>3 DEF proceso_a_exit, TypeOK
  <2>2. /\ DOMAIN colaExit' = 1..(Len(colaExit) + 1)
        /\ DOMAIN colaExit = 1..Len(colaExit)
        /\ Len(colaExit) \in Nat
        /\ colaExit'[Len(colaExit) + 1] = p
        /\ \A i \in DOMAIN colaExit : colaExit'[i] = colaExit[i]
    BY <1>1, <1>3 DEF proceso_a_exit
  <2>3. \A i \in DOMAIN colaExit :
          /\ estado[colaExit[i]] = "EXIT"
          /\ colaExit[i] # liberando
          /\ colaExit[i] # p
    BY <1>3 DEF SalidaCoherente
  <2>4. liberando # p /\ (liberando # Ninguno => estado'[liberando] = "EXIT")
    BY <1>1, <1>3, <2>1 DEF SalidaCoherente, TypeOK
  <2>5. ASSUME NEW i \in DOMAIN colaExit'
        PROVE  /\ estado'[colaExit'[i]] = "EXIT"
               /\ colaExit'[i] # liberando
    BY <1>1, <2>1, <2>2, <2>3, <2>4, <2>5
  <2>6. ASSUME NEW i \in DOMAIN colaExit', NEW j \in DOMAIN colaExit',
               colaExit'[i] = colaExit'[j]
        PROVE  i = j
    <3>1. CASE i \in DOMAIN colaExit /\ j \in DOMAIN colaExit
      BY <2>2, <2>6, <3>1 DEF SalidaCoherente
    <3>2. CASE i = Len(colaExit) + 1 \/ j = Len(colaExit) + 1
      BY <2>2, <2>3, <2>6, <3>2
    <3>3. QED
      BY <2>2, <3>1, <3>2
  <2>7. QED
    BY <1>3, <2>4, <2>5, <2>6 DEF SalidaCoherente
<1>4. CASE TomarDeExit
  <2>1. /\ colaExit # <<>>
        /\ liberando' = Head(colaExit)
        /\ colaExit' = Tail(colaExit)
        /\ estado' = estado
    BY <1>4 DEF TomarDeExit
  <2>2. /\ 1 \in DOMAIN colaExit
        /\ liberando' = colaExit[1]
        /\ \A i \in DOMAIN colaExit' : /\ i + 1 \in DOMAIN colaExit
                                       /\ i \in Nat \ {0}
                                       /\ colaExit'[i] = colaExit[i + 1]
    BY <1>1, <2>1
  <2>3. ASSUME NEW i \in DOMAIN colaExit', colaExit'[i] = liberando'
        PROVE  FALSE
    <3>1. i + 1 = 1
      BY <2>2, <2>3 DEF SalidaCoherente
    <3>2. QED
      BY <2>2, <2>3, <3>1
  <2>4. ASSUME NEW i \in DOMAIN colaExit', NEW j \in DOMAIN colaExit',
               colaExit'[i] = colaExit'[j]
        PROVE  i = j
    <3>1. i + 1 = j + 1
      BY <2>2, <2>4 DEF SalidaCoherente
    <3>2. QED
      BY <2>2, <2>4, <3>1
  <2>5. /\ estado[liberando'] = "EXIT"
        /\ \A i \in DOMAIN colaExit' : estado[colaExit'[i]] = "EXIT"
    BY <2>2 DEF SalidaCoherente
  <2>6. QED
    BY <2>1, <2>3, <2>4, <2>5 DEF SalidaCoherente
<1>5. ASSUME NEW p \in Pids, LiberarPCB(p)
      PROVE  SalidaCoherente'
  <2>1. /\ liberando = p /\ liberando' = Ninguno
        /\ colaExit' = colaExit
        /\ \A x \in Pids : x # p => estado'[x] = estado[x]
    BY <1>5 DEF LiberarPCB, TypeOK
  <2>2. QED
    BY <1>1, <2>1 DEF SalidaCoherente
<1>6. ASSUME NEW p \in Pids,
             \/ Admitir(p) \/ Despachar(p) \/ FinQuantum(p)
             \/ BloquearPorIO(p) \/ FinIO(p) \/ FinalizarEnExec(p)
      PROVE  SalidaCoherente'
  <2>1. UNCHANGED <<colaExit, liberando>>
    BY <1>6 DEF Admitir, Despachar, FinQuantum, BloquearPorIO, FinIO, FinalizarEnExec
  <2>2. \A x \in Pids : estado[x] = "EXIT" => estado'[x] = "EXIT"
    BY <1>6 DEF TypeOK, Admitir, Despachar, FinQuantum, BloquearPorIO, FinIO,
                FinalizarEnExec, EnManejo
  <2>3. QED
    BY <1>2, <2>1, <2>2
<1>7. ASSUME NEW p \in Pids,
             SalirDeExec(p) \/ FinalizarListo(p) \/ FinalizarBloqueado(p)
      PROVE  SalidaCoherente'
  <2>1. estado[p] # "EXIT" /\ proceso_a_exit(p) /\ UNCHANGED liberando
    BY <1>7 DEF SalirDeExec, FinalizarListo, FinalizarBloqueado
  <2>2. QED
    BY <1>3, <2>1
<1>8. ASSUME NEW p \in Pids, NEW r \in NombresRecursos, EjecutarWait(p, r)
      PROVE  SalidaCoherente'
  <2>1. UNCHANGED <<colaExit, liberando>>
    BY <1>8 DEF EjecutarWait
  <2>2. \A x \in Pids : estado[x] = "EXIT" => estado'[x] = "EXIT"
    BY <1>8 DEF TypeOK, EjecutarWait, EnManejo
  <2>3. QED
    BY <1>2, <2>1, <2>2
<1>9. ASSUME NEW p \in Pids, NEW r \in NombresRecursos,
             EjecutarSignal(p, r) \/ LiberarInstancia(p, r)
      PROVE  SalidaCoherente'
  <2>1. ejecutar_instruccion_signal(p, r) /\ UNCHANGED <<colaExit, liberando>>
    BY <1>9 DEF EjecutarSignal, LiberarInstancia
  <2>2. \A x \in Pids : estado[x] = "EXIT" => estado'[x] = "EXIT"
    <3>1. CASE recurso_debe_desbloquear_proceso(bloqueados[r], instancias[r] + 1)
      <4>1. bloqueados[r] \in Seq(Pids) /\ bloqueados[r] # <<>>
        BY <3>1 DEF TypeOK, recurso_debe_desbloquear_proceso
      <4>2. 1 \in DOMAIN bloqueados[r] /\ Head(bloqueados[r]) = bloqueados[r][1]
        BY <4>1
      <4>3. estado[Head(bloqueados[r])] = "BLOCKED"
        BY <4>2 DEF ColasCoherentes, ListasCoherentes
      <4>4. estado' = [estado EXCEPT ![Head(bloqueados[r])] = "READY"]
        BY <2>1, <3>1 DEF ejecutar_instruccion_signal
      <4>5. QED
        BY <4>3, <4>4 DEF TypeOK
    <3>2. CASE ~recurso_debe_desbloquear_proceso(bloqueados[r], instancias[r] + 1)
      BY <2>1, <3>2 DEF ejecutar_instruccion_signal
    <3>3. QED
      BY <3>1, <3>2
  <2>3. QED
    BY <1>2, <2>1, <2>2
<1>10. CASE UNCHANGED vars
  BY <1>10 DEF vars, SalidaCoherente
<1>11. QED
  BY <1>4, <1>5, <1>6, <1>7, <1>8, <1>9, <1>10 DEF Next

\* Every step keeps state, cause and list of every process in agreement.
LEMMA ColasPaso ==
  TypeOK /\ ColasCoherentes /\ SalidaCoherente /\ [Next]_vars => ColasCoherentes'
<1> SUFFICES ASSUME TypeOK, ColasCoherentes, SalidaCoherente, [Next]_vars
             PROVE  ColasCoherentes'
  OBVIOUS
<1>1. CASE TomarDeExit
  BY <1>1 DEF TomarDeExit, ColasCoherentes, ListasCoherentes, BloqueadosEnLista, SinCausa
<1>2. ASSUME NEW p \in Pids,
             \/ Admitir(p) \/ Despachar(p) \/ FinQuantum(p)
             \/ BloquearPorIO(p) \/ FinIO(p) \/ SalirDeExec(p)
             \/ FinalizarListo(p)
      PROVE  ColasCoherentes'
  <2>1. /\ UNCHANGED <<usados, causa, bloqueados>>
        /\ \A x \in Pids : x # p => estado'[x] = estado[x]
    BY <1>2 DEF TypeOK, Admitir, Despachar, FinQuantum, BloquearPorIO, FinIO,
                SalirDeExec, FinalizarListo, proceso_a_exit
  <2>2. \/ estado[p] \in {"FUERA", "READY", "EXEC"}
        \/ causa[p] = Ninguno
    BY <1>2 DEF Admitir, Despachar, FinQuantum, BloquearPorIO, FinIO,
                SalirDeExec, FinalizarListo, EnManejo
  <2>3. causa[p] = Ninguno
    BY <2>2 DEF ColasCoherentes, SinCausa
  <2>4. QED
    BY <2>1, <2>3, MoverAjeno
<1>3. ASSUME NEW p \in Pids, LiberarPCB(p)
      PROVE  ColasCoherentes'
  <2>1. estado[p] = "EXIT"
    BY <1>3, RecursosAssumption DEF LiberarPCB, SalidaCoherente, RecursosAssumption
  <2>2. /\ UNCHANGED <<usados, causa, bloqueados>>
        /\ \A x \in Pids : x # p => estado'[x] = estado[x]
        /\ estado'[p] = "LIBERADO"
    BY <1>3 DEF LiberarPCB, TypeOK
  <2>3. QED
    BY <2>1, <2>2, MoverAjeno
<1>4. ASSUME NEW p \in Pids, FinalizarEnExec(p)
      PROVE  ColasCoherentes'
  BY <1>4 DEF FinalizarEnExec, ColasCoherentes, ListasCoherentes, BloqueadosEnLista,
              SinCausa
<1>5. ASSUME NEW p \in Pids, NEW r \in NombresRecursos, EjecutarSignal(p, r)
      PROVE  ColasCoherentes'
  BY <1>5, ColasTrasSignal DEF EjecutarSignal, EnManejo
<1>6. ASSUME NEW p \in Pids, NEW r \in NombresRecursos, LiberarInstancia(p, r)
      PROVE  ColasCoherentes'
  <2>1. estado[p] = "EXIT"
    BY <1>6, RecursosAssumption DEF LiberarInstancia, SalidaCoherente, RecursosAssumption
  <2>2. QED
    BY <1>6, <2>1, ColasTrasSignal DEF LiberarInstancia
<1>7. CASE UNCHANGED vars
  BY <1>7 DEF vars, ColasCoherentes, ListasCoherentes, BloqueadosEnLista, SinCausa
<1>8. QED
  BY <1>1, <1>2, <1>3, <1>4, <1>5, <1>6, <1>7, ColasTrasWait, ColasTrasKill DEF Next

\* At the start no process is blocked and none is in EXIT.
LEMMA ColasInicial == Init => ColasCoherentes /\ SalidaCoherente
<1> SUFFICES ASSUME Init PROVE ColasCoherentes /\ SalidaCoherente
  OBVIOUS
<1>1. \A r \in NombresRecursos : DOMAIN bloqueados[r] = {}
  BY DEF Init
<1>2. DOMAIN colaExit = {}
  BY DEF Init
<1>3. QED
  BY <1>1, <1>2 DEF Init, ColasCoherentes, ListasCoherentes, BloqueadosEnLista,
                    SinCausa, SalidaCoherente

(* Whatever is killed and whenever, the lists of the resources, the states *)
(* and the causes of the PCBs agree.                                       *)
THEOREM ColasInvariante == Spec => []ColasCoherentes
<1>1. Spec => [](TypeOK /\ ColasCoherentes /\ SalidaCoherente)
  BY TypeOKInicial, TypeOKPaso, ColasInicial, ColasPaso, SalidaCoherentePaso,
     PTL DEF Spec
<1>2. QED
  BY <1>1, PTL

-----------------------------------------------------------------------------
(* Mutual exclusion.                                                       *)

\* The pending WAITs of a resource can be counted.
LEMMA EsperandoFinito ==
  ASSUME NEW r \in NombresRecursos
  PROVE  IsFiniteSet(Esperando(r)) /\ Cardinality(Esperando(r)) \in Nat
<1>1. Esperando(r) \in SUBSET Pids
  BY DEF Esperando
<1>2. IsFiniteSet(Esperando(r))
  BY <1>1, FS_Subset, RecursosAssumption DEF RecursosAssumption
<1>3. QED
  BY <1>2, FS_CardinalityType

\* A counter is never further below zero than there are pending WAITs, step by step.
LEMMA DeudaPaso ==
  TypeOK /\ ColasCoherentes /\ DeudaCubierta /\ [Next]_vars => DeudaCubierta'
<1> SUFFICES ASSUME TypeOK, ColasCoherentes, DeudaCubierta, [Next]_vars,
                    NEW q \in NombresRecursos
             PROVE  (instancias[q] + Cardinality(Esperando(q)) >= 0)'
  BY DEF DeudaCubierta
<1>1. /\ instancias[q] \in Int
      /\ Cardinality(Esperando(q)) \in Nat
      /\ instancias[q] + Cardinality(Esperando(q)) >= 0
  BY EsperandoFinito DEF TypeOK, DeudaCubierta
<1>2. /\ Esperando(q)' = {x \in Pids : causa'[x] = q /\ usados'[x][q] > 0}
      /\ Esperando(q)' \in SUBSET Pids
  BY DEF Esperando
<1>3. IsFiniteSet(Esperando(q)') /\ Cardinality(Esperando(q)') \in Nat
  BY <1>2, FS_Subset, FS_CardinalityType, RecursosAssumption DEF RecursosAssumption
<1>4. ASSUME NEW p \in Pids, NEW r \in NombresRecursos, EjecutarWait(p, r)
      PROVE  (instancias[q] + Cardinality(Esperando(q)) >= 0)'
  <2>1. causa[p] = Ninguno /\ p \notin Esperando(q)
    BY <1>4, RecursosAssumption
       DEF EjecutarWait, EnManejo, ColasCoherentes, SinCausa, Esperando,
           RecursosAssumption
  <2>2. instancias'[q] = IF q = r THEN instancias[r] - 1 ELSE instancias[q]
    BY <1>4 DEF EjecutarWait, TypeOK
  <2>3. CASE recurso_debe_bloquear_proceso(instancias[r] - 1)
    <3>1. \A x \in Pids : causa'[x] = IF x = p THEN r ELSE causa[x]
      BY <1>4, <2>3 DEF EjecutarWait, TypeOK
    <3>2. CASE q = r
      <4>1. Esperando(q)' = Esperando(q) \cup {p}
        BY <1>2, <1>4, <3>1, <3>2, UsadosTrasWait DEF Esperando
      <4>2. Cardinality(Esperando(q)') = Cardinality(Esperando(q)) + 1
        BY <2>1, <4>1, EsperandoFinito, FS_AddElement
      <4>3. QED
        BY <1>1, <2>2, <3>2, <4>2
    <3>3. CASE q # r
      <4>1. Esperando(q)' = Esperando(q)
        BY <1>2, <1>4, <2>1, <3>1, <3>3, UsadosTrasWait DEF Esperando
      <4>2. QED
        BY <1>1, <2>2, <3>3, <4>1
    <3>4. QED
      BY <3>2, <3>3
  <2>4. CASE ~recurso_debe_bloquear_proceso(instancias[r] - 1)
    <3>1. causa' = causa /\ instancias[r] - 1 >= 0
      BY <1>4, <2>4 DEF EjecutarWait, recurso_debe_bloquear_proceso, TypeOK
    <3>2. CASE q = r
      <4>1. instancias'[q] >= 0 /\ instancias'[q] \in Int
        BY <1>1, <2>2, <3>1, <3>2
      <4>2. QED
        BY <1>3, <4>1
    <3>3. CASE q # r
      <4>1. Esperando(q)' = Esperando(q)
        BY <1>2, <1>4, <3>1, <3>3, UsadosTrasWait DEF Esperando
      <4>2. QED
        BY <1>1, <2>2, <3>3, <4>1
    <3>4. QED
      BY <3>2, <3>3
  <2>5. QED
    BY <2>3, <2>4
<1>5. ASSUME NEW p \in Pids, NEW r \in NombresRecursos,
             ejecutar_instruccion_signal(p, r)
      PROVE  (instancias[q] + Cardinality(Esperando(q)) >= 0)'
  <2>1. instancias'[q] = IF q = r THEN instancias[r] + 1 ELSE instancias[q]
    BY <1>5 DEF ejecutar_instruccion_signal, TypeOK
  <2>2. CASE recurso_debe_desbloquear_proceso(bloqueados[r], instancias[r] + 1)
    <3>1. CASE q = r
      BY <1>3, <2>1, <2>2, <3>1 DEF recurso_debe_desbloquear_proceso
    <3>2. CASE q # r
      <4>1. causa' = [causa EXCEPT ![Head(bloqueados[r])] = Ninguno]
        BY <1>5, <2>2 DEF ejecutar_instruccion_signal
      <4>2. bloqueados[r] \in Seq(Pids) /\ bloqueados[r] # <<>>
        BY <2>2 DEF TypeOK, recurso_debe_desbloquear_proceso
      <4>3. 1 \in DOMAIN bloqueados[r] /\ Head(bloqueados[r]) = bloqueados[r][1]
        BY <4>2
      <4>4. causa[Head(bloqueados[r])] = r
        BY <4>3 DEF ColasCoherentes, ListasCoherentes
      <4>5. \A x \in Pids : causa'[x] = q <=> causa[x] = q
        BY <3>2, <4>1, <4>4, RecursosAssumption DEF TypeOK, RecursosAssumption
      <4>6. \A x \in Pids : usados'[x][q] = usados[x][q]
        BY <1>5, <3>2, UsadosTrasSignal
      <4>7. Esperando(q)' = Esperando(q)
        BY <1>2, <4>5, <4>6 DEF Esperando
      <4>8. QED
        BY <1>1, <2>1, <3>2, <4>7
    <3>3. QED
      BY <3>1, <3>2
  <2>3. CASE ~recurso_debe_desbloquear_proceso(bloqueados[r], instancias[r] + 1)
    <3>1. causa' = causa
      BY <1>5, <2>3 DEF ejecutar_instruccion_signal
    <3>2. CASE q = r
      <4>1. Esperando(q) \ {p} \in SUBSET Esperando(q)'
        BY <1>2, <1>5, <3>1, UsadosTrasSignal DEF Esperando
      <4>2. Cardinality(Esperando(q) \ {p}) <= Cardinality(Esperando(q)')
        BY <1>3, <4>1, FS_Subset
      <4>3. /\ Cardinality(Esperando(q) \ {p}) \in Nat
            /\ Cardinality(Esperando(q) \ {p}) >= Cardinality(Esperando(q)) - 1
        <5>1. IsFiniteSet(Esperando(q))
          BY EsperandoFinito
        <5>2. /\ IsFiniteSet(Esperando(q) \ {p})
              /\ \/ Cardinality(Esperando(q) \ {p}) = Cardinality(Esperando(q)) - 1
                 \/ Cardinality(Esperando(q) \ {p}) = Cardinality(Esperando(q))
          BY <5>1, FS_RemoveElement
        <5>3. Cardinality(Esperando(q) \ {p}) \in Nat
          BY <5>2, FS_CardinalityType
        <5>4. QED
          BY <1>1, <5>2, <5>3
      <4>4. QED
        BY <1>1, <1>3, <2>1, <3>2, <4>2, <4>3
    <3>3. CASE q # r
      <4>1. \A x \in Pids : usados'[x][q] = usados[x][q]
        BY <1>5, <3>3, UsadosTrasSignal
      <4>2. Esperando(q)' = Esperando(q)
        BY <1>2, <3>1, <4>1 DEF Esperando
      <4>3. QED
        BY <1>1, <2>1, <3>3, <4>2
    <3>4. QED
      BY <3>2, <3>3
  <2>4. QED
    BY <2>2, <2>3
<1>6. CASE UNCHANGED <<usados, causa, instancias, creadas>>
  <2>1. Esperando(q)' = Esperando(q)
    BY <1>6 DEF Esperando
  <2>2. QED
    BY <1>1, <1>6, <2>1
<1>7. QED
  BY <1>4, <1>5, <1>6, PasosSinCuentas

\* At the start no counter is below zero.
LEMMA DeudaInicial == Init => DeudaCubierta
<1> SUFFICES ASSUME Init, NEW r \in NombresRecursos
             PROVE  instancias[r] + Cardinality(Esperando(r)) >= 0
  BY DEF DeudaCubierta
<1>1. instancias[r] \in Nat
  BY RecursosAssumption DEF Init, RecursosAssumption
<1>2. QED
  BY <1>1, EsperandoFinito

(* The units that are really held: those recorded as used, less one for    *)
(* each process whose last WAIT is still pending.                          *)
LEMMA ConcedidasCuenta ==
  ASSUME TypeOK, NEW r \in NombresRecursos
  PROVE  Cardinality(Concedidas(r)) =
           Cardinality(Tomadas(r)) - Cardinality(Esperando(r))
<1> DEFINE ultima(p) == <<p, usados[p][r]>>
           E == {ultima(p) : p \in Esperando(r)}
           f == [p \in Esperando(r) |-> ultima(p)]
<1>1. f \in Bijection(Esperando(r), E)
  <2>1. f \in [Esperando(r) -> E]
    OBVIOUS
  <2>2. \A x, y \in Esperando(r) : f[x] = f[y] => x = y
    OBVIOUS
  <2>3. \A e \in E : \E x \in Esperando(r) : f[x] = e
    OBVIOUS
  <2>4. f \in Injection(Esperando(r), E)
    BY <2>1, <2>2 DEF Injection, IsInjective
  <2>5. f \in Surjection(Esperando(r), E)
    BY <2>1, <2>3 DEF Surjection
  <2>6. QED
    BY <2>4, <2>5 DEF Bijection
<1>2. Cardinality(E) = Cardinality(Esperando(r))
  BY <1>1, EsperandoFinito, FS_Bijection DEF ExistsBijection
<1>3. E \subseteq Tomadas(r)
  <2>1. ASSUME NEW p \in Esperando(r)
        PROVE  ultima(p) \in Tomadas(r)
    <3>1. p \in Pids /\ usados[p][r] > 0
      BY DEF Esperando
    <3>2. usados[p][r] \in 1..MaxUsos
      BY <3>1, RecursosAssumption DEF TypeOK, RecursosAssumption
    <3>3. QED
      BY <3>1, <3>2, RecursosAssumption DEF Tomadas, RecursosAssumption
  <2>2. QED
    BY <2>1
<1>4. Tomadas(r) \cap E = E
  BY <1>3
<1>5. Cardinality(Tomadas(r) \ E) = Cardinality(Tomadas(r)) - Cardinality(E)
  BY <1>4, TomadasFinito, FS_Difference
<1>6. Concedidas(r) = Tomadas(r) \ E
  BY DEF Concedidas
<1>7. QED
  BY <1>2, <1>5, <1>6

\* The sum of the units and the bound of the debt give mutual exclusion.
LEMMA CuentasDanExclusion == TypeOK /\ Conservacion /\ DeudaCubierta => Exclusion
<1> SUFFICES ASSUME TypeOK, Conservacion, DeudaCubierta, NEW r \in NombresRecursos
             PROVE  Cardinality(Concedidas(r)) <= Capacidad(r)
  BY DEF Exclusion
<1>1. /\ instancias[r] \in Int
      /\ Capacidad(r) \in Nat
      /\ Cardinality(Tomadas(r)) \in Nat
      /\ Cardinality(Esperando(r)) \in Nat
  BY TomadasFinito, EsperandoFinito, FS_CardinalityType, RecursosAssumption
     DEF TypeOK, Capacidad, RecursosAssumption
<1>2. /\ instancias[r] + Cardinality(Tomadas(r)) = Capacidad(r)
      /\ instancias[r] + Cardinality(Esperando(r)) >= 0
  BY DEF Conservacion, DeudaCubierta
<1>3. QED
  BY <1>1, <1>2, ConcedidasCuenta

(* The conjunction of everything above is inductive. *)
THEOREM InductivoInvariante == Spec => []InvInductivo
<1>1. Init => InvInductivo
  BY TypeOKInicial, ConservacionInicial, DeudaInicial, ColasInicial DEF InvInductivo
<1>2. InvInductivo /\ [Next]_vars => InvInductivo'
  BY TypeOKPaso, ConservacionPaso, DeudaPaso, ColasPaso, SalidaCoherentePaso
     DEF InvInductivo
<1>3. QED
  BY <1>1, <1>2, PTL DEF Spec

(* WAIT and SIGNAL give mutual exclusion: the processes never hold more    *)
(* units of a resource than it has.                                        *)
THEOREM ExclusionInvariante == Spec => []Exclusion
<1>1. InvInductivo => Exclusion
  BY CuentasDanExclusion DEF InvInductivo
<1>2. QED
  BY <1>1, InductivoInvariante, PTL

-----------------------------------------------------------------------------
(* Leaving the system.                                                     *)

(* A freed process has given everything back; a step proof needs it to     *)
(* hold before as well as after.                                           *)
LiberadosSinNada ==
  \A p \in Pids : estado[p] = "LIBERADO" => \A r \in NombresRecursos : usados[p][r] = 0

\* A process in EXIT only gives units back, in every step.
LEMMA PasoDeSalidaPaso ==
  ASSUME InvInductivo, LiberadosSinNada, [Next]_vars, NEW x \in Pids
  PROVE  PasoDeSalida(x)
<1> SUFFICES ASSUME estado[x] \in {"EXIT", "LIBERADO"}
             PROVE  /\ estado'[x] \in {"EXIT", "LIBERADO"}
                    /\ \A q \in NombresRecursos : usados'[x][q] <= usados[x][q]
                    /\ estado'[x] = "LIBERADO" =>
                         \A q \in NombresRecursos : usados'[x][q] = 0
  BY DEF PasoDeSalida
<1>1. /\ TypeOK /\ ColasCoherentes /\ SalidaCoherente
      /\ \A q \in NombresRecursos : usados[x][q] \in Nat
  BY RecursosAssumption DEF InvInductivo, TypeOK, RecursosAssumption
<1>2. ASSUME usados' = usados, estado'[x] = estado[x]
      PROVE  PasoDeSalida(x)
  BY <1>1, <1>2 DEF PasoDeSalida, LiberadosSinNada
<1>3. ASSUME NEW p \in Pids, p # x \/ estado[p] \notin {"EXIT", "LIBERADO"},
             usados' = usados,
             \A y \in Pids : y # p => estado'[y] = estado[y]
      PROVE  PasoDeSalida(x)
  BY <1>2, <1>3
<1>4. ASSUME TomarDeExit \/ UNCHANGED vars
      PROVE  PasoDeSalida(x)
  BY <1>2, <1>4 DEF TomarDeExit, vars
<1>5. ASSUME NEW p \in Pids,
             \/ Admitir(p) \/ Despachar(p) \/ FinQuantum(p)
             \/ BloquearPorIO(p) \/ FinIO(p) \/ SalirDeExec(p)
             \/ FinalizarListo(p) \/ FinalizarBloqueado(p)
      PROVE  PasoDeSalida(x)
  <2>1. /\ usados' = usados
        /\ \A y \in Pids : y # p => estado'[y] = estado[y]
        /\ estado[p] \notin {"EXIT", "LIBERADO"}
    BY <1>1, <1>5 DEF TypeOK, Admitir, Despachar, FinQuantum, BloquearPorIO, FinIO,
                      SalirDeExec, FinalizarListo, FinalizarBloqueado, EnManejo,
                      proceso_a_exit
  <2>2. QED
    BY <1>3, <2>1
<1>6. ASSUME NEW p \in Pids, FinalizarEnExec(p)
      PROVE  PasoDeSalida(x)
  BY <1>2, <1>6 DEF FinalizarEnExec
<1>7. ASSUME NEW p \in Pids, LiberarPCB(p)
      PROVE  PasoDeSalida(x)
  <2>1. CASE p # x
    BY <1>1, <1>3, <1>7, <2>1 DEF LiberarPCB, TypeOK
  <2>2. CASE p = x
    BY <1>1, <1>7, <2>2 DEF LiberarPCB, TypeOK, PasoDeSalida
  <2>3. QED
    BY <2>1, <2>2
<1>8. ASSUME NEW p \in Pids, NEW r \in NombresRecursos, EjecutarWait(p, r)
      PROVE  PasoDeSalida(x)
  <2>1. p # x
    BY <1>8 DEF EjecutarWait, EnManejo
  <2>2. estado'[x] = estado[x]
    BY <1>1, <1>8, <2>1 DEF EjecutarWait, TypeOK
  <2>3. \A q \in NombresRecursos : usados'[x][q] = usados[x][q]
    BY <1>1, <1>8, <2>1, UsadosTrasWait
  <2>4. QED
    BY <1>1, <2>2, <2>3 DEF PasoDeSalida, LiberadosSinNada
<1>9. ASSUME NEW p \in Pids, NEW r \in NombresRecursos,
             EjecutarSignal(p, r) \/ LiberarInstancia(p, r)
      PROVE  PasoDeSalida(x)
  <2>1. ejecutar_instruccion_signal(p, r)
    BY <1>9 DEF EjecutarSignal, LiberarInstancia
  <2>2. estado'[x] = estado[x]
    <3>1. CASE recurso_debe_desbloquear_proceso(bloqueados[r], instancias[r] + 1)
      <4>1. bloqueados[r] \in Seq(Pids) /\ bloqueados[r] # <<>>
        BY <1>1, <3>1 DEF TypeOK, recurso_debe_desbloquear_proceso
      <4>2. 1 \in DOMAIN bloqueados[r] /\ Head(bloqueados[r]) = bloqueados[r][1]
        BY <4>1
      <4>3. Head(bloqueados[r]) # x
        BY <1>1, <4>2 DEF ColasCoherentes, ListasCoherentes
      <4>4. estado' = [estado EXCEPT ![Head(bloqueados[r])] = "READY"]
        BY <2>1, <3>1 DEF ejecutar_instruccion_signal
      <4>5. QED
        BY <1>1, <4>3, <4>4 DEF TypeOK
    <3>2. CASE ~recurso_debe_desbloquear_proceso(bloqueados[r], instancias[r] + 1)
      BY <2>1, <3>2 DEF ejecutar_instruccion_signal
    <3>3. QED
      BY <3>1, <3>2
  <2>3. ASSUME NEW q \in NombresRecursos
        PROVE  /\ usados'[x][q] <= usados[x][q]
               /\ usados[x][q] = 0 => usados'[x][q] = 0
    BY <1>1, <2>1, UsadosTrasSignal
  <2>4. QED
    BY <1>1, <2>2, <2>3 DEF PasoDeSalida, LiberadosSinNada
<1>10. PasoDeSalida(x)
  BY <1>4, <1>5, <1>6, <1>7, <1>8, <1>9 DEF Next
<1>11. QED
  BY <1>10 DEF PasoDeSalida

(* Only liberar_procesos_exit frees a PCB, and only one in EXIT. *)
LEMMA SoloLiberarDesdeExit ==
  ASSUME InvInductivo, [Next]_vars, NEW x \in Pids, estado'[x] = "LIBERADO",
         estado[x] \notin {"EXIT", "LIBERADO"}
  PROVE  FALSE
<1>1. TypeOK /\ SalidaCoherente /\ estado'[x] # estado[x]
  BY DEF InvInductivo
<1>2. CASE TomarDeExit \/ UNCHANGED vars
  BY <1>1, <1>2 DEF TomarDeExit, vars
<1>3. ASSUME NEW p \in Pids,
             \/ Admitir(p) \/ Despachar(p) \/ FinQuantum(p)
             \/ BloquearPorIO(p) \/ FinIO(p) \/ SalirDeExec(p)
             \/ FinalizarListo(p) \/ FinalizarBloqueado(p) \/ FinalizarEnExec(p)
      PROVE  FALSE
  BY <1>1, <1>3 DEF TypeOK, Admitir, Despachar, FinQuantum, BloquearPorIO, FinIO,
                    SalirDeExec, FinalizarListo, FinalizarBloqueado,
                    FinalizarEnExec, proceso_a_exit
<1>4. ASSUME NEW p \in Pids, LiberarPCB(p)
      PROVE  FALSE
  <2>1. estado[p] = "EXIT"
    BY <1>1, <1>4, RecursosAssumption DEF LiberarPCB, SalidaCoherente, RecursosAssumption
  <2>2. p # x
    BY <2>1
  <2>3. QED
    BY <1>1, <1>4, <2>2 DEF LiberarPCB, TypeOK
<1>5. ASSUME NEW p \in Pids, NEW r \in NombresRecursos, EjecutarWait(p, r)
      PROVE  FALSE
  BY <1>1, <1>5 DEF EjecutarWait, TypeOK
<1>6. ASSUME NEW p \in Pids, NEW r \in NombresRecursos,
             ejecutar_instruccion_signal(p, r)
      PROVE  FALSE
  BY <1>1, <1>6 DEF ejecutar_instruccion_signal, TypeOK
<1>7. QED
  BY <1>2, <1>3, <1>4, <1>5, <1>6 DEF Next, EjecutarSignal, LiberarInstancia

(* No process frees its PCB while it still owes units, and none that is in *)
(* EXIT takes units or runs again.                                         *)
THEOREM SalidaOrdenadaSiempre == Spec => SalidaOrdenada
<1>1. Init => LiberadosSinNada
  BY DEF Init, LiberadosSinNada
<1>2. InvInductivo /\ LiberadosSinNada /\ [Next]_vars => LiberadosSinNada'
  <2> SUFFICES ASSUME InvInductivo, LiberadosSinNada, [Next]_vars,
                      NEW p \in Pids, estado'[p] = "LIBERADO"
               PROVE  \A r \in NombresRecursos : usados'[p][r] = 0
    BY DEF LiberadosSinNada
  <2>1. CASE estado[p] \in {"EXIT", "LIBERADO"}
    BY <2>1, PasoDeSalidaPaso DEF PasoDeSalida
  <2>2. CASE estado[p] \notin {"EXIT", "LIBERADO"}
    <3>1. FALSE
      BY <2>2, SoloLiberarDesdeExit
    <3>2. QED
      BY <3>1
  <2>3. QED
    BY <2>1, <2>2
<1>3. InvInductivo /\ LiberadosSinNada /\ [Next]_vars
        => [\A p \in Pids : PasoDeSalida(p)]_vars
  BY PasoDeSalidaPaso
<1>4. QED
  BY <1>1, <1>2, <1>3, InductivoInvariante, PTL DEF Spec, SalidaOrdenada

-----------------------------------------------------------------------------
(* The order of the lists.                                                 *)

(* Those of s that stay in t do it in their order, and whoever was ahead   *)
(* of one that is out of it is out too, unless the one out is in `fuera`.  *)
EnOrden(s, t, fuera) ==
  \A i, j \in DOMAIN s : i < j =>
    \A k \in DOMAIN t : t[k] = s[i] =>
      \/ s[j] \in fuera
      \/ \E l \in DOMAIN t : k < l /\ t[l] = s[j]

(* A list that does not change keeps its order. *)
LEMMA OrdenIgual ==
  ASSUME NEW S, NEW s \in Seq(S), \A i, j \in DOMAIN s : s[i] = s[j] => i = j
  PROVE  EnOrden(s, s, {})
BY DEF EnOrden

(* Whoever comes last goes behind everybody. *)
LEMMA OrdenAlEntrar ==
  ASSUME NEW S, NEW s \in Seq(S), NEW p \in S,
         \A i, j \in DOMAIN s : s[i] = s[j] => i = j, \A i \in DOMAIN s : s[i] # p
  PROVE  EnOrden(s, Append(s, p), {})
<1> DEFINE t == Append(s, p)
<1>1. /\ Len(s) \in Nat /\ DOMAIN s = 1..Len(s) /\ DOMAIN t = 1..Len(s) + 1
      /\ \A i \in 1..Len(s) : t[i] = s[i]
      /\ t[Len(s) + 1] = p
  OBVIOUS
<1> HIDE DEF t
<1>2. ASSUME NEW i \in DOMAIN s, NEW j \in DOMAIN s, i < j, NEW k \in DOMAIN t, t[k] = s[i]
      PROVE  \E l \in DOMAIN t : k < l /\ t[l] = s[j]
  <2>1. k \in 1..Len(s)
    BY <1>1, <1>2
  <2>2. k = i
    BY <1>1, <1>2, <2>1
  <2>3. QED
    BY <1>1, <1>2, <2>2
<1>3. QED
  BY <1>2 DEF EnOrden, t

(* The first one leaves and nobody else moves. *)
LEMMA OrdenAlDespertar ==
  ASSUME NEW S, NEW s \in Seq(S), s # <<>>, \A i, j \in DOMAIN s : s[i] = s[j] => i = j
  PROVE  EnOrden(s, Tail(s), {})
<1> DEFINE t == Tail(s)
<1>1. /\ Len(s) \in Nat /\ DOMAIN s = 1..Len(s) /\ DOMAIN t = 1..Len(s) - 1
      /\ \A i \in 1..Len(s) - 1 : t[i] = s[i + 1]
  OBVIOUS
<1> HIDE DEF t
<1>2. ASSUME NEW i \in DOMAIN s, NEW j \in DOMAIN s, i < j, NEW k \in DOMAIN t, t[k] = s[i]
      PROVE  \E l \in DOMAIN t : k < l /\ t[l] = s[j]
  <2>1. k + 1 \in DOMAIN s /\ s[k + 1] = s[i]
    BY <1>1, <1>2
  <2>2. k + 1 = i
    BY <1>2, <2>1
  <2>3. j - 1 \in DOMAIN t /\ k < j - 1 /\ t[j - 1] = s[j]
    BY <1>1, <1>2, <2>2
  <2>4. QED
    BY <2>3
<1>3. QED
  BY <1>2 DEF EnOrden, t

(* The one that is killed leaves and the others keep their order. *)
LEMMA OrdenAlMatar ==
  ASSUME NEW S, NEW s \in Seq(S), NEW m \in DOMAIN s,
         \A i, j \in DOMAIN s : s[i] = s[j] => i = j
  PROVE  EnOrden(s, SinIndice(s, m), {s[m]})
<1> DEFINE t == SinIndice(s, m)
<1>1. /\ Len(s) \in Nat /\ DOMAIN s = 1..Len(s) /\ DOMAIN t = 1..Len(s) - 1 /\ m \in 1..Len(s)
      /\ \A i \in 1..Len(s) - 1 : t[i] = IF i < m THEN s[i] ELSE s[i + 1]
  BY DEF SinIndice
<1> HIDE DEF t
<1>2. ASSUME NEW i \in DOMAIN s, NEW j \in DOMAIN s, i < j, NEW k \in DOMAIN t, t[k] = s[i],
             s[j] # s[m]
      PROVE  \E l \in DOMAIN t : k < l /\ t[l] = s[j]
  <2> DEFINE kk == IF k < m THEN k ELSE k + 1
             l == IF j < m THEN j ELSE j - 1
  <2>1. kk \in DOMAIN s /\ s[kk] = s[i]
    BY <1>1, <1>2
  <2>2. kk = i
    BY <1>2, <2>1
  <2>3. j # m /\ j \in 1..Len(s) /\ i \in 1..Len(s) /\ k \in 1..Len(s) - 1
    BY <1>1, <1>2
  <2>4. l \in 1..Len(s) - 1 /\ k < l
    BY <1>1, <1>2, <2>2, <2>3
  <2>5. t[l] = s[j]
    BY <1>1, <2>3, <2>4
  <2>6. QED
    BY <1>1, <2>4, <2>5
<1>3. QED
  BY <1>2 DEF EnOrden, t

(* Every step keeps the order of every list, but for the one it kills. *)
LEMMA OrdenPaso ==
  ASSUME TypeOK, ColasCoherentes, [Next]_vars, NEW r \in NombresRecursos
  PROVE  \/ EnOrden(bloqueados[r], bloqueados'[r], {})
         \/ \E p \in Pids : /\ estado'[p] = "EXIT"
                            /\ EnOrden(bloqueados[r], bloqueados'[r], {p})
<1> DEFINE s == bloqueados[r]
<1>1. s \in Seq(Pids) /\ \A i, j \in DOMAIN s : s[i] = s[j] => i = j
  <2>1. s \in Seq(Pids)
    BY DEF TypeOK
  <2>2. \A i, j \in DOMAIN s : s[i] = s[j] => i = j
    BY DEF ColasCoherentes, ListasCoherentes
  <2>3. QED
    BY <2>1, <2>2
<1>2. CASE bloqueados'[r] = s
  <2>1. EnOrden(s, s, {})
    BY <1>1, OrdenIgual
  <2>2. QED
    BY <1>2, <2>1
<1>3. ASSUME NEW p \in Pids, EnManejo(p), bloqueados'[r] = Append(s, p)
      PROVE  EnOrden(s, bloqueados'[r], {})
  <2>1. \A i \in DOMAIN s : s[i] # p
    BY <1>3 DEF ColasCoherentes, ListasCoherentes, EnManejo
  <2>2. QED
    BY <1>1, <1>3, <2>1, OrdenAlEntrar
<1>4. CASE s # <<>> /\ bloqueados'[r] = Tail(s)
  <2>1. EnOrden(s, Tail(s), {})
    BY <1>1, <1>4, OrdenAlDespertar
  <2>2. QED
    BY <1>4, <2>1
<1>5. ASSUME NEW i \in DOMAIN s, bloqueados'[r] = SinIndice(s, i), estado'[s[i]] = "EXIT"
      PROVE  \E p \in Pids : estado'[p] = "EXIT" /\ EnOrden(s, bloqueados'[r], {p})
  <2>1. s[i] \in Pids
    BY <1>1
  <2>2. EnOrden(s, SinIndice(s, i), {s[i]})
    BY <1>1, OrdenAlMatar
  <2>3. QED
    BY <1>5, <2>1, <2>2
<1>6. ASSUME NEW p \in Pids, NEW q \in NombresRecursos, ejecutar_instruccion_signal(p, q)
      PROVE  bloqueados'[r] = s \/ (s # <<>> /\ bloqueados'[r] = Tail(s))
  <2>1. CASE bloqueados' = bloqueados
    BY <2>1
  <2>2. CASE bloqueados' = [bloqueados EXCEPT ![q] = Tail(@)] /\ bloqueados[q] # <<>>
    BY <2>2 DEF TypeOK
  <2>3. QED
    BY <1>6, <2>1, <2>2
       DEF ejecutar_instruccion_signal, recurso_debe_desbloquear_proceso
<1>7. ASSUME NEW p \in Pids, NEW q \in NombresRecursos, EjecutarWait(p, q)
      PROVE  EnManejo(p) /\ (bloqueados'[r] = s \/ bloqueados'[r] = Append(s, p))
  <2>1. EnManejo(p)
    BY <1>7 DEF EjecutarWait
  <2>2. CASE bloqueados' = bloqueados
    BY <2>1, <2>2
  <2>3. CASE bloqueados' = [bloqueados EXCEPT ![q] = Append(@, p)]
    BY <2>1, <2>3 DEF TypeOK
  <2>4. QED
    BY <1>7, <2>2, <2>3 DEF EjecutarWait
<1>8. ASSUME NEW p \in Pids, FinalizarBloqueado(p)
      PROVE  \/ bloqueados'[r] = s
             \/ \E i \in DOMAIN s : bloqueados'[r] = SinIndice(s, i) /\ estado'[s[i]] = "EXIT"
  <2>1. estado'[p] = "EXIT"
    BY <1>8 DEF FinalizarBloqueado, proceso_a_exit, TypeOK
  <2>2. CASE bloqueados' = bloqueados
    BY <2>2
  <2>3. ASSUME NEW q \in NombresRecursos, NEW i \in DOMAIN bloqueados[q],
               bloqueados[q][i] = p, bloqueados' = [bloqueados EXCEPT ![q] = SinIndice(@, i)]
        PROVE  \/ bloqueados'[r] = s
               \/ \E k \in DOMAIN s : bloqueados'[r] = SinIndice(s, k) /\ estado'[s[k]] = "EXIT"
    BY <2>1, <2>3 DEF TypeOK
  <2>4. QED
    BY <1>8, <2>2, <2>3 DEF FinalizarBloqueado
<1>9. CASE bloqueados' = bloqueados
  BY <1>2, <1>9
<1>10. ASSUME NEW p \in Pids, NEW q \in NombresRecursos,
              EjecutarSignal(p, q) \/ LiberarInstancia(p, q)
       PROVE  EnOrden(s, bloqueados'[r], {})
             \/ \E x \in Pids : estado'[x] = "EXIT" /\ EnOrden(s, bloqueados'[r], {x})
  BY <1>2, <1>4, <1>6, <1>10 DEF EjecutarSignal, LiberarInstancia
<1>11. ASSUME NEW p \in Pids, NEW q \in NombresRecursos, EjecutarWait(p, q)
       PROVE  EnOrden(s, bloqueados'[r], {})
             \/ \E x \in Pids : estado'[x] = "EXIT" /\ EnOrden(s, bloqueados'[r], {x})
  BY <1>2, <1>3, <1>7, <1>11
<1>12. ASSUME NEW p \in Pids, FinalizarBloqueado(p)
       PROVE  EnOrden(s, bloqueados'[r], {})
             \/ \E x \in Pids : estado'[x] = "EXIT" /\ EnOrden(s, bloqueados'[r], {x})
  BY <1>2, <1>5, <1>8, <1>12
<1>13. QED
  BY <1>9, <1>10, <1>11, <1>12
     DEF Next, TomarDeExit, Admitir, Despachar, FinQuantum, BloquearPorIO, FinIO, SalirDeExec,
         FinalizarListo, FinalizarEnExec, LiberarPCB, vars

(* SinAdelantamiento: nobody overtakes in the list of a resource, whoever  *)
(* is killed and whatever unit is returned in the meantime.                *)
THEOREM SinAdelantamientoSiempre == Spec => SinAdelantamiento
<1> DEFINE Paso ==
      \A r \in NombresRecursos : \A i, j \in DOMAIN bloqueados[r] :
        LET p == bloqueados[r][i]
            q == bloqueados[r][j]
        IN  i < j =>
            \A k \in DOMAIN bloqueados'[r] : bloqueados'[r][k] = p =>
              \/ estado'[q] = "EXIT"
              \/ \E l \in DOMAIN bloqueados'[r] : k < l /\ bloqueados'[r][l] = q
<1>1. InvInductivo /\ [Next]_vars => [Paso]_vars
  <2> SUFFICES ASSUME InvInductivo, [Next]_vars, NEW r \in NombresRecursos,
                      NEW i \in DOMAIN bloqueados[r], NEW j \in DOMAIN bloqueados[r], i < j,
                      NEW k \in DOMAIN bloqueados'[r], bloqueados'[r][k] = bloqueados[r][i]
               PROVE  \/ estado'[bloqueados[r][j]] = "EXIT"
                      \/ \E l \in DOMAIN bloqueados'[r] :
                           k < l /\ bloqueados'[r][l] = bloqueados[r][j]
    OBVIOUS
  <2>1. \/ EnOrden(bloqueados[r], bloqueados'[r], {})
        \/ \E p \in Pids : /\ estado'[p] = "EXIT"
                           /\ EnOrden(bloqueados[r], bloqueados'[r], {p})
    BY OrdenPaso DEF InvInductivo
  <2>2. QED
    BY <2>1 DEF EnOrden
<1>2. QED
  BY <1>1, InductivoInvariante, PTL DEF Spec, SinAdelantamiento

=============================================================================
