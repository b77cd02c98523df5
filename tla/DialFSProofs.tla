----------------------------- MODULE DialFSProofs -----------------------------
(***************************************************************************)
(* Proofs about DialFS, for every set of names and every number and size   *)
(* of the blocks.                                                          *)
(***************************************************************************)
EXTENDS DialFS, SecuenciasProofs, FiniteSetTheorems, TLAPS

-----------------------------------------------------------------------------
(* The inductive invariants.                                               *)

(* The blocks that the size of a file asks for. *)
cantidad(f) == cantidadBloques(metadata[f].tamanio)

(* A file with a first block has a metadata file and is none of those that *)
(* were read empty, and an interface that died half way is never started   *)
(* again.                                                                  *)
Registrados ==
  /\ DOMAIN metadata \subseteq creados
  /\ DOMAIN metadata \cap vacios = {}
  /\ cortada => ~viva

(* The blocks of f by the metadata of d, and a bitmap that has them all    *)
(* and no others, none of them twice.                                      *)
segun(d, f) == tramo(d[f].inicial, cantidadBloques(d[f].tamanio))
Exacto(d, bits) ==
  /\ bits = UNION {segun(d, f) : f \in DOMAIN d}
  /\ \A f, g \in DOMAIN d : f # g => segun(d, f) \cap segun(d, g) = {}

InvDialFS == TypeOK /\ Registrados /\ BitmapExacto

(* Programs write inside the size of the file, and in a file there is.     *)
Escritos ==
  \A f \in Archivos : escrito[f] <= IF existe(f) THEN metadata[f].tamanio ELSE 0

InvContenido == InvDialFS /\ Escritos /\ ContenidoConservado

-----------------------------------------------------------------------------
(* The first of a set.                                                     *)

(* What the scans for the first free block return. *)
LEMMA MinEs ==
  ASSUME NEW S \in SUBSET Nat, S # {}
  PROVE  Min(S) \in S /\ \A k \in S : Min(S) <= k
<1>1. PICK m \in S : \A k \in S : m <= k
  BY HayPrimero
<1>2. QED
  BY <1>1 DEF Min

-----------------------------------------------------------------------------
(* Blocks and bytes.                                                       *)

(* The blocks are enough for the bytes, and a file has one at least. *)
LEMMA CuantosBloques ==
  ASSUME NEW t \in Nat
  PROVE  /\ cantidadBloques(t) \in Nat \ {0}
         /\ t <= cantidadBloques(t) * BLOCK_SIZE
<1>1. BLOCK_SIZE \in Nat \ {0}
  BY DialFSAssumption
<1>2. CASE t = 0
  BY <1>1, <1>2 DEF cantidadBloques
<1>3. CASE t # 0
  <2> DEFINE q == (t + BLOCK_SIZE - 1) \div BLOCK_SIZE
  <2>1. /\ q \in Int /\ BLOCK_SIZE * q <= t + BLOCK_SIZE - 1
        /\ t + BLOCK_SIZE - 1 < BLOCK_SIZE * q + BLOCK_SIZE
    BY <1>1
  <2>2. cantidadBloques(t) = q
    BY <1>3 DEF cantidadBloques
  <2> HIDE DEF q
  <2>3. q > 0
    BY <1>1, <1>3, <2>1
  <2>4. t <= q * BLOCK_SIZE
    BY <1>1, <2>1
  <2>5. QED
    BY <2>1, <2>2, <2>3, <2>4
<1>4. QED
  BY <1>2, <1>3

(* Where a run of blocks ends in bytes. *)
LEMMA Multiplos ==
  ASSUME NEW a \in Int, NEW b \in Int, a <= b
  PROVE  a * BLOCK_SIZE \in Int /\ a * BLOCK_SIZE <= b * BLOCK_SIZE
BY DialFSAssumption

(* A sum of blocks, in bytes.                                              *)
LEMMA Suma ==
  ASSUME NEW a \in Int, NEW b \in Int
  PROVE  (a + b) * BLOCK_SIZE = a * BLOCK_SIZE + b * BLOCK_SIZE
BY DialFSAssumption

(* The same for a difference.                                              *)
LEMMA Resta ==
  ASSUME NEW a \in Int, NEW b \in Int
  PROVE  (a - b) * BLOCK_SIZE = a * BLOCK_SIZE - b * BLOCK_SIZE
BY DialFSAssumption

(* Of two runs without a common block one is before the other.             *)
LEMMA Separados ==
  ASSUME NEW a \in Nat, NEW b \in Nat, NEW c \in Nat \ {0}, NEW d \in Nat \ {0},
         tramo(a, c) \cap tramo(b, d) = {}
  PROVE  a + c <= b \/ b + d <= a
<1>1. CASE a <= b
  <2>1. b \in tramo(b, d)
    BY DEF tramo
  <2>2. b \notin a..a + c - 1
    BY <2>1 DEF tramo
  <2>3. QED
    BY <1>1, <2>2
<1>2. CASE b < a
  <2>1. a \in tramo(a, c)
    BY DEF tramo
  <2>2. a \notin b..b + d - 1
    BY <2>1 DEF tramo
  <2>3. QED
    BY <1>2, <2>2
<1>3. QED
  BY <1>1, <1>2

(* What the invariant says of a file.                                      *)
LEMMA DeUnArchivo ==
  ASSUME TypeOK, NEW f \in DOMAIN metadata
  PROVE  /\ f \in Archivos
         /\ metadata[f].inicial \in Bloques /\ metadata[f].inicial \in Nat
         /\ metadata[f].tamanio \in 0..MaxTamanio /\ metadata[f].tamanio \in Nat
         /\ cantidad(f) \in Nat \ {0}
         /\ metadata[f].tamanio <= cantidad(f) * BLOCK_SIZE
         /\ extension(f) = tramo(metadata[f].inicial, cantidad(f))
         /\ extension(f) = metadata[f].inicial..metadata[f].inicial + cantidad(f) - 1
         /\ metadata[f].inicial \in extension(f)
<1>1. /\ f \in Archivos
      /\ metadata[f].inicial \in Bloques /\ metadata[f].inicial \in Nat
      /\ metadata[f].tamanio \in 0..MaxTamanio /\ metadata[f].tamanio \in Nat
  BY DialFSAssumption DEF TypeOK, Bloques
<1>2. cantidad(f) \in Nat \ {0} /\ metadata[f].tamanio <= cantidad(f) * BLOCK_SIZE
  BY <1>1, CuantosBloques DEF cantidad
<1>3. QED
  BY <1>1, <1>2 DEF extension, tramo, cantidad

-----------------------------------------------------------------------------
(* The compaction.                                                         *)

(* The files that are moved take the first blocks, each as many as it had, *)
(* with nothing in between and nothing in common.                          *)
THEOREM Compactacion ==
  ASSUME TypeOK, BitmapExacto, ~cortada, NEW f \in DOMAIN metadata
  PROVE  /\ ocupan(otros(f)) \in Nat
         /\ ocupan(otros(f)) = Cardinality(bitmap \ extension(f))
         /\ \A g \in otros(f) :
              /\ nuevo_bloque_inicial(f, g) \in Nat
              /\ nuevo_bloque_inicial(f, g) + cantidad(g) <= ocupan(otros(f))
         /\ \A g, h \in otros(f) : g # h =>
              tramo(nuevo_bloque_inicial(f, g), cantidad(g))
                \cap tramo(nuevo_bloque_inicial(f, h), cantidad(h)) = {}
         /\ \A y \in 0..ocupan(otros(f)) - 1 :
              \E g \in otros(f) : y \in tramo(nuevo_bloque_inicial(f, g), cantidad(g))
<1> DEFINE Oc == UNION {extension(g) : g \in otros(f)}
           menores(b) == {x \in Oc : x < b}
           r == [b \in Oc |-> Cardinality(menores(b))]
           n == ocupan(otros(f))
           desde(g) == nuevo_bloque_inicial(f, g)
           ini(g) == metadata[g].inicial
<1>1. Oc = bitmap \ extension(f) /\ Oc \subseteq Bloques /\ n = Cardinality(Oc)
  BY DEF BitmapExacto, TypeOK, otros, ocupan
<1>2. IsFiniteSet(Oc) /\ n \in Nat /\ Oc \subseteq Nat
  <2>1. IsFiniteSet(Bloques) /\ Bloques \subseteq Nat
    BY FS_Interval, DialFSAssumption DEF Bloques
  <2>2. IsFiniteSet(Oc)
    BY <1>1, <2>1, FS_Subset
  <2>3. QED
    BY <1>1, <2>1, <2>2, FS_CardinalityType
<1>3. ASSUME NEW g \in otros(f)
      PROVE  /\ ini(g) \in Nat /\ cantidad(g) \in Nat \ {0}
             /\ extension(g) = ini(g)..ini(g) + cantidad(g) - 1
             /\ extension(g) = tramo(ini(g), cantidad(g))
             /\ extension(g) \subseteq Oc
  BY DeUnArchivo DEF otros
<1>4. ASSUME NEW b \in Oc
      PROVE  /\ IsFiniteSet(menores(b))
             /\ Cardinality(menores(b)) \in Nat
             /\ Cardinality(menores(b)) + 1 <= n
             /\ Cardinality(menores(b) \cup {b}) = Cardinality(menores(b)) + 1
  <2>1. menores(b) \in SUBSET Oc /\ b \notin menores(b) /\ menores(b) \cup {b} \in SUBSET Oc
    BY <1>2
  <2>2. IsFiniteSet(menores(b)) /\ Cardinality(menores(b)) \in Nat
    BY <1>2, <2>1, FS_Subset, FS_CardinalityType
  <2>3. Cardinality(menores(b) \cup {b}) = Cardinality(menores(b)) + 1
    BY <2>1, <2>2, FS_AddElement
  <2>4. Cardinality(menores(b) \cup {b}) <= Cardinality(Oc)
    BY <1>2, <2>1, FS_Subset
  <2>5. QED
    BY <1>1, <2>2, <2>3, <2>4
<1>5. r \in [Oc -> 0..n - 1]
  <2>1. ASSUME NEW b \in Oc
        PROVE  Cardinality(menores(b)) \in 0..n - 1
    <3>1. Cardinality(menores(b)) \in Nat /\ Cardinality(menores(b)) + 1 <= n
      BY <1>4
    <3>2. n \in Nat
      BY <1>2
    <3> HIDE DEF n, menores
    <3>3. QED
      BY <3>1, <3>2
  <2> HIDE DEF n, menores, Oc
  <2>2. QED
    BY <2>1
<1>6. ASSUME NEW b \in Oc, NEW c \in Oc, b # c
      PROVE  r[b] # r[c]
  <2>1. ASSUME NEW d \in Oc, NEW e \in Oc, d < e
        PROVE  r[d] < r[e]
    <3>1. menores(d) \cup {d} \in SUBSET menores(e)
      BY <1>2, <2>1
    <3>2. IsFiniteSet(menores(e)) /\ Cardinality(menores(e)) \in Nat
      BY <1>4
    <3>3. Cardinality(menores(d) \cup {d}) <= Cardinality(menores(e))
      BY <3>1, <3>2, FS_Subset
    <3>4. Cardinality(menores(d) \cup {d}) = Cardinality(menores(d)) + 1
      BY <1>4
    <3>5. Cardinality(menores(d)) \in Nat
      BY <1>4
    <3>6. QED
      BY <3>2, <3>3, <3>4, <3>5
  <2>2. r[b] \in Nat /\ r[c] \in Nat
    BY <1>4
  <2>3. b < c \/ c < b
    BY <1>2, <1>6
  <2> HIDE DEF r
  <2>4. QED
    BY <2>1, <2>2, <2>3
<1>7. ASSUME NEW y \in 0..n - 1
      PROVE  \E b \in Oc : r[b] = y
  <2>1. SUFFICES ASSUME \A b \in Oc : r[b] # y
                 PROVE  FALSE
    OBVIOUS
  <2> DEFINE T == (0..n - 1) \ {y}
  <2>2. IsFiniteSet(0..n - 1) /\ Cardinality(0..n - 1) = n
    BY <1>2, FS_Interval
  <2>3. IsFiniteSet(T) /\ Cardinality(T) = n - 1
    BY <2>2, FS_RemoveElement
  <2>4. r \in [Oc -> T]
    BY <1>5, <2>1
  <2> HIDE DEF r, T, Oc, n
  <2>5. \E b, c \in Oc : b # c /\ r[b] = r[c]
    BY <1>1, <1>2, <2>3, <2>4, FS_PigeonHole
  <2>6. QED
    BY <1>6, <2>5
<1>8. ASSUME NEW g \in otros(f)
      PROVE  desde(g) = Cardinality(menores(ini(g)))
  <2> DEFINE antes == {h \in otros(f) : ini(h) < ini(g)}
  <2>1. ASSUME NEW h \in otros(f)
        PROVE  h \in antes => \A x \in extension(h) : x < ini(g)
    <3>1. SUFFICES ASSUME h \in antes
                   PROVE  ini(h) + cantidad(h) <= ini(g)
      BY <1>3
    <3>2. tramo(ini(h), cantidad(h)) \cap tramo(ini(g), cantidad(g)) = {}
      BY <1>3, <3>1 DEF BitmapExacto, otros
    <3>3. ini(h) + cantidad(h) <= ini(g) \/ ini(g) + cantidad(g) <= ini(h)
      BY <1>3, <3>2, Separados
    <3>4. QED
      BY <1>3, <3>1, <3>3
  <2>2. ASSUME NEW h \in otros(f), NEW x \in extension(h), x < ini(g)
        PROVE  h \in antes
    BY <1>3, <2>2
  <2>3. UNION {extension(h) : h \in antes} = menores(ini(g))
    BY <2>1, <2>2
  <2>4. QED
    BY <2>3 DEF nuevo_bloque_inicial, ocupan
<1>9. ASSUME NEW g \in otros(f), NEW i \in 0..cantidad(g) - 1
      PROVE  ini(g) + i \in extension(g) /\ r[ini(g) + i] = desde(g) + i
  <2>1. /\ ini(g) \in Oc /\ ini(g) + i \in extension(g) /\ ini(g) + i \in Oc
        /\ \A x \in ini(g)..ini(g) + i - 1 : x \in Oc
    <3>1. /\ ini(g) \in Nat /\ cantidad(g) \in Nat \ {0} /\ i \in 0..cantidad(g) - 1
          /\ extension(g) = ini(g)..ini(g) + cantidad(g) - 1 /\ extension(g) \subseteq Oc
      BY <1>3
    <3> HIDE DEF Oc, ini
    <3>2. ini(g) \in extension(g) /\ ini(g) + i \in extension(g)
          /\ (ini(g)..ini(g) + i - 1) \subseteq extension(g)
      BY <3>1
    <3>3. QED
      BY <3>1, <3>2
  <2>2. menores(ini(g) + i) = menores(ini(g)) \cup (ini(g)..ini(g) + i - 1)
    <3>1. ini(g) \in Nat /\ i \in Nat
      BY <1>3
    <3>2. ASSUME NEW x
          PROVE  x \in menores(ini(g) + i)
                   <=> x \in menores(ini(g)) \cup (ini(g)..ini(g) + i - 1)
      <4> HIDE DEF Oc, ini
      <4>1. CASE x \in Oc
        <5>1. x \in Nat
          BY <1>2, <4>1
        <5>2. QED
          BY <3>1, <4>1, <5>1
      <4>2. CASE x \notin Oc
        BY <2>1, <4>2
      <4>3. QED
        BY <4>1, <4>2
    <3> HIDE DEF menores
    <3>3. QED
      BY <3>2
  <2>3. menores(ini(g)) \cap (ini(g)..ini(g) + i - 1) = {}
    BY <1>2, <1>3
  <2>4. IsFiniteSet(ini(g)..ini(g) + i - 1) /\ Cardinality(ini(g)..ini(g) + i - 1) = i
    <3>1. ini(g) \in Nat /\ i \in Nat
      BY <1>3
    <3> HIDE DEF ini
    <3>2. ASSUME NEW a \in Int, NEW b \in Int, a <= b + 1
          PROVE  IsFiniteSet(a..b) /\ Cardinality(a..b) = b - a + 1
      BY <3>2, FS_Interval
    <3>3. /\ ini(g) \in Int /\ ini(g) + i - 1 \in Int /\ ini(g) <= (ini(g) + i - 1) + 1
          /\ (ini(g) + i - 1) - ini(g) + 1 = i
      BY <3>1
    <3>4. IsFiniteSet(ini(g)..ini(g) + i - 1)
          /\ Cardinality(ini(g)..ini(g) + i - 1) = (ini(g) + i - 1) - ini(g) + 1
      BY <3>2, <3>3
    <3>5. QED
      BY <3>3, <3>4
  <2>5. IsFiniteSet(menores(ini(g))) /\ Cardinality(menores(ini(g))) \in Nat
    BY <1>4, <2>1
  <2>6. Cardinality(menores(ini(g) + i))
          = Cardinality(menores(ini(g))) + Cardinality(ini(g)..ini(g) + i - 1) - Cardinality({})
    <3> DEFINE A == menores(ini(g))
               B == ini(g)..ini(g) + i - 1
    <3>1. A \cap B = {} /\ IsFiniteSet(A) /\ IsFiniteSet(B) /\ menores(ini(g) + i) = A \cup B
      BY <2>2, <2>3, <2>4, <2>5
    <3> HIDE DEF A, B, menores
    <3>2. Cardinality(A \cup B) = Cardinality(A) + Cardinality(B) - Cardinality(A \cap B)
      BY <3>1, FS_Union
    <3>3. QED
      BY <3>1, <3>2 DEF A, B
  <2>7. Cardinality(menores(ini(g) + i)) = Cardinality(menores(ini(g))) + i
    BY <2>4, <2>5, <2>6, FS_EmptySet
  <2>8. QED
    BY <1>8, <2>1, <2>7
<1>10. ASSUME NEW g \in otros(f)
       PROVE  desde(g) \in Nat /\ desde(g) + cantidad(g) <= n
  <2>1. desde(g) \in Nat
    <3>1. ini(g) \in extension(g) /\ extension(g) \subseteq Oc
      BY <1>3, DeUnArchivo DEF otros
    <3>2. ini(g) \in Oc
      BY <3>1
    <3> HIDE DEF Oc, menores, ini, desde
    <3>3. QED
      BY <1>4, <1>8, <3>2
  <2>2. cantidad(g) - 1 \in 0..cantidad(g) - 1
    BY <1>3
  <2>3. r[ini(g) + (cantidad(g) - 1)] = desde(g) + (cantidad(g) - 1)
        /\ ini(g) + (cantidad(g) - 1) \in Oc
    BY <1>3, <1>9, <2>2
  <2>4. r[ini(g) + (cantidad(g) - 1)] \in 0..n - 1
    BY <1>5, <2>3
  <2>5. QED
    BY <1>2, <1>3, <2>1, <2>3, <2>4
<1>11. ASSUME NEW g \in otros(f), NEW y \in tramo(desde(g), cantidad(g))
       PROVE  \E b \in extension(g) : r[b] = y /\ b \in Oc
  <2>1. y - desde(g) \in 0..cantidad(g) - 1 /\ y = desde(g) + (y - desde(g))
    BY <1>3, <1>10 DEF tramo
  <2>2. r[ini(g) + (y - desde(g))] = desde(g) + (y - desde(g))
        /\ ini(g) + (y - desde(g)) \in extension(g)
    BY <1>9, <2>1
  <2> HIDE DEF r
  <2>3. QED
    BY <1>3, <2>1, <2>2
<1>12. ASSUME NEW g \in otros(f), NEW h \in otros(f), g # h
       PROVE  tramo(desde(g), cantidad(g)) \cap tramo(desde(h), cantidad(h)) = {}
  <2>1. SUFFICES ASSUME NEW y \in tramo(desde(g), cantidad(g)),
                        y \in tramo(desde(h), cantidad(h))
                 PROVE  FALSE
    OBVIOUS
  <2> HIDE DEF r, Oc, desde
  <2>2. PICK b \in extension(g) : r[b] = y /\ b \in Oc
    BY <1>11
  <2>3. PICK c \in extension(h) : r[c] = y /\ c \in Oc
    BY <1>11, <2>1
  <2>4. b # c
    BY <1>12 DEF BitmapExacto, otros
  <2>5. QED
    BY <1>6, <2>2, <2>3, <2>4
<1>13. ASSUME NEW y \in 0..n - 1
       PROVE  \E g \in otros(f) : y \in tramo(desde(g), cantidad(g))
  <2>1. PICK b \in Oc : r[b] = y
    BY <1>7
  <2>2. PICK g \in otros(f) : b \in extension(g)
    OBVIOUS
  <2> HIDE DEF r, Oc
  <2>3. b - ini(g) \in 0..cantidad(g) - 1 /\ b = ini(g) + (b - ini(g))
    BY <1>3, <2>2
  <2>4. r[b] = desde(g) + (b - ini(g))
    BY <1>9, <2>3
  <2>5. y \in tramo(desde(g), cantidad(g))
    BY <1>3, <1>10, <2>1, <2>3, <2>4 DEF tramo
  <2>6. QED
    BY <2>5
<1>14. QED
  BY <1>1, <1>2, <1>10, <1>12, <1>13

-----------------------------------------------------------------------------
(* A bitmap that is exact stays so.                                        *)

(* BitmapExacto is what Exacto says of the metadata and of the bitmap. *)
LEMMA ExactoEs ==
  BitmapExacto <=> (~cortada => Exacto(metadata, bitmap))
BY DEF BitmapExacto, Exacto, segun, extension

(* The blocks of a file are freed. *)
LEMMA Quitar ==
  ASSUME NEW d, NEW bits, NEW f \in DOMAIN d, Exacto(d, bits)
  PROVE  Exacto([g \in DOMAIN d \ {f} |-> d[g]], bits \ segun(d, f))
<1> DEFINE e == [g \in DOMAIN d \ {f} |-> d[g]]
<1>1. DOMAIN e = DOMAIN d \ {f} /\ \A g \in DOMAIN e : segun(e, g) = segun(d, g)
  BY DEF segun
<1>2. ASSUME NEW x
      PROVE  x \in bits \ segun(d, f) <=> \E g \in DOMAIN e : x \in segun(e, g)
  <2> HIDE DEF e
  <2>1. x \in bits <=> \E g \in DOMAIN d : x \in segun(d, g)
    BY DEF Exacto
  <2>2. \A g \in DOMAIN e : x \in segun(e, g) => x \notin segun(d, f)
    BY <1>1 DEF Exacto
  <2>3. x \notin segun(d, f) => \A g \in DOMAIN d : x \in segun(d, g) => g # f
    OBVIOUS
  <2>4. QED
    BY <1>1, <2>1, <2>2, <2>3
<1>3. ASSUME NEW g \in DOMAIN e, NEW h \in DOMAIN e, g # h
      PROVE  segun(e, g) \cap segun(e, h) = {}
  BY <1>1, <1>3 DEF Exacto
<1> HIDE DEF e
<1>4. bits \ segun(d, f) = UNION {segun(e, g) : g \in DOMAIN e}
  BY <1>2
<1>5. QED
  BY <1>3, <1>4 DEF Exacto, e

(* A file takes blocks that nobody has. *)
LEMMA Agregar ==
  ASSUME NEW d, NEW bits, NEW f, NEW b, NEW t, f \notin DOMAIN d, Exacto(d, bits),
         tramo(b, cantidadBloques(t)) \cap bits = {}
  PROVE  Exacto(poner(d, f, b, t), bits \cup tramo(b, cantidadBloques(t)))
<1> DEFINE e == poner(d, f, b, t)
           nuevos == tramo(b, cantidadBloques(t))
<1>1. /\ DOMAIN e = DOMAIN d \cup {f}
      /\ segun(e, f) = nuevos
      /\ \A g \in DOMAIN d : segun(e, g) = segun(d, g) /\ segun(d, g) \subseteq bits
  BY DEF poner, segun, Exacto
<1> HIDE DEF e, nuevos
<1>2. ASSUME NEW x
      PROVE  x \in bits \cup nuevos <=> \E g \in DOMAIN e : x \in segun(e, g)
  BY <1>1 DEF Exacto
<1>3. ASSUME NEW g \in DOMAIN e, NEW h \in DOMAIN e, g # h
      PROVE  segun(e, g) \cap segun(e, h) = {}
  <2>1. CASE g = f
    BY <1>1, <1>3, <2>1 DEF nuevos
  <2>2. CASE h = f
    BY <1>1, <1>3, <2>2 DEF nuevos
  <2>3. CASE g # f /\ h # f
    BY <1>1, <1>3, <2>3 DEF Exacto
  <2>4. QED
    BY <2>1, <2>2, <2>3
<1>4. bits \cup nuevos = UNION {segun(e, g) : g \in DOMAIN e}
  BY <1>2
<1>5. QED
  BY <1>3, <1>4 DEF Exacto, e, nuevos

(* A file gives back its blocks and takes others that nobody else has. *)
LEMMA Cambiar ==
  ASSUME NEW d, NEW bits, NEW f \in DOMAIN d, NEW b, NEW t, Exacto(d, bits),
         tramo(b, cantidadBloques(t)) \cap (bits \ segun(d, f)) = {}
  PROVE  Exacto(poner(d, f, b, t), (bits \ segun(d, f)) \cup tramo(b, cantidadBloques(t)))
<1> DEFINE e == [g \in DOMAIN d \ {f} |-> d[g]]
<1>1. Exacto(e, bits \ segun(d, f))
  BY Quitar
<1>2. poner(e, f, b, t) = poner(d, f, b, t)
  BY DEF poner
<1>3. f \notin DOMAIN e
  OBVIOUS
<1> HIDE DEF e
<1>4. Exacto(poner(e, f, b, t), (bits \ segun(d, f)) \cup tramo(b, cantidadBloques(t)))
  BY <1>1, <1>3, Agregar
<1>5. QED
  BY <1>2, <1>4

(* The same as ExactoEs, of the next state. *)
LEMMA ExactoSera ==
  BitmapExacto' <=> (~cortada' => Exacto(metadata', bitmap'))
BY DEF BitmapExacto, Exacto, segun, extension

-----------------------------------------------------------------------------
(* The steps: the blocks.                                                  *)

(* A file that is created takes the first free block. *)
LEMMA AlCrear ==
  ASSUME InvDialFS, NEW f \in Archivos, interfaz_fs_create(f)
  PROVE  InvDialFS'
<1>1. viva /\ ~cortada /\ f \notin DOMAIN metadata /\ f \notin vacios
  BY DEF interfaz_fs_create, InvDialFS, Registrados, TypeOK
<1>2. /\ creados' = creados \cup {f} /\ vacios' = vacios /\ viva' = viva /\ cortada' = cortada
      /\ bloques' = bloques /\ pedido' = pedido /\ escrito' = escrito
  BY DEF interfaz_fs_create, proceso
<1>3. CASE libres = {}
  <2>1. metadata' = metadata /\ bitmap' = bitmap
    BY <1>3 DEF interfaz_fs_create
  <2>2. TypeOK' /\ Registrados'
    BY <1>1, <1>2, <2>1 DEF InvDialFS, TypeOK, Registrados
  <2>3. BitmapExacto'
    BY <1>2, <2>1, ExactoEs, ExactoSera DEF InvDialFS
  <2>4. QED
    BY <2>2, <2>3 DEF InvDialFS
<1>4. CASE libres # {}
  <2> DEFINE b == Min(libres)
  <2>1. bitmap' = bitmap \cup {b} /\ metadata' = poner(metadata, f, b, 0)
    BY <1>4 DEF interfaz_fs_create
  <2>2. libres \in SUBSET Nat
    BY DialFSAssumption DEF libres, Bloques
  <2>3. b \in libres
    BY <1>4, <2>2, MinEs
  <2>4. b \in Bloques /\ b \notin bitmap /\ b \in Nat
    BY <2>2, <2>3 DEF libres
  <2> HIDE DEF b
  <2>5. tramo(b, cantidadBloques(0)) = {b}
    BY <2>4 DEF tramo, cantidadBloques
  <2>6. DOMAIN metadata' = DOMAIN metadata \cup {f}
        /\ metadata'[f] = [inicial |-> b, tamanio |-> 0]
        /\ \A g \in DOMAIN metadata : metadata'[g] = metadata[g]
    BY <1>1, <2>1 DEF poner
  <2>7. TypeOK'
    <3>1. \A g \in DOMAIN metadata' :
            metadata'[g] \in [inicial : Bloques, tamanio : 0..MaxTamanio]
      BY <2>4, <2>6, DialFSAssumption DEF InvDialFS, TypeOK
    <3>2. QED
      BY <1>2, <2>1, <2>4, <2>6, <3>1 DEF InvDialFS, TypeOK
  <2>8. Registrados'
    BY <1>1, <1>2, <2>6 DEF InvDialFS, Registrados
  <2>9. BitmapExacto'
    <3>1. Exacto(metadata, bitmap)
      BY <1>1, ExactoEs DEF InvDialFS
    <3>2. Exacto(metadata', bitmap')
      BY <1>1, <2>1, <2>4, <2>5, <3>1, Agregar
    <3>3. QED
      BY <3>2, ExactoSera
  <2>10. QED
    BY <2>7, <2>8, <2>9 DEF InvDialFS
<1>5. QED
  BY <1>3, <1>4

(* A file that is deleted frees its blocks. *)
LEMMA AlBorrar ==
  ASSUME InvDialFS, NEW f \in Archivos, interfaz_fs_delete(f)
  PROVE  InvDialFS'
<1>1. /\ viva /\ ~cortada /\ f \in DOMAIN metadata /\ f \notin vacios
      /\ vacios' = vacios /\ viva' = viva /\ cortada' = cortada
      /\ creados' = creados \ {f}
      /\ bitmap' = bitmap \ segun(metadata, f)
      /\ metadata' = [g \in DOMAIN metadata \ {f} |-> metadata[g]]
      /\ bloques' = olvidar(bloques, f, 0)
  BY DEF interfaz_fs_delete, InvDialFS, Registrados, existe, proceso, segun, extension
<1>2. DOMAIN metadata' = DOMAIN metadata \ {f}
      /\ \A g \in DOMAIN metadata' : metadata'[g] = metadata[g]
  BY <1>1
<1>3. pedido' \in [Archivos -> 0..MaxTamanio] /\ escrito' \in [Archivos -> 0..MaxTamanio]
  BY DialFSAssumption DEF interfaz_fs_delete, InvDialFS, TypeOK
<1>4. DOMAIN bloques' = Bytes
  BY <1>1 DEF olvidar
<1>5. TypeOK'
  BY <1>1, <1>2, <1>3, <1>4 DEF InvDialFS, TypeOK
<1>6. Registrados'
  BY <1>1, <1>2 DEF InvDialFS, Registrados
<1>7. BitmapExacto'
  <2>1. Exacto(metadata, bitmap)
    BY <1>1, ExactoEs DEF InvDialFS
  <2>2. Exacto(metadata', bitmap')
    BY <1>1, <2>1, Quitar
  <2>3. QED
    BY <2>2, ExactoSera
<1>8. QED
  BY <1>5, <1>6, <1>7 DEF InvDialFS

(* Writing does not touch the blocks that a file has. *)
LEMMA AlEscribir ==
  ASSUME InvDialFS, NEW f \in Archivos, NEW n \in 0..MaxTamanio, interfaz_fs_write(f, n)
  PROVE  InvDialFS'
<1>1. CASE viva' = FALSE /\ escrito' = escrito /\ bloques' = bloques
           /\ UNCHANGED <<metadata, creados, vacios, bitmap, cortada, pedido>>
  <2>1. TypeOK' /\ Registrados'
    BY <1>1 DEF InvDialFS, TypeOK, Registrados
  <2>2. BitmapExacto'
    BY <1>1, ExactoEs, ExactoSera DEF InvDialFS
  <2>3. QED
    BY <2>1, <2>2 DEF InvDialFS
<1>2. CASE /\ escrito' = [escrito EXCEPT ![f] = IF n > @ THEN n ELSE @]
           /\ DOMAIN bloques' = Bytes
           /\ UNCHANGED <<metadata, creados, bitmap, viva, vacios, cortada, pedido>>
  <2>1. escrito' \in [Archivos -> 0..MaxTamanio]
    BY <1>2 DEF InvDialFS, TypeOK
  <2>2. TypeOK' /\ Registrados'
    BY <1>2, <2>1 DEF InvDialFS, TypeOK, Registrados
  <2>3. BitmapExacto'
    BY <1>2, ExactoEs, ExactoSera DEF InvDialFS
  <2>4. QED
    BY <2>2, <2>3 DEF InvDialFS
<1>3. QED
  <2>1. CASE ~existe(f) /\ terminar
    BY <1>1, <2>1 DEF interfaz_fs_write, terminar, proceso
  <2>2. CASE existe(f)
    BY <1>2, <2>2 DEF interfaz_fs_write, proceso
  <2>3. QED
    BY <2>1, <2>2 DEF interfaz_fs_write

(* The interface that starts again finds the bitmap it left. *)
LEMMA AlArrancar ==
  ASSUME InvDialFS, inicializar_fs
  PROVE  InvDialFS'
<1>1. bitmap' = bitmap
  <2>1. \A x \in bitmap : x \in 0..x
    BY DialFSAssumption DEF InvDialFS, TypeOK, Bloques
  <2>2. crear_bitmap(bitmap) = bitmap
    BY <2>1 DEF crear_bitmap
  <2>3. QED
    BY <2>2 DEF inicializar_fs
<1>2. TypeOK' /\ Registrados'
  BY <1>1 DEF InvDialFS, TypeOK, Registrados, inicializar_fs
<1>3. BitmapExacto'
  BY <1>1, ExactoEs, ExactoSera DEF InvDialFS, inicializar_fs
<1>4. QED
  BY <1>2, <1>3 DEF InvDialFS

-----------------------------------------------------------------------------
(* The steps: a file grows or is cut.                                      *)

(* What a truncate leaves right on the disk and in the dictionary. *)
DiscoSano(d, bits, datos, vs, vi, co) ==
  /\ DOMAIN d = DOMAIN metadata
  /\ \A g \in DOMAIN d : d[g] \in [inicial : Bloques, tamanio : 0..MaxTamanio]
  /\ bits \subseteq Bloques
  /\ DOMAIN datos = Bytes
  /\ vs = vacios /\ vi \in BOOLEAN /\ co \in BOOLEAN /\ (co => ~vi)
  /\ ~co => Exacto(d, bits)

(* The metadata of one file changes. *)
LEMMA PonerTipo ==
  ASSUME TypeOK, NEW f \in DOMAIN metadata, NEW b \in Bloques, NEW t \in 0..MaxTamanio,
         NEW d, d = poner(metadata, f, b, t)
  PROVE  /\ DOMAIN d = DOMAIN metadata
         /\ \A g \in DOMAIN d : d[g] \in [inicial : Bloques, tamanio : 0..MaxTamanio]
BY DEF TypeOK, poner

(* The file stays where it is and takes the blocks that follow it. *)
LEMMA AlCrecerEnElLugar ==
  ASSUME TypeOK, Exacto(metadata, bitmap), viva = TRUE, cortada = FALSE,
         NEW f \in DOMAIN metadata, NEW nuevo \in 0..MaxTamanio,
         cantidad(f) < cantidadBloques(nuevo),
         tramo(metadata[f].inicial, cantidadBloques(nuevo)) \ extension(f) \subseteq libres
  PROVE  DiscoSano(poner(metadata, f, metadata[f].inicial, nuevo),
                   bitmap \cup (tramo(metadata[f].inicial, cantidadBloques(nuevo))
                                  \ extension(f)),
                   bloques, vacios, viva, cortada)
<1> DEFINE ini == metadata[f].inicial
           total == cantidadBloques(nuevo)
           d == poner(metadata, f, ini, nuevo)
           despues == tramo(ini, total)
           bits == bitmap \cup (despues \ extension(f))
<1>1. /\ ini \in Bloques /\ ini \in Nat /\ cantidad(f) \in Nat
      /\ extension(f) = ini..ini + cantidad(f) - 1
  BY DeUnArchivo
<1>2. total \in Nat
  BY CuantosBloques, DialFSAssumption
<1>3. extension(f) \subseteq despues
  BY <1>1, <1>2 DEF tramo
<1>4. extension(f) = segun(metadata, f) /\ extension(f) \subseteq bitmap
  BY DEF extension, segun, Exacto
<1>5. bits = (bitmap \ segun(metadata, f)) \cup despues
  <2> HIDE DEF despues
  <2>1. QED
    BY <1>3, <1>4
<1>6. despues \cap (bitmap \ segun(metadata, f)) = {}
  BY <1>4 DEF libres
<1>7. Exacto(d, bits)
  <2>1. Exacto(d, (bitmap \ segun(metadata, f)) \cup despues)
    BY <1>6, Cambiar
  <2> HIDE DEF d, bits, despues
  <2>2. QED
    BY <1>5, <2>1
<1>8. bits \subseteq Bloques
  BY DEF TypeOK, libres
<1>9. DOMAIN d = DOMAIN metadata
      /\ \A g \in DOMAIN d : d[g] \in [inicial : Bloques, tamanio : 0..MaxTamanio]
  BY <1>1, PonerTipo
<1>10. DOMAIN bloques = Bytes
  BY DEF TypeOK
<1> HIDE DEF d, bits
<1>11. DiscoSano(d, bits, bloques, vacios, viva, cortada)
  BY <1>7, <1>8, <1>9, <1>10 DEF DiscoSano
<1>12. QED
  BY <1>11 DEF d, bits

(* The file moves to a run of free blocks, its own ones among them. *)
LEMMA AlMudarse ==
  ASSUME TypeOK, Exacto(metadata, bitmap), viva = TRUE, cortada = FALSE,
         NEW f \in DOMAIN metadata, NEW nuevo \in 0..MaxTamanio,
         NEW b \in comienzos(libres \cup extension(f), cantidadBloques(nuevo)),
         NEW datos, DOMAIN datos = Bytes
  PROVE  DiscoSano(poner(metadata, f, b, nuevo),
                   (bitmap \ extension(f)) \cup tramo(b, cantidadBloques(nuevo)),
                   datos, vacios, viva, cortada)
<1> DEFINE d == poner(metadata, f, b, nuevo)
           despues == tramo(b, cantidadBloques(nuevo))
           bits == (bitmap \ extension(f)) \cup despues
<1>1. b \in Bloques /\ despues \subseteq libres \cup extension(f)
  BY DEF comienzos
<1>2. extension(f) = segun(metadata, f) /\ extension(f) \subseteq bitmap
  BY DEF extension, segun, Exacto
<1>3. despues \cap (bitmap \ segun(metadata, f)) = {}
  BY <1>1, <1>2 DEF libres
<1>4. Exacto(d, bits)
  BY <1>2, <1>3, Cambiar
<1>5. bits \subseteq Bloques
  <2> HIDE DEF despues
  <2>1. QED
    BY <1>1, <1>2 DEF TypeOK, libres
<1>6. DOMAIN d = DOMAIN metadata
      /\ \A g \in DOMAIN d : d[g] \in [inicial : Bloques, tamanio : 0..MaxTamanio]
  BY <1>1, PonerTipo
<1> HIDE DEF d, bits
<1>7. DiscoSano(d, bits, datos, vacios, viva, cortada)
  BY <1>4, <1>5, <1>6 DEF DiscoSano
<1>8. QED
  BY <1>7 DEF d, bits

(* The file gives back its last blocks. *)
LEMMA AlReducir ==
  ASSUME TypeOK, Exacto(metadata, bitmap), viva = TRUE, cortada = FALSE,
         NEW f \in DOMAIN metadata, NEW nuevo \in 0..MaxTamanio,
         cantidad(f) > cantidadBloques(nuevo),
         NEW datos, DOMAIN datos = Bytes
  PROVE  DiscoSano(poner(metadata, f, metadata[f].inicial, nuevo),
                   bitmap \ (extension(f)
                               \ tramo(metadata[f].inicial, cantidadBloques(nuevo))),
                   datos, vacios, viva, cortada)
<1> DEFINE ini == metadata[f].inicial
           total == cantidadBloques(nuevo)
           d == poner(metadata, f, ini, nuevo)
           despues == tramo(ini, total)
           bits == bitmap \ (extension(f) \ despues)
<1>1. /\ ini \in Bloques /\ ini \in Nat /\ cantidad(f) \in Nat
      /\ extension(f) = ini..ini + cantidad(f) - 1
  BY DeUnArchivo
<1>2. total \in Nat
  BY CuantosBloques, DialFSAssumption
<1>3. despues \subseteq extension(f)
  BY <1>1, <1>2 DEF tramo
<1>4. extension(f) = segun(metadata, f) /\ extension(f) \subseteq bitmap
  BY DEF extension, segun, Exacto
<1>5. bits = (bitmap \ segun(metadata, f)) \cup despues
  <2> HIDE DEF despues
  <2>1. QED
    BY <1>3, <1>4
<1>6. despues \cap (bitmap \ segun(metadata, f)) = {}
  <2> HIDE DEF despues
  <2>1. QED
    BY <1>3, <1>4
<1>7. Exacto(d, bits)
  <2>1. Exacto(d, (bitmap \ segun(metadata, f)) \cup despues)
    BY <1>6, Cambiar
  <2> HIDE DEF d, bits, despues
  <2>2. QED
    BY <1>5, <2>1
<1>8. bits \subseteq Bloques
  BY DEF TypeOK
<1>9. DOMAIN d = DOMAIN metadata
      /\ \A g \in DOMAIN d : d[g] \in [inicial : Bloques, tamanio : 0..MaxTamanio]
  BY <1>1, PonerTipo
<1> HIDE DEF d, bits
<1>10. DiscoSano(d, bits, datos, vacios, viva, cortada)
  BY <1>7, <1>8, <1>9 DEF DiscoSano
<1>11. QED
  BY <1>10 DEF d, bits

(* Once the blocks of f are free, the others and those that f asks for fit *)
(* in the bitmap if there are enough free ones.                            *)
LEMMA Entran ==
  ASSUME TypeOK, BitmapExacto, cortada = FALSE, NEW f \in DOMAIN metadata
  PROVE  /\ ocupan(otros(f)) \in Nat /\ ocupan(otros(f)) <= BLOCK_COUNT
         /\ Cardinality(libres \cup extension(f)) = BLOCK_COUNT - ocupan(otros(f))
<1> DEFINE ajenos == bitmap \ extension(f)
           lugares == libres \cup extension(f)
<1>1. IsFiniteSet(Bloques) /\ Cardinality(Bloques) = BLOCK_COUNT
  BY FS_Interval, DialFSAssumption DEF Bloques
<1>2. ajenos \in SUBSET Bloques /\ extension(f) \subseteq Bloques
  BY DEF TypeOK, BitmapExacto
<1>3. lugares = Bloques \ ajenos /\ Bloques \cap ajenos = ajenos
  BY <1>2 DEF TypeOK, libres
<1>4. ocupan(otros(f)) \in Nat /\ ocupan(otros(f)) = Cardinality(ajenos)
  BY Compactacion
<1> HIDE DEF ajenos, lugares
<1>5. Cardinality(ajenos) <= BLOCK_COUNT /\ IsFiniteSet(ajenos)
  BY <1>1, <1>2, FS_Subset
<1>6. Cardinality(lugares) = BLOCK_COUNT - Cardinality(ajenos)
  BY <1>1, <1>3, FS_Difference
<1>7. QED
  BY <1>4, <1>5, <1>6 DEF lugares

(* The file system is compacted and f goes last. *)
LEMMA AlCompactar ==
  ASSUME TypeOK, BitmapExacto, viva = TRUE, cortada = FALSE,
         NEW f \in DOMAIN metadata, NEW nuevo \in 0..MaxTamanio,
         cantidadBloques(nuevo) <= Cardinality(libres \cup extension(f)),
         NEW datos, DOMAIN datos = Bytes,
         NEW d, d = [g \in DOMAIN metadata |->
                       IF g = f THEN [inicial |-> ocupan(otros(f)), tamanio |-> nuevo]
                                ELSE [inicial |-> nuevo_bloque_inicial(f, g),
                                      tamanio |-> metadata[g].tamanio]]
  PROVE  DiscoSano(d, tramo(0, ocupan(otros(f)) + cantidadBloques(nuevo)),
                   datos, vacios, viva, cortada)
<1> DEFINE fin == ocupan(otros(f))
           total == cantidadBloques(nuevo)
           desde(g) == nuevo_bloque_inicial(f, g)
           bits == tramo(0, fin + total)
<1>1. total \in Nat \ {0}
  BY CuantosBloques, DialFSAssumption
<1>2. fin \in Nat /\ fin + total <= BLOCK_COUNT
  <2>1. /\ fin \in Nat
        /\ Cardinality(libres \cup extension(f)) = BLOCK_COUNT - fin
    BY Entran
  <2>2. total <= BLOCK_COUNT - fin
    BY <2>1
  <2> HIDE DEF fin, total
  <2>3. QED
    BY <1>1, <2>1, <2>2, DialFSAssumption
<1>3. \A g \in otros(f) : desde(g) \in Nat /\ desde(g) + cantidad(g) <= fin
  BY Compactacion
<1>4. \A g \in otros(f) : cantidad(g) \in Nat \ {0} /\ g \in DOMAIN metadata /\ g # f
  BY DeUnArchivo DEF otros
<1>5. /\ DOMAIN d = DOMAIN metadata /\ DOMAIN metadata = otros(f) \cup {f}
      /\ d[f].inicial = fin /\ d[f].tamanio = nuevo
      /\ segun(d, f) = tramo(fin, total)
      /\ \A g \in otros(f) : /\ d[g].inicial = desde(g)
                             /\ segun(d, g) = tramo(desde(g), cantidad(g))
  BY DEF otros, segun, cantidad
<1>6. \A g \in DOMAIN d : d[g] \in [inicial : Bloques, tamanio : 0..MaxTamanio]
  <2>1. fin \in Bloques
    <3> HIDE DEF fin, total
    <3>1. QED
      BY <1>1, <1>2, DialFSAssumption DEF Bloques
  <2>2. ASSUME NEW g \in otros(f)
        PROVE  desde(g) \in Bloques /\ metadata[g].tamanio \in 0..MaxTamanio
    <3>1. metadata[g].tamanio \in 0..MaxTamanio
      BY <1>4, DeUnArchivo
    <3> HIDE DEF fin, desde
    <3>2. QED
      BY <1>1, <1>2, <1>3, <1>4, <3>1, DialFSAssumption DEF Bloques
  <2>3. QED
    BY <2>1, <2>2 DEF otros
<1>7. bits \subseteq Bloques
  BY <1>1, <1>2, DialFSAssumption DEF tramo, Bloques
<1>8. ASSUME NEW y
      PROVE  y \in bits <=> \E g \in DOMAIN d : y \in segun(d, g)
  <2> HIDE DEF fin, total, desde
  <2>1. ASSUME y \in bits
        PROVE  \E g \in DOMAIN d : y \in segun(d, g)
    <3>1. y \in 0..fin - 1 \/ y \in tramo(fin, total)
      BY <1>1, <1>2, <2>1 DEF tramo
    <3>2. \A x \in 0..fin - 1 : \E g \in otros(f) : x \in tramo(desde(g), cantidad(g))
      BY Compactacion DEF fin, desde
    <3> HIDE DEF bits
    <3>3. CASE y \in tramo(fin, total)
      BY <1>5, <3>3
    <3>4. CASE y \in 0..fin - 1
      <4>1. PICK g \in otros(f) : y \in tramo(desde(g), cantidad(g))
        BY <3>2, <3>4
      <4>2. g \in DOMAIN d /\ segun(d, g) = tramo(desde(g), cantidad(g))
        BY <1>5
      <4>3. QED
        BY <4>1, <4>2
    <3>5. QED
      BY <3>1, <3>3, <3>4
  <2>2. ASSUME NEW g \in DOMAIN d, y \in segun(d, g)
        PROVE  y \in bits
    <3>1. CASE g = f
      <4>1. y \in tramo(fin, total)
        BY <1>5, <2>2, <3>1
      <4>2. QED
        BY <1>1, <1>2, <4>1 DEF tramo
    <3>2. CASE g \in otros(f)
      <4>1. y \in tramo(desde(g), cantidad(g))
        BY <1>5, <2>2, <3>2
      <4>2. /\ desde(g) \in Nat /\ desde(g) + cantidad(g) <= fin
            /\ cantidad(g) \in Nat
        BY <1>3, <1>4, <3>2
      <4>3. QED
        BY <1>1, <1>2, <4>1, <4>2 DEF tramo
    <3>3. QED
      BY <1>5, <3>1, <3>2
  <2>3. QED
    BY <2>1, <2>2
<1>9. ASSUME NEW g \in DOMAIN d, NEW h \in DOMAIN d, g # h
      PROVE  segun(d, g) \cap segun(d, h) = {}
  <2> HIDE DEF fin, total, desde
  <2>1. \A i \in otros(f) : tramo(fin, total) \cap tramo(desde(i), cantidad(i)) = {}
    BY <1>1, <1>2, <1>3, <1>4 DEF tramo
  <2>2. CASE g = f
    <3>1. h \in otros(f) /\ segun(d, h) = tramo(desde(h), cantidad(h))
      BY <1>5, <1>9, <2>2
    <3>2. segun(d, g) = tramo(fin, total)
      BY <1>5, <2>2
    <3>3. QED
      BY <2>1, <3>1, <3>2
  <2>3. CASE h = f
    <3>1. g \in otros(f) /\ segun(d, g) = tramo(desde(g), cantidad(g))
      BY <1>5, <1>9, <2>3
    <3>2. segun(d, h) = tramo(fin, total)
      BY <1>5, <2>3
    <3>3. QED
      BY <2>1, <3>1, <3>2
  <2>4. CASE g # f /\ h # f
    <3>1. tramo(desde(g), cantidad(g)) \cap tramo(desde(h), cantidad(h)) = {}
      BY <1>5, <1>9, <2>4, Compactacion DEF desde
    <3>2. QED
      BY <1>5, <2>4, <3>1
  <2>5. QED
    BY <2>2, <2>3, <2>4
<1>10. Exacto(d, bits)
  <2> HIDE DEF bits
  <2>1. bits = UNION {segun(d, g) : g \in DOMAIN d}
    BY <1>8
  <2>2. QED
    BY <1>9, <2>1 DEF Exacto
<1>11. QED
  BY <1>5, <1>6, <1>7, <1>10 DEF DiscoSano

(* It dies in the middle of the compaction. *)
LEMMA AlMorirCompactando ==
  ASSUME TypeOK, BitmapExacto, cortada = FALSE, NEW f \in DOMAIN metadata,
         compactar_con_vacios(f)
  PROVE  DiscoSano(metadata', bitmap', bloques', vacios', viva', cortada')
<1>1. PICK g \in otros(f) :
        LET hechos == {h \in otros(f) : metadata[h].inicial < metadata[g].inicial} IN
        /\ bitmap' \subseteq bitmap
        /\ metadata' = [h \in DOMAIN metadata |->
                          [inicial |-> IF h \in hechos THEN nuevo_bloque_inicial(f, h)
                                                       ELSE metadata[h].inicial,
                           tamanio |-> metadata[h].tamanio]]
  BY DEF compactar_con_vacios
<1>2. viva' = FALSE /\ cortada' = TRUE /\ vacios' = vacios /\ bloques' = bloques
  BY DEF compactar_con_vacios
<1>3. ASSUME NEW h \in otros(f)
      PROVE  nuevo_bloque_inicial(f, h) \in Bloques
  <2>1. /\ nuevo_bloque_inicial(f, h) \in Nat
        /\ nuevo_bloque_inicial(f, h) + cantidad(h) <= ocupan(otros(f))
    BY Compactacion
  <2>2. ocupan(otros(f)) \in Nat /\ ocupan(otros(f)) <= BLOCK_COUNT
    BY Entran
  <2>3. cantidad(h) \in Nat \ {0}
    BY DeUnArchivo DEF otros
  <2>4. QED
    BY <2>1, <2>2, <2>3, DialFSAssumption DEF Bloques
<1>4. DOMAIN metadata' = DOMAIN metadata
      /\ \A h \in DOMAIN metadata' : metadata'[h] \in [inicial : Bloques, tamanio : 0..MaxTamanio]
  BY <1>1, <1>3, DeUnArchivo
<1>5. bitmap' \subseteq Bloques /\ DOMAIN bloques' = Bytes
  BY <1>1, <1>2 DEF TypeOK
<1>6. QED
  BY <1>2, <1>4, <1>5 DEF DiscoSano

(* Every way a file can grow. *)
LEMMA AlAumentar ==
  ASSUME TypeOK, BitmapExacto, viva = TRUE, cortada = FALSE,
         NEW f \in DOMAIN metadata, NEW nuevo \in 0..MaxTamanio,
         cantidad(f) < cantidadBloques(nuevo), aumentarTamanioArchivo(f, nuevo)
  PROVE  DiscoSano(metadata', bitmap', bloques', vacios', viva', cortada')
<1> DEFINE m == metadata[f]
           total == cantidadBloques(nuevo)
           lugares == libres \cup extension(f)
           siguientes == tramo(m.inicial, total) \ extension(f)
<1>1. Exacto(metadata, bitmap)
  BY ExactoEs
<1>2. CASE /\ siguientes \subseteq libres
           /\ bitmap' = bitmap \cup siguientes
           /\ metadata' = poner(metadata, f, m.inicial, nuevo)
           /\ UNCHANGED <<bloques, proceso>>
  <2>1. bloques' = bloques /\ vacios' = vacios /\ viva' = viva /\ cortada' = cortada
    BY <1>2 DEF proceso
  <2>2. DiscoSano(poner(metadata, f, m.inicial, nuevo), bitmap \cup siguientes,
                  bloques, vacios, viva, cortada)
    BY <1>1, <1>2, AlCrecerEnElLugar
  <2>3. QED
    BY <1>2, <2>1, <2>2
<1>3. CASE /\ comienzos(lugares, total) # {}
           /\ bitmap' = (bitmap \ extension(f)) \cup tramo(Min(comienzos(lugares, total)), total)
           /\ metadata' = poner(metadata, f, Min(comienzos(lugares, total)), nuevo)
           /\ bloques' = copia(bloques, m.inicial, Min(comienzos(lugares, total)), m.tamanio)
           /\ UNCHANGED proceso
  <2> DEFINE b == Min(comienzos(lugares, total))
  <2>1. vacios' = vacios /\ viva' = viva /\ cortada' = cortada
    BY <1>3 DEF proceso
  <2>2. b \in comienzos(lugares, total)
    <3>1. comienzos(lugares, total) \in SUBSET Nat
      BY DialFSAssumption DEF comienzos, Bloques
    <3>2. QED
      BY <1>3, <3>1, MinEs
  <2>3. DOMAIN bloques' = Bytes
    BY <1>3 DEF copia
  <2> HIDE DEF b
  <2>4. DiscoSano(poner(metadata, f, b, nuevo), (bitmap \ extension(f)) \cup tramo(b, total),
                  bloques', vacios, viva, cortada)
    BY <1>1, <2>2, <2>3, AlMudarse
  <2>5. QED
    BY <1>3, <2>1, <2>4 DEF b
<1>4. CASE total <= Cardinality(lugares) /\ compactar_con_vacios(f)
  BY <1>4, AlMorirCompactando
<1>5. CASE /\ total <= Cardinality(lugares)
           /\ bitmap' = tramo(0, ocupan(otros(f)) + total)
           /\ metadata' = [g \in DOMAIN metadata |->
                             IF g = f THEN [inicial |-> ocupan(otros(f)), tamanio |-> nuevo]
                                      ELSE [inicial |-> nuevo_bloque_inicial(f, g),
                                            tamanio |-> metadata[g].tamanio]]
           /\ bloques' = copia(compactado(f), m.inicial, ocupan(otros(f)), m.tamanio)
           /\ UNCHANGED proceso
  <2>1. vacios' = vacios /\ viva' = viva /\ cortada' = cortada
    BY <1>5 DEF proceso
  <2>2. DOMAIN bloques' = Bytes
    BY <1>5 DEF copia
  <2>3. DiscoSano(metadata', tramo(0, ocupan(otros(f)) + total), bloques', vacios, viva, cortada)
    BY <1>5, <2>2, AlCompactar
  <2>4. QED
    BY <1>5, <2>1, <2>3
<1>6. CASE UNCHANGED <<metadata, bitmap, bloques, proceso>>
  <2>1. /\ metadata' = metadata /\ bitmap' = bitmap /\ bloques' = bloques
        /\ vacios' = vacios /\ viva' = viva /\ cortada' = cortada
    BY <1>6 DEF proceso
  <2>2. QED
    BY <1>1, <2>1 DEF DiscoSano, TypeOK
<1>7. QED
  BY <1>2, <1>3, <1>4, <1>5, <1>6 DEF aumentarTamanioArchivo

(* A truncate, of a file that there is or not. *)
LEMMA AlTruncar ==
  ASSUME InvDialFS, NEW f \in Archivos, NEW n \in 0..MaxTamanio, interfaz_fs_truncate(f, n)
  PROVE  InvDialFS'
<1>1. TypeOK /\ BitmapExacto /\ viva = TRUE /\ cortada = FALSE
  BY DEF interfaz_fs_truncate, InvDialFS, Registrados, TypeOK
<1>2. CASE ~existe(f) /\ terminar
  <2>1. /\ metadata' = metadata /\ creados' = creados /\ vacios' = vacios /\ bitmap' = bitmap
        /\ bloques' = bloques /\ viva' = FALSE /\ cortada' = cortada
        /\ pedido' = pedido /\ escrito' = escrito
    BY <1>2 DEF terminar
  <2>2. TypeOK' /\ Registrados'
    BY <2>1 DEF InvDialFS, TypeOK, Registrados
  <2>3. BitmapExacto'
    BY <1>1, <2>1, ExactoEs, ExactoSera
  <2>4. QED
    BY <2>2, <2>3 DEF InvDialFS
<1>3. CASE existe(f)
  <2>1. /\ \/ cantidad(f) = cantidadBloques(n)
              /\ UNCHANGED <<metadata, bitmap, bloques, proceso>>
           \/ cantidad(f) < cantidadBloques(n) /\ aumentarTamanioArchivo(f, n)
           \/ cantidad(f) > cantidadBloques(n) /\ reducirTamanioArchivo(f, n)
        /\ pedido' = IF LimiteEscritura = "metadata" THEN pedido
                                                     ELSE [pedido EXCEPT ![f] = n]
        /\ escrito' = [escrito EXCEPT ![f] = menor(@, n)]
        /\ creados' = creados
    BY <1>3 DEF interfaz_fs_truncate, cantidad
  <2>2. f \in DOMAIN metadata
    BY <1>3 DEF existe
  <2>3. DiscoSano(metadata', bitmap', bloques', vacios', viva', cortada')
    <3>1. CASE UNCHANGED <<metadata, bitmap, bloques, proceso>>
      <4>1. /\ metadata' = metadata /\ bitmap' = bitmap /\ bloques' = bloques
            /\ vacios' = vacios /\ viva' = viva /\ cortada' = cortada
        BY <3>1 DEF proceso
      <4>2. QED
        BY <1>1, <4>1, ExactoEs DEF DiscoSano, TypeOK
    <3>2. CASE cantidad(f) < cantidadBloques(n) /\ aumentarTamanioArchivo(f, n)
      BY <1>1, <2>2, <3>2, AlAumentar
    <3>3. CASE cantidad(f) > cantidadBloques(n) /\ reducirTamanioArchivo(f, n)
      <4>1. vacios' = vacios /\ viva' = viva /\ cortada' = cortada /\ DOMAIN bloques' = Bytes
        BY <3>3 DEF reducirTamanioArchivo, proceso, olvidar
      <4>2. DiscoSano(poner(metadata, f, metadata[f].inicial, n),
                      bitmap \ (extension(f)
                                  \ tramo(metadata[f].inicial, cantidadBloques(n))),
                      bloques', vacios, viva, cortada)
        BY <1>1, <2>2, <3>3, <4>1, ExactoEs, AlReducir
      <4>3. QED
        BY <3>3, <4>1, <4>2 DEF reducirTamanioArchivo
    <3>4. QED
      BY <2>1, <3>1, <3>2, <3>3
  <2>4. pedido' \in [Archivos -> 0..MaxTamanio] /\ escrito' \in [Archivos -> 0..MaxTamanio]
    <3>1. escrito[f] \in 0..MaxTamanio
      BY <1>1 DEF TypeOK
    <3>2. menor(escrito[f], n) \in 0..MaxTamanio
      BY <3>1 DEF menor
    <3>3. QED
      BY <1>1, <2>1, <3>2 DEF TypeOK
  <2>5. TypeOK'
    BY <1>1, <2>1, <2>3, <2>4 DEF TypeOK, DiscoSano
  <2>6. Registrados'
    BY <2>1, <2>3 DEF InvDialFS, Registrados, DiscoSano
  <2>7. BitmapExacto'
    BY <2>3, ExactoSera DEF DiscoSano
  <2>8. QED
    BY <2>5, <2>6, <2>7 DEF InvDialFS
<1>4. QED
  BY <1>2, <1>3 DEF interfaz_fs_truncate

(* The directory is empty when the interface starts for the first time. *)
LEMMA AlEmpezar ==
  ASSUME Init
  PROVE  InvDialFS
<1>1. TypeOK
  <2>1. DOMAIN metadata = {}
    BY DEF Init
  <2>2. DOMAIN bloques = Bytes
    BY DEF Init
  <2>3. pedido \in [Archivos -> 0..MaxTamanio] /\ escrito \in [Archivos -> 0..MaxTamanio]
    BY DialFSAssumption DEF Init
  <2>4. creados = {} /\ vacios = {} /\ bitmap = {} /\ viva = TRUE /\ cortada = FALSE
    BY DEF Init
  <2>5. QED
    BY <2>1, <2>2, <2>3, <2>4 DEF TypeOK
<1>2. Registrados
  BY DEF Init, Registrados
<1>3. BitmapExacto
  BY DEF Init, BitmapExacto
<1>4. QED
  BY <1>1, <1>2, <1>3 DEF InvDialFS

(* Every operation, a start and a stuttering step keep it. *)
LEMMA PasoDialFS ==
  ASSUME InvDialFS, [Next]_vars
  PROVE  InvDialFS'
<1>1. CASE inicializar_fs
  BY <1>1, AlArrancar
<1>2. ASSUME NEW f \in Archivos, interfaz_fs_create(f)
      PROVE  InvDialFS'
  BY <1>2, AlCrear
<1>3. ASSUME NEW f \in Archivos, interfaz_fs_delete(f)
      PROVE  InvDialFS'
  BY <1>3, AlBorrar
<1>4. ASSUME NEW f \in Archivos, interfaz_fs_delete_vacio(f)
      PROVE  InvDialFS'
  <2>1. TypeOK' /\ Registrados'
    BY <1>4 DEF InvDialFS, TypeOK, Registrados, interfaz_fs_delete_vacio, terminar
  <2>2. BitmapExacto'
    BY <1>4, ExactoEs, ExactoSera DEF InvDialFS, interfaz_fs_delete_vacio, terminar
  <2>3. QED
    BY <2>1, <2>2 DEF InvDialFS
<1>5. ASSUME NEW f \in Archivos, NEW n \in 0..MaxTamanio, interfaz_fs_truncate(f, n)
      PROVE  InvDialFS'
  BY <1>5, AlTruncar
<1>6. ASSUME NEW f \in Archivos, NEW n \in 0..MaxTamanio, interfaz_fs_write(f, n)
      PROVE  InvDialFS'
  BY <1>6, AlEscribir
<1>7. CASE UNCHANGED vars
  <2>1. TypeOK' /\ Registrados'
    BY <1>7 DEF InvDialFS, TypeOK, Registrados, vars
  <2>2. BitmapExacto'
    BY <1>7, ExactoEs, ExactoSera DEF InvDialFS, vars
  <2>3. QED
    BY <2>1, <2>2 DEF InvDialFS
<1>8. QED
  BY <1>1, <1>2, <1>3, <1>4, <1>5, <1>6, <1>7 DEF Next

(* The invariant holds in every state of the interface and of its disk. *)
THEOREM DialFSCorrecto == Spec => []InvDialFS
<1>1. Init => InvDialFS
  BY AlEmpezar
<1>2. InvDialFS /\ [Next]_vars => InvDialFS'
  BY PasoDialFS
<1>3. QED
  BY <1>1, <1>2, PTL DEF Spec

(* TypeOK: the first block of every file is a block of the disk, after     *)
(* any growth and any compaction, for every size of the disk.              *)
THEOREM DialFSTipos == Spec => []TypeOK
<1>1. InvDialFS => TypeOK
  BY DEF InvDialFS
<1>2. QED
  BY <1>1, DialFSCorrecto, PTL

(* BitmapExacto: outside an operation that was cut, the bitmap has the     *)
(* blocks of the files and no others, and no two files share one.          *)
THEOREM DialFSBitmap == Spec => []BitmapExacto
<1>1. InvDialFS => BitmapExacto
  BY DEF InvDialFS
<1>2. QED
  BY <1>1, DialFSCorrecto, PTL

-----------------------------------------------------------------------------
(* What programs wrote.                                                    *)

(* The first e[g] bytes of every file g of d are in its blocks. *)
Guarda(d, datos, e) ==
  \A g \in DOMAIN d : \A k \in 0..e[g] - 1 : datos[d[g].inicial * BLOCK_SIZE + k] = <<g, k>>

(* ContenidoConservado is what Guarda says of the disk and the dictionary. *)
LEMMA GuardaEs ==
  /\ ContenidoConservado <=> (~cortada => Guarda(metadata, bloques, escrito))
  /\ ContenidoConservado' <=> (~cortada' => Guarda(metadata', bloques', escrito'))
BY DEF ContenidoConservado, Guarda

(* The bytes of a run of blocks of the disk are bytes of the disk. *)
LEMMA BytesDe ==
  ASSUME NEW a \in Nat, NEW c \in Nat \ {0}, tramo(a, c) \subseteq Bloques,
         NEW k \in Nat, k < c * BLOCK_SIZE
  PROVE  /\ a * BLOCK_SIZE \in Nat /\ c * BLOCK_SIZE \in Nat
         /\ a * BLOCK_SIZE + k \in Bytes
<1>1. a + c <= BLOCK_COUNT
  <2>1. a + c - 1 \in tramo(a, c)
    BY DEF tramo
  <2>2. a + c - 1 \in 0..BLOCK_COUNT - 1
    BY <2>1 DEF Bloques
  <2>3. QED
    BY <2>2, DialFSAssumption
<1>2. (a + c) * BLOCK_SIZE <= BLOCK_COUNT * BLOCK_SIZE /\ BLOCK_COUNT * BLOCK_SIZE \in Int
  BY <1>1, Multiplos, DialFSAssumption
<1>3. (a + c) * BLOCK_SIZE = a * BLOCK_SIZE + c * BLOCK_SIZE
  BY Suma
<1>4. a * BLOCK_SIZE \in Nat /\ c * BLOCK_SIZE \in Nat
  BY DialFSAssumption
<1> DEFINE x == a * BLOCK_SIZE
           y == c * BLOCK_SIZE
           z == BLOCK_COUNT * BLOCK_SIZE
<1>5. x + y <= z /\ k < y /\ x \in Nat /\ y \in Nat /\ z \in Int
  BY <1>2, <1>3, <1>4
<1> HIDE DEF x, y, z
<1>6. x + k \in 0..z - 1
  BY <1>5
<1>7. QED
  BY <1>5, <1>6 DEF x, y, z, Bytes

(* Two runs without a common block have no common byte. *)
LEMMA BytesSeparados ==
  ASSUME NEW a \in Nat, NEW b \in Nat, NEW c \in Nat \ {0}, NEW d \in Nat \ {0},
         tramo(a, c) \cap tramo(b, d) = {},
         NEW k \in Nat, k < c * BLOCK_SIZE
  PROVE  a * BLOCK_SIZE + k < b * BLOCK_SIZE
         \/ b * BLOCK_SIZE + d * BLOCK_SIZE <= a * BLOCK_SIZE + k
<1>1. /\ a * BLOCK_SIZE \in Nat /\ b * BLOCK_SIZE \in Nat
      /\ c * BLOCK_SIZE \in Nat /\ d * BLOCK_SIZE \in Nat
  BY DialFSAssumption
<1> DEFINE A == a * BLOCK_SIZE
           B == b * BLOCK_SIZE
           C == c * BLOCK_SIZE
           D == d * BLOCK_SIZE
<1>2. CASE a + c <= b
  <2>1. (a + c) * BLOCK_SIZE <= B /\ (a + c) * BLOCK_SIZE = A + C
    <3>1. (a + c) * BLOCK_SIZE <= b * BLOCK_SIZE
      BY <1>2, Multiplos
    <3>2. (a + c) * BLOCK_SIZE = a * BLOCK_SIZE + c * BLOCK_SIZE
      BY Suma
    <3>3. QED
      BY <3>1, <3>2
  <2>2. A + C <= B /\ k < C /\ A \in Nat /\ B \in Nat /\ C \in Nat
    BY <1>1, <2>1
  <2> HIDE DEF A, B, C, D
  <2>3. A + k < B
    BY <2>2
  <2>4. QED
    BY <2>3 DEF A, B
<1>3. CASE b + d <= a
  <2>1. (b + d) * BLOCK_SIZE <= A /\ (b + d) * BLOCK_SIZE = B + D
    <3>1. (b + d) * BLOCK_SIZE <= a * BLOCK_SIZE
      BY <1>3, Multiplos
    <3>2. (b + d) * BLOCK_SIZE = b * BLOCK_SIZE + d * BLOCK_SIZE
      BY Suma
    <3>3. QED
      BY <3>1, <3>2
  <2>2. B + D <= A /\ A \in Nat /\ B \in Nat /\ D \in Nat
    BY <1>1, <2>1
  <2> HIDE DEF A, B, C, D
  <2>3. B + D <= A + k
    BY <2>2
  <2>4. QED
    BY <2>3 DEF A, B, D
<1>4. QED
  BY <1>2, <1>3, Separados

(* The byte k of g: where it is and that it is inside of the file. *)
LEMMA DeUnByte ==
  ASSUME TypeOK, Exacto(metadata, bitmap), Escritos, Guarda(metadata, bloques, escrito),
         NEW g \in DOMAIN metadata, NEW k \in 0..escrito[g] - 1
  PROVE  /\ k \in Nat /\ k < metadata[g].tamanio /\ k < cantidad(g) * BLOCK_SIZE
         /\ metadata[g].inicial * BLOCK_SIZE \in Nat
         /\ metadata[g].inicial * BLOCK_SIZE + k \in Bytes
         /\ bloques[metadata[g].inicial * BLOCK_SIZE + k] = <<g, k>>
<1>1. /\ g \in Archivos /\ metadata[g].inicial \in Nat /\ metadata[g].tamanio \in Nat
      /\ cantidad(g) \in Nat \ {0} /\ metadata[g].tamanio <= cantidad(g) * BLOCK_SIZE
      /\ extension(g) = tramo(metadata[g].inicial, cantidad(g))
  BY DeUnArchivo
<1>2. escrito[g] \in Nat /\ escrito[g] <= metadata[g].tamanio
  BY <1>1 DEF TypeOK, Escritos, existe
<1>3. k \in Nat /\ k < metadata[g].tamanio
  BY <1>1, <1>2
<1>4. k < cantidad(g) * BLOCK_SIZE
  <2>1. cantidad(g) * BLOCK_SIZE \in Nat
    BY <1>1, DialFSAssumption
  <2>2. QED
    BY <1>1, <1>3, <2>1
<1>5. extension(g) \subseteq Bloques
  BY DEF TypeOK, Exacto, segun, extension
<1>6. metadata[g].inicial * BLOCK_SIZE \in Nat /\ metadata[g].inicial * BLOCK_SIZE + k \in Bytes
  BY <1>1, <1>3, <1>4, <1>5, BytesDe
<1>7. QED
  BY <1>3, <1>4, <1>6 DEF Guarda

(* Forgetting the bytes of f from the n-th on leaves the others, and those *)
(* before it, where they are.                                              *)
LEMMA Olvidados ==
  ASSUME NEW datos, NEW x \in Bytes, NEW f, NEW n \in Nat, NEW g, NEW k \in Nat,
         datos[x] = <<g, k>>, g # f \/ k < n
  PROVE  olvidar(datos, f, n)[x] = <<g, k>>
<1>1. ASSUME NEW j \in n..MaxTamanio, datos[x] = <<f, j>>
      PROVE  FALSE
  <2>1. g = f /\ k = j
    BY <1>1
  <2>2. QED
    BY <2>1
<1>2. QED
  BY <1>1 DEF olvidar

(* What is at the place of a byte of a copy. *)
LEMMA Copiado ==
  ASSUME NEW datos, NEW de \in Nat, NEW a \in Nat, NEW n \in Nat, NEW k \in Nat, k < n,
         a * BLOCK_SIZE + k \in Bytes
  PROVE  copia(datos, de, a, n)[a * BLOCK_SIZE + k] = bloques[de * BLOCK_SIZE + k]
<1> DEFINE A == a * BLOCK_SIZE
           D == de * BLOCK_SIZE
           M == (a - de) * BLOCK_SIZE
<1>1. A \in Int /\ D \in Int /\ M = A - D
  BY Resta, DialFSAssumption
<1>2. A <= A + k /\ A + k < A + n /\ (A + k) - M = D + k
  <2> HIDE DEF A, D, M
  <2>1. QED
    BY <1>1
<1>3. copia(datos, de, a, n)[A + k] = bloques[(A + k) - M]
  <2>1. copia(datos, de, a, n) = [x \in Bytes |-> IF A <= x /\ x < A + n
                                                    THEN bloques[x - M] ELSE datos[x]]
    BY DEF copia
  <2>2. A + k \in Bytes
    OBVIOUS
  <2> HIDE DEF A, D, M
  <2>3. QED
    BY <1>2, <2>1, <2>2
<1>4. QED
  BY <1>2, <1>3

(* Outside the copy the bytes are the ones there were. *)
LEMMA NoCopiado ==
  ASSUME NEW datos, NEW de, NEW a \in Nat, NEW n \in Nat, NEW x \in Bytes,
         x < a * BLOCK_SIZE \/ a * BLOCK_SIZE + n <= x
  PROVE  copia(datos, de, a, n)[x] = datos[x]
<1> DEFINE A == a * BLOCK_SIZE
<1>1. A \in Int /\ x \in Int /\ (x < A \/ A + n <= x)
  BY DialFSAssumption DEF Bytes
<1>2. ~(A <= x /\ x < A + n)
  <2> HIDE DEF A
  <2>1. QED
    BY <1>1
<1>3. QED
  BY <1>2 DEF copia

(* A file that stays where it is, whole or cut, keeps what it has left. *)
LEMMA GuardaEnElLugar ==
  ASSUME TypeOK, Exacto(metadata, bitmap), Escritos, Guarda(metadata, bloques, escrito),
         NEW f \in DOMAIN metadata, NEW t,
         NEW e, \A g \in DOMAIN metadata : e[g] \in Nat /\ e[g] <= escrito[g]
  PROVE  Guarda(poner(metadata, f, metadata[f].inicial, t), bloques, e)
<1> DEFINE d == poner(metadata, f, metadata[f].inicial, t)
<1>1. DOMAIN d = DOMAIN metadata /\ \A g \in DOMAIN d : d[g].inicial = metadata[g].inicial
  BY DEF poner
<1>2. \A g \in DOMAIN metadata : escrito[g] \in Nat
  BY DEF TypeOK
<1> HIDE DEF d
<1>3. ASSUME NEW g \in DOMAIN d, NEW k \in 0..e[g] - 1
      PROVE  bloques[d[g].inicial * BLOCK_SIZE + k] = <<g, k>>
  <2>1. g \in DOMAIN metadata /\ k \in 0..escrito[g] - 1
    BY <1>1, <1>2
  <2>2. QED
    BY <1>1, <2>1 DEF Guarda
<1>4. QED
  BY <1>3 DEF Guarda, d

(* The file moves, and its bytes with it, over nobody else's. *)
LEMMA GuardaMudado ==
  ASSUME TypeOK, Exacto(metadata, bitmap), Escritos, Guarda(metadata, bloques, escrito),
         NEW f \in DOMAIN metadata, NEW nuevo \in 0..MaxTamanio,
         cantidad(f) < cantidadBloques(nuevo),
         NEW b \in comienzos(libres \cup extension(f), cantidadBloques(nuevo)),
         NEW e, \A g \in DOMAIN metadata : e[g] \in Nat /\ e[g] <= escrito[g]
  PROVE  Guarda(poner(metadata, f, b, nuevo),
                copia(bloques, metadata[f].inicial, b, metadata[f].tamanio), e)
<1> DEFINE d == poner(metadata, f, b, nuevo)
           datos == copia(bloques, metadata[f].inicial, b, metadata[f].tamanio)
           total == cantidadBloques(nuevo)
<1>1. /\ b \in Bloques /\ b \in Nat /\ tramo(b, total) \subseteq Bloques
      /\ tramo(b, total) \subseteq libres \cup extension(f)
  <2>1. b \in Bloques /\ tramo(b, total) \subseteq libres \cup extension(f)
    BY DEF comienzos
  <2>2. libres \subseteq Bloques /\ extension(f) \subseteq Bloques
    BY DEF libres, TypeOK, Exacto, segun, extension
  <2>3. Bloques \subseteq Nat
    BY DialFSAssumption DEF Bloques
  <2> HIDE DEF total
  <2>4. QED
    BY <2>1, <2>2, <2>3
<1>2. total \in Nat \ {0}
  BY CuantosBloques, DialFSAssumption
<1>3. /\ metadata[f].inicial \in Nat /\ metadata[f].tamanio \in Nat
      /\ cantidad(f) \in Nat \ {0} /\ metadata[f].tamanio <= cantidad(f) * BLOCK_SIZE
  BY DeUnArchivo
<1>4. DOMAIN d = DOMAIN metadata /\ d[f].inicial = b
      /\ \A g \in DOMAIN d : g # f => d[g].inicial = metadata[g].inicial
  BY DEF poner
<1>5. ASSUME NEW g \in DOMAIN metadata, NEW k \in 0..e[g] - 1
      PROVE  k \in 0..escrito[g] - 1
  <2>1. escrito[g] \in Nat /\ e[g] \in Nat /\ e[g] <= escrito[g]
    BY DEF TypeOK
  <2>2. QED
    BY <2>1
<1>6. ASSUME NEW k \in 0..e[f] - 1
      PROVE  datos[b * BLOCK_SIZE + k] = <<f, k>>
  <2>1. /\ k \in Nat /\ k < metadata[f].tamanio /\ k < cantidad(f) * BLOCK_SIZE
        /\ bloques[metadata[f].inicial * BLOCK_SIZE + k] = <<f, k>>
    BY <1>5, DeUnByte
  <2>2. cantidad(f) * BLOCK_SIZE <= total * BLOCK_SIZE
    BY <1>2, <1>3, Multiplos
  <2>3. k < total * BLOCK_SIZE
    <3>1. cantidad(f) * BLOCK_SIZE \in Int /\ total * BLOCK_SIZE \in Int
      BY <1>2, <1>3, DialFSAssumption
    <3>2. QED
      BY <2>1, <2>2, <3>1
  <2>4. b * BLOCK_SIZE + k \in Bytes
    BY <1>1, <1>2, <2>1, <2>3, BytesDe
  <2>5. QED
    BY <1>1, <1>3, <2>1, <2>4, Copiado
<1>7. ASSUME NEW g \in DOMAIN metadata, g # f, NEW k \in 0..e[g] - 1
      PROVE  datos[metadata[g].inicial * BLOCK_SIZE + k] = <<g, k>>
  <2> DEFINE x == metadata[g].inicial * BLOCK_SIZE + k
  <2>1. /\ k \in Nat /\ k < cantidad(g) * BLOCK_SIZE /\ x \in Bytes /\ bloques[x] = <<g, k>>
    BY <1>5, DeUnByte
  <2>2. metadata[g].inicial \in Nat /\ cantidad(g) \in Nat \ {0}
        /\ extension(g) = tramo(metadata[g].inicial, cantidad(g))
    BY DeUnArchivo
  <2>3. tramo(metadata[g].inicial, cantidad(g)) \cap tramo(b, total) = {}
    <3>1. extension(g) \subseteq bitmap /\ extension(g) \cap extension(f) = {}
      BY <1>7 DEF Exacto, segun, extension
    <3>2. QED
      BY <1>1, <2>2, <3>1 DEF libres
  <2>4. x < b * BLOCK_SIZE \/ b * BLOCK_SIZE + total * BLOCK_SIZE <= x
    BY <1>1, <1>2, <2>1, <2>2, <2>3, BytesSeparados
  <2>5. metadata[f].tamanio <= total * BLOCK_SIZE
    <3>1. cantidad(f) * BLOCK_SIZE <= total * BLOCK_SIZE
      BY <1>2, <1>3, Multiplos
    <3>2. cantidad(f) * BLOCK_SIZE \in Int /\ total * BLOCK_SIZE \in Int
      BY <1>2, <1>3, DialFSAssumption
    <3>3. QED
      BY <1>3, <3>1, <3>2
  <2>6. x < b * BLOCK_SIZE \/ b * BLOCK_SIZE + metadata[f].tamanio <= x
    <3>1. b * BLOCK_SIZE \in Int /\ total * BLOCK_SIZE \in Int /\ x \in Int
      BY <1>1, <1>2, <2>1, DialFSAssumption DEF Bytes
    <3> HIDE DEF x
    <3>2. QED
      BY <1>3, <2>4, <2>5, <3>1
  <2> HIDE DEF x
  <2>7. datos[x] = bloques[x]
    BY <1>1, <1>3, <2>1, <2>6, NoCopiado
  <2>8. QED
    BY <2>1, <2>7 DEF x
<1> HIDE DEF d, datos
<1>8. ASSUME NEW g \in DOMAIN d, NEW k \in 0..e[g] - 1
      PROVE  datos[d[g].inicial * BLOCK_SIZE + k] = <<g, k>>
  BY <1>4, <1>6, <1>7
<1>9. Guarda(d, datos, e)
  BY <1>8 DEF Guarda
<1>10. QED
  BY <1>9 DEF d, datos

(* What is at the place of a byte of g once the files are compacted. *)
LEMMA Corrido ==
  ASSUME TypeOK, BitmapExacto, cortada = FALSE, NEW f \in DOMAIN metadata,
         NEW g \in otros(f), NEW k \in Nat, k < cantidad(g) * BLOCK_SIZE,
         nuevo_bloque_inicial(f, g) * BLOCK_SIZE + k \in Bytes
  PROVE  compactado(f)[nuevo_bloque_inicial(f, g) * BLOCK_SIZE + k]
           = bloques[metadata[g].inicial * BLOCK_SIZE + k]
<1> DEFINE desde(h) == nuevo_bloque_inicial(f, h)
           A == desde(g) * BLOCK_SIZE
           D == metadata[g].inicial * BLOCK_SIZE
           M == (desde(g) - metadata[g].inicial) * BLOCK_SIZE
           x == A + k
<1>1. ASSUME NEW h \in otros(f)
      PROVE  desde(h) \in Nat /\ cantidad(h) \in Nat \ {0} /\ metadata[h].inicial \in Nat
  BY Compactacion, DeUnArchivo DEF otros
<1>2. /\ A \in Int /\ D \in Int /\ M = A - D /\ cantidad(g) * BLOCK_SIZE \in Int
      /\ (desde(g) + cantidad(g)) * BLOCK_SIZE = A + cantidad(g) * BLOCK_SIZE
  <2>1. desde(g) \in Int /\ metadata[g].inicial \in Int /\ cantidad(g) \in Int
    BY <1>1
  <2> HIDE DEF desde
  <2>2. A \in Int /\ D \in Int /\ cantidad(g) * BLOCK_SIZE \in Int
    BY <2>1, DialFSAssumption
  <2>3. M = A - D
    BY <2>1, Resta
  <2>4. (desde(g) + cantidad(g)) * BLOCK_SIZE = A + cantidad(g) * BLOCK_SIZE
    BY <2>1, Suma
  <2>5. QED
    BY <2>2, <2>3, <2>4
<1>3. queda(f, g, x)
  <2>1. A <= x /\ x < A + cantidad(g) * BLOCK_SIZE
    <3> DEFINE C == cantidad(g) * BLOCK_SIZE
    <3>1. A \in Int /\ C \in Int /\ k < C
      BY <1>2
    <3> HIDE DEF A, C
    <3>2. A <= A + k /\ A + k < A + C
      BY <3>1
    <3>3. QED
      BY <3>2 DEF C
  <2> HIDE DEF x
  <2>2. A <= x /\ x < (desde(g) + cantidad(g)) * BLOCK_SIZE
    BY <1>2, <2>1
  <2>3. QED
    BY <2>2 DEF queda, cantidad
<1>4. ASSUME NEW h \in otros(f), queda(f, h, x)
      PROVE  h = g
  <2>1. SUFFICES ASSUME h # g
                 PROVE  FALSE
    OBVIOUS
  <2>2. tramo(desde(g), cantidad(g)) \cap tramo(desde(h), cantidad(h)) = {}
    BY <2>1, Compactacion
  <2>3. x < desde(h) * BLOCK_SIZE
        \/ desde(h) * BLOCK_SIZE + cantidad(h) * BLOCK_SIZE <= x
    BY <1>1, <2>2, BytesSeparados
  <2>4. desde(h) * BLOCK_SIZE <= x /\ x < (desde(h) + cantidad(h)) * BLOCK_SIZE
    BY <1>4 DEF queda, cantidad
  <2>5. /\ desde(h) \in Int /\ cantidad(h) \in Int
        /\ (desde(h) + cantidad(h)) * BLOCK_SIZE
             = desde(h) * BLOCK_SIZE + cantidad(h) * BLOCK_SIZE
    BY <1>1, Suma
  <2>6. desde(h) * BLOCK_SIZE \in Int /\ cantidad(h) * BLOCK_SIZE \in Int /\ x \in Int
    BY <2>5, DialFSAssumption DEF Bytes
  <2> DEFINE H == desde(h) * BLOCK_SIZE
             I == cantidad(h) * BLOCK_SIZE
  <2>7. (x < H \/ H + I <= x) /\ H <= x /\ x < H + I /\ H \in Int /\ I \in Int /\ x \in Int
    BY <2>3, <2>4, <2>5, <2>6
  <2> HIDE DEF H, I, x
  <2>8. QED
    BY <2>7
<1>5. (CHOOSE h \in otros(f) : queda(f, h, x)) = g
  <2> HIDE DEF x
  <2>1. QED
    BY <1>3, <1>4
<1>6. compactado(f)[x] = bloques[x - M]
  <2>1. x \in Bytes
    OBVIOUS
  <2> DEFINE h == CHOOSE i \in otros(f) : queda(f, i, x)
  <2>2. compactado(f)[x]
          = IF \E i \in otros(f) : queda(f, i, x)
              THEN bloques[x - (nuevo_bloque_inicial(f, h) - metadata[h].inicial) * BLOCK_SIZE]
              ELSE bloques[x]
    <3> HIDE DEF x
    <3>1. QED
      BY <2>1 DEF compactado
  <2>3. h = g
    BY <1>5
  <2>4. \E i \in otros(f) : queda(f, i, x)
    BY <1>3
  <2> HIDE DEF h, x
  <2>5. QED
    BY <2>2, <2>3, <2>4
<1>7. x - M = D + k
  <2> HIDE DEF A, D, M
  <2>1. QED
    BY <1>2
<1>8. QED
  BY <1>6, <1>7

(* The compaction moves the bytes of every file and loses none. *)
LEMMA GuardaCompactado ==
  ASSUME TypeOK, BitmapExacto, cortada = FALSE, Escritos,
         Guarda(metadata, bloques, escrito),
         NEW f \in DOMAIN metadata, NEW nuevo \in 0..MaxTamanio,
         cantidad(f) < cantidadBloques(nuevo),
         cantidadBloques(nuevo) <= Cardinality(libres \cup extension(f)),
         NEW d, d = [g \in DOMAIN metadata |->
                       IF g = f THEN [inicial |-> ocupan(otros(f)), tamanio |-> nuevo]
                                ELSE [inicial |-> nuevo_bloque_inicial(f, g),
                                      tamanio |-> metadata[g].tamanio]],
         NEW e, \A g \in DOMAIN metadata : e[g] \in Nat /\ e[g] <= escrito[g]
  PROVE  Guarda(d, copia(compactado(f), metadata[f].inicial, ocupan(otros(f)),
                         metadata[f].tamanio), e)
<1> DEFINE fin == ocupan(otros(f))
           total == cantidadBloques(nuevo)
           desde(g) == nuevo_bloque_inicial(f, g)
           datos == copia(compactado(f), metadata[f].inicial, fin, metadata[f].tamanio)
<1>1. total \in Nat \ {0}
  BY CuantosBloques, DialFSAssumption
<1>2. fin \in Nat /\ tramo(fin, total) \subseteq Bloques /\ fin + total <= BLOCK_COUNT
  <2>1. fin \in Nat /\ Cardinality(libres \cup extension(f)) = BLOCK_COUNT - fin
    BY Entran
  <2>2. total <= BLOCK_COUNT - fin
    BY <2>1
  <2> HIDE DEF fin, total
  <2>3. QED
    BY <1>1, <2>1, <2>2, DialFSAssumption DEF tramo, Bloques
<1>3. /\ metadata[f].inicial \in Nat /\ metadata[f].tamanio \in Nat
      /\ cantidad(f) \in Nat \ {0} /\ metadata[f].tamanio <= cantidad(f) * BLOCK_SIZE
  BY DeUnArchivo
<1>4. DOMAIN d = DOMAIN metadata /\ d[f].inicial = fin
      /\ \A g \in DOMAIN d : g # f => g \in otros(f) /\ d[g].inicial = desde(g)
  BY DEF otros
<1>5. Exacto(metadata, bitmap)
  BY ExactoEs
<1>6. ASSUME NEW g \in DOMAIN metadata, NEW k \in 0..e[g] - 1
      PROVE  k \in 0..escrito[g] - 1
  <2>1. escrito[g] \in Nat /\ e[g] \in Nat /\ e[g] <= escrito[g]
    BY DEF TypeOK
  <2>2. QED
    BY <2>1
<1>7. ASSUME NEW k \in 0..e[f] - 1
      PROVE  datos[fin * BLOCK_SIZE + k] = <<f, k>>
  <2>1. /\ k \in Nat /\ k < metadata[f].tamanio /\ k < cantidad(f) * BLOCK_SIZE
        /\ bloques[metadata[f].inicial * BLOCK_SIZE + k] = <<f, k>>
    BY <1>5, <1>6, DeUnByte
  <2>2. cantidad(f) * BLOCK_SIZE <= total * BLOCK_SIZE
    BY <1>1, <1>3, Multiplos
  <2>3. k < total * BLOCK_SIZE
    <3>1. cantidad(f) * BLOCK_SIZE \in Int /\ total * BLOCK_SIZE \in Int
      BY <1>1, <1>3, DialFSAssumption
    <3>2. QED
      BY <2>1, <2>2, <3>1
  <2>4. fin * BLOCK_SIZE + k \in Bytes
    BY <1>1, <1>2, <2>1, <2>3, BytesDe
  <2>5. QED
    BY <1>2, <1>3, <2>1, <2>4, Copiado
<1>8. ASSUME NEW g \in otros(f), NEW k \in 0..e[g] - 1
      PROVE  datos[desde(g) * BLOCK_SIZE + k] = <<g, k>>
  <2> DEFINE x == desde(g) * BLOCK_SIZE + k
  <2>1. g \in DOMAIN metadata /\ g # f
    BY DEF otros
  <2>2. /\ k \in Nat /\ k < cantidad(g) * BLOCK_SIZE
        /\ bloques[metadata[g].inicial * BLOCK_SIZE + k] = <<g, k>>
    BY <1>5, <1>6, <2>1, DeUnByte
  <2>3. desde(g) \in Nat /\ desde(g) + cantidad(g) <= fin
    BY Compactacion
  <2>4. cantidad(g) \in Nat \ {0}
    BY <2>1, DeUnArchivo
  <2>5. tramo(desde(g), cantidad(g)) \subseteq Bloques
    <3> HIDE DEF desde, fin, total
    <3>1. QED
      BY <1>1, <1>2, <2>3, <2>4, DialFSAssumption DEF tramo, Bloques
  <2>6. x \in Bytes
    BY <2>2, <2>3, <2>4, <2>5, BytesDe
  <2>7. compactado(f)[x] = <<g, k>>
    BY <2>2, <2>6, Corrido
  <2>8. x < fin * BLOCK_SIZE
    <3>1. (desde(g) + cantidad(g)) * BLOCK_SIZE <= fin * BLOCK_SIZE
      <4> HIDE DEF desde, fin
      <4>1. desde(g) + cantidad(g) \in Int
        BY <2>3, <2>4
      <4>2. QED
        BY <1>2, <2>3, <4>1, Multiplos
    <3>2. (desde(g) + cantidad(g)) * BLOCK_SIZE
            = desde(g) * BLOCK_SIZE + cantidad(g) * BLOCK_SIZE
      <4> HIDE DEF desde
      <4>1. QED
        BY <2>3, <2>4, Suma
    <3>3. desde(g) * BLOCK_SIZE \in Int /\ cantidad(g) * BLOCK_SIZE \in Int
          /\ fin * BLOCK_SIZE \in Int
      <4> HIDE DEF desde, fin
      <4>1. QED
        BY <1>2, <2>3, <2>4, DialFSAssumption
    <3> DEFINE A == desde(g) * BLOCK_SIZE
               C == cantidad(g) * BLOCK_SIZE
               F == fin * BLOCK_SIZE
    <3>4. A + C <= F /\ k < C /\ A \in Int /\ C \in Int /\ F \in Int /\ k \in Nat
      BY <2>2, <3>1, <3>2, <3>3
    <3> HIDE DEF A, C, F
    <3>5. A + k < F
      BY <3>4
    <3>6. QED
      BY <3>5 DEF A, F
  <2> HIDE DEF x
  <2>9. datos[x] = compactado(f)[x]
    BY <1>2, <1>3, <2>6, <2>8, NoCopiado
  <2>10. QED
    BY <2>7, <2>9 DEF x
<1> HIDE DEF datos, fin, desde
<1>9. ASSUME NEW g \in DOMAIN d, NEW k \in 0..e[g] - 1
      PROVE  datos[d[g].inicial * BLOCK_SIZE + k] = <<g, k>>
  <2>1. CASE g = f
    BY <1>4, <1>7, <2>1
  <2>2. CASE g # f
    BY <1>4, <1>8, <2>2
  <2>3. QED
    BY <2>1, <2>2
<1>10. Guarda(d, datos, e)
  BY <1>9 DEF Guarda
<1>11. QED
  BY <1>10 DEF datos, fin

-----------------------------------------------------------------------------
(* The steps: what programs wrote.                                         *)

(* A truncate changes at most the size of its file, to the one asked for. *)
LEMMA TamaniosAlTruncar ==
  ASSUME NEW f \in DOMAIN metadata, NEW n,
         \/ UNCHANGED <<metadata, bitmap, bloques, proceso>>
         \/ aumentarTamanioArchivo(f, n)
         \/ reducirTamanioArchivo(f, n)
  PROVE  /\ DOMAIN metadata' = DOMAIN metadata
         /\ metadata'[f].tamanio \in {metadata[f].tamanio, n}
         /\ \A g \in DOMAIN metadata : g # f => metadata'[g].tamanio = metadata[g].tamanio
<1>1. CASE metadata' = metadata
  BY <1>1
<1>2. CASE \E b : metadata' = poner(metadata, f, b, n)
  BY <1>2 DEF poner
<1>3. CASE compactar_con_vacios(f)
  <2>1. \E ini : metadata' = [h \in DOMAIN metadata |->
                                [inicial |-> ini[h], tamanio |-> metadata[h].tamanio]]
    <3>1. PICK g \in otros(f) :
            LET hechos == {h \in otros(f) : metadata[h].inicial < metadata[g].inicial} IN
            metadata' = [h \in DOMAIN metadata |->
                           [inicial |-> IF h \in hechos THEN nuevo_bloque_inicial(f, h)
                                                        ELSE metadata[h].inicial,
                            tamanio |-> metadata[h].tamanio]]
      BY <1>3 DEF compactar_con_vacios
    <3> DEFINE hechos == {h \in otros(f) : metadata[h].inicial < metadata[g].inicial}
               ini == [h \in DOMAIN metadata |->
                         IF h \in hechos THEN nuevo_bloque_inicial(f, h)
                                         ELSE metadata[h].inicial]
    <3>2. metadata' = [h \in DOMAIN metadata |->
                         [inicial |-> ini[h], tamanio |-> metadata[h].tamanio]]
      BY <3>1
    <3> HIDE DEF ini
    <3>3. QED
      BY <3>2
  <2>2. QED
    BY <2>1
<1>4. CASE metadata' = [g \in DOMAIN metadata |->
                          IF g = f THEN [inicial |-> ocupan(otros(f)), tamanio |-> n]
                                   ELSE [inicial |-> nuevo_bloque_inicial(f, g),
                                         tamanio |-> metadata[g].tamanio]]
  BY <1>4
<1>5. CASE aumentarTamanioArchivo(f, n)
  BY <1>1, <1>2, <1>3, <1>4, <1>5 DEF aumentarTamanioArchivo
<1>6. CASE reducirTamanioArchivo(f, n)
  BY <1>2, <1>6 DEF reducirTamanioArchivo
<1>7. CASE UNCHANGED <<metadata, bitmap, bloques, proceso>>
  BY <1>1, <1>7
<1>8. QED
  BY <1>5, <1>6, <1>7

(* What is left of the files after a growth. *)
LEMMA GuardaAlAumentar ==
  ASSUME TypeOK, BitmapExacto, viva = TRUE, cortada = FALSE, Escritos,
         Guarda(metadata, bloques, escrito),
         NEW f \in DOMAIN metadata, NEW nuevo \in 0..MaxTamanio,
         cantidad(f) < cantidadBloques(nuevo), aumentarTamanioArchivo(f, nuevo),
         NEW e, \A g \in DOMAIN metadata : e[g] \in Nat /\ e[g] <= escrito[g]
  PROVE  ~cortada' => Guarda(metadata', bloques', e)
<1> DEFINE m == metadata[f]
           total == cantidadBloques(nuevo)
           lugares == libres \cup extension(f)
<1>1. Exacto(metadata, bitmap)
  BY ExactoEs
<1>2. CASE metadata' = poner(metadata, f, m.inicial, nuevo) /\ bloques' = bloques
  BY <1>1, <1>2, GuardaEnElLugar
<1>3. CASE /\ comienzos(lugares, total) # {}
           /\ metadata' = poner(metadata, f, Min(comienzos(lugares, total)), nuevo)
           /\ bloques' = copia(bloques, m.inicial, Min(comienzos(lugares, total)), m.tamanio)
  <2> DEFINE b == Min(comienzos(lugares, total))
  <2>1. b \in comienzos(lugares, total)
    <3>1. comienzos(lugares, total) \in SUBSET Nat
      BY DialFSAssumption DEF comienzos, Bloques
    <3>2. QED
      BY <1>3, <3>1, MinEs
  <2> HIDE DEF b
  <2>2. Guarda(poner(metadata, f, b, nuevo), copia(bloques, m.inicial, b, m.tamanio), e)
    BY <1>1, <2>1, GuardaMudado
  <2>3. QED
    BY <1>3, <2>2 DEF b
<1>4. CASE compactar_con_vacios(f)
  BY <1>4 DEF compactar_con_vacios
<1>5. CASE /\ total <= Cardinality(lugares)
           /\ metadata' = [g \in DOMAIN metadata |->
                             IF g = f THEN [inicial |-> ocupan(otros(f)), tamanio |-> nuevo]
                                      ELSE [inicial |-> nuevo_bloque_inicial(f, g),
                                            tamanio |-> metadata[g].tamanio]]
           /\ bloques' = copia(compactado(f), m.inicial, ocupan(otros(f)), m.tamanio)
  <2>1. Guarda(metadata', copia(compactado(f), m.inicial, ocupan(otros(f)), m.tamanio), e)
    BY <1>5, GuardaCompactado
  <2>2. QED
    BY <1>5, <2>1
<1>6. CASE metadata' = metadata /\ bloques' = bloques
  <2>1. ASSUME NEW g \in DOMAIN metadata, NEW k \in 0..e[g] - 1
        PROVE  bloques[metadata[g].inicial * BLOCK_SIZE + k] = <<g, k>>
    <3>1. escrito[g] \in Nat /\ e[g] \in Nat /\ e[g] <= escrito[g]
      BY DEF TypeOK
    <3>2. k \in 0..escrito[g] - 1
      BY <3>1
    <3>3. QED
      BY <3>2 DEF Guarda
  <2>2. QED
    BY <1>6, <2>1 DEF Guarda
<1>7. QED
  BY <1>2, <1>3, <1>4, <1>5, <1>6 DEF aumentarTamanioArchivo

(* A truncate leaves every file what it had up to its new size. *)
LEMMA ContenidoAlTruncar ==
  ASSUME InvContenido, NEW f \in Archivos, NEW n \in 0..MaxTamanio, interfaz_fs_truncate(f, n)
  PROVE  Escritos' /\ ContenidoConservado'
<1>1. TypeOK /\ BitmapExacto /\ viva = TRUE /\ cortada = FALSE /\ Escritos
      /\ Guarda(metadata, bloques, escrito)
  BY GuardaEs DEF interfaz_fs_truncate, InvContenido, InvDialFS, Registrados, TypeOK
<1>2. CASE ~existe(f) /\ terminar
  <2>1. metadata' = metadata /\ bloques' = bloques /\ escrito' = escrito
    BY <1>2 DEF terminar
  <2>2. QED
    BY <1>1, <2>1, GuardaEs DEF Escritos, existe
<1>3. CASE existe(f)
  <2>1. /\ \/ UNCHANGED <<metadata, bitmap, bloques, proceso>>
           \/ cantidad(f) < cantidadBloques(n) /\ aumentarTamanioArchivo(f, n)
           \/ cantidad(f) > cantidadBloques(n) /\ reducirTamanioArchivo(f, n)
        /\ escrito' = [escrito EXCEPT ![f] = menor(@, n)]
        /\ f \in DOMAIN metadata
    BY <1>3 DEF interfaz_fs_truncate, cantidad, existe
  <2>2. /\ DOMAIN metadata' = DOMAIN metadata
        /\ metadata'[f].tamanio \in {metadata[f].tamanio, n}
        /\ \A g \in DOMAIN metadata : g # f => metadata'[g].tamanio = metadata[g].tamanio
    BY <2>1, TamaniosAlTruncar
  <2>3. \A g \in Archivos : escrito[g] \in Nat
    BY <1>1 DEF TypeOK
  <2>4. /\ escrito'[f] = menor(escrito[f], n)
        /\ escrito'[f] \in Nat /\ escrito'[f] <= escrito[f] /\ escrito'[f] <= n
        /\ \A g \in Archivos : g # f => escrito'[g] = escrito[g]
    <3>1. escrito'[f] = menor(escrito[f], n)
          /\ \A g \in Archivos : g # f => escrito'[g] = escrito[g]
      BY <1>1, <2>1 DEF TypeOK
    <3>2. menor(escrito[f], n) \in Nat /\ menor(escrito[f], n) <= escrito[f]
          /\ menor(escrito[f], n) <= n
      BY <2>3 DEF menor
    <3>3. QED
      BY <3>1, <3>2
  <2>5. Escritos'
    <3>1. escrito[f] <= metadata[f].tamanio /\ metadata[f].tamanio \in Nat
      BY <1>1, <2>1, DeUnArchivo DEF Escritos, existe
    <3>2. escrito'[f] <= metadata'[f].tamanio
      BY <2>2, <2>3, <2>4, <3>1
    <3>3. ASSUME NEW g \in Archivos, g # f
          PROVE  escrito'[g] <= IF g \in DOMAIN metadata' THEN metadata'[g].tamanio ELSE 0
      <4>1. escrito[g] <= IF g \in DOMAIN metadata THEN metadata[g].tamanio ELSE 0
        BY <1>1 DEF Escritos, existe
      <4>2. CASE g \in DOMAIN metadata
        BY <2>2, <2>4, <3>3, <4>1, <4>2
      <4>3. CASE g \notin DOMAIN metadata
        BY <2>2, <2>4, <3>3, <4>1, <4>3
      <4>4. QED
        BY <4>2, <4>3
    <3>4. QED
      BY <2>1, <2>2, <3>2, <3>3 DEF Escritos, existe
  <2>6. \A g \in DOMAIN metadata : escrito'[g] \in Nat /\ escrito'[g] <= escrito[g]
    <3>1. DOMAIN metadata \subseteq Archivos
      BY <1>1 DEF TypeOK
    <3>2. ASSUME NEW g \in DOMAIN metadata
          PROVE  escrito'[g] \in Nat /\ escrito'[g] <= escrito[g]
      <4>1. g \in Archivos /\ escrito[g] \in Nat
        BY <2>3, <3>1
      <4>2. CASE g = f
        BY <2>4, <4>2
      <4>3. CASE g # f
        BY <2>4, <4>1, <4>3
      <4>4. QED
        BY <4>2, <4>3
    <3>3. QED
      BY <3>2
  <2>7. ~cortada' => Guarda(metadata', bloques', escrito')
    <3> DEFINE e == escrito'
    <3>1. PICK w : w = e
      OBVIOUS
    <3>2. \A g \in DOMAIN metadata : w[g] \in Nat /\ w[g] <= escrito[g]
      BY <2>6, <3>1
    <3> HIDE DEF e
    <3>3. CASE UNCHANGED <<metadata, bitmap, bloques, proceso>>
      <4>1. ASSUME NEW g \in DOMAIN metadata, NEW k \in 0..w[g] - 1
            PROVE  bloques[metadata[g].inicial * BLOCK_SIZE + k] = <<g, k>>
        <5>1. escrito[g] \in Nat /\ w[g] \in Nat /\ w[g] <= escrito[g]
          BY <1>1, <3>2 DEF TypeOK
        <5>2. k \in 0..escrito[g] - 1
          BY <5>1
        <5>3. QED
          BY <1>1, <5>2 DEF Guarda
      <4>2. Guarda(metadata', bloques', w)
        BY <3>3, <4>1 DEF Guarda
      <4>3. QED
        BY <3>1, <4>2 DEF e
    <3>4. CASE cantidad(f) < cantidadBloques(n) /\ aumentarTamanioArchivo(f, n)
      <4>1. ~cortada' => Guarda(metadata', bloques', w)
        BY <1>1, <2>1, <3>2, <3>4, GuardaAlAumentar
      <4>2. QED
        BY <3>1, <4>1 DEF e
    <3>5. CASE cantidad(f) > cantidadBloques(n) /\ reducirTamanioArchivo(f, n)
      <4> DEFINE d == poner(metadata, f, metadata[f].inicial, n)
      <4>1. metadata' = d /\ bloques' = olvidar(bloques, f, n)
        BY <3>5 DEF reducirTamanioArchivo
      <4>2. Guarda(d, bloques, w)
        BY <1>1, <2>1, <3>2, ExactoEs, GuardaEnElLugar
      <4>3. DOMAIN d = DOMAIN metadata
            /\ \A g \in DOMAIN d : d[g].inicial = metadata[g].inicial
        BY <2>1 DEF poner
      <4> HIDE DEF d
      <4>4. ASSUME NEW g \in DOMAIN d, NEW k \in 0..w[g] - 1
            PROVE  olvidar(bloques, f, n)[d[g].inicial * BLOCK_SIZE + k] = <<g, k>>
        <5>1. escrito[g] \in Nat /\ w[g] \in Nat /\ w[g] <= escrito[g]
          BY <1>1, <3>2, <4>3 DEF TypeOK
        <5>2. k \in 0..escrito[g] - 1 /\ g \in DOMAIN metadata
          BY <4>3, <5>1
        <5>3. metadata[g].inicial * BLOCK_SIZE + k \in Bytes /\ k \in Nat
          BY <1>1, <5>2, ExactoEs, DeUnByte
        <5>4. bloques[d[g].inicial * BLOCK_SIZE + k] = <<g, k>>
          BY <4>2 DEF Guarda
        <5>5. g # f \/ k < n
          BY <2>4, <3>1, <5>1, <5>3 DEF e
        <5>6. QED
          BY <4>3, <5>3, <5>4, <5>5, Olvidados
      <4>5. Guarda(d, olvidar(bloques, f, n), w)
        BY <4>4 DEF Guarda
      <4>6. QED
        BY <3>1, <4>1, <4>5 DEF e
    <3>6. QED
      BY <2>1, <3>3, <3>4, <3>5
  <2>8. QED
    BY <2>5, <2>7, GuardaEs
<1>4. QED
  BY <1>2, <1>3 DEF interfaz_fs_truncate

(* A program that writes inside the size of its file writes over nobody's. *)
LEMMA ContenidoAlEscribir ==
  ASSUME InvContenido, LimiteEscritura = "metadata",
         NEW f \in Archivos, NEW n \in 0..MaxTamanio, interfaz_fs_write(f, n)
  PROVE  Escritos' /\ ContenidoConservado'
<1>1. TypeOK /\ viva = TRUE /\ cortada = FALSE /\ Escritos /\ Exacto(metadata, bitmap)
      /\ Guarda(metadata, bloques, escrito)
  BY GuardaEs, ExactoEs DEF interfaz_fs_write, InvContenido, InvDialFS, Registrados, TypeOK
<1>2. CASE ~existe(f) /\ terminar
  <2>1. metadata' = metadata /\ bloques' = bloques /\ escrito' = escrito
    BY <1>2 DEF terminar
  <2>2. QED
    BY <1>1, <2>1, GuardaEs DEF Escritos, existe
<1>3. CASE existe(f)
  <2> DEFINE desde == metadata[f].inicial * BLOCK_SIZE
             max == IF n > escrito[f] THEN n ELSE escrito[f]
  <2>1. /\ f \in DOMAIN metadata /\ 0 < n /\ n <= metadata[f].tamanio
        /\ metadata' = metadata
        /\ bloques' = [x \in Bytes |-> IF desde <= x /\ x < desde + n THEN <<f, x - desde>>
                                                                     ELSE bloques[x]]
        /\ escrito' = [escrito EXCEPT ![f] = IF n > @ THEN n ELSE @]
    BY <1>3 DEF interfaz_fs_write, limite, existe
  <2>2. /\ metadata[f].inicial \in Nat /\ metadata[f].tamanio \in Nat
        /\ cantidad(f) \in Nat \ {0} /\ metadata[f].tamanio <= cantidad(f) * BLOCK_SIZE
        /\ extension(f) = tramo(metadata[f].inicial, cantidad(f))
        /\ extension(f) \subseteq Bloques
    BY <1>1, <2>1, DeUnArchivo DEF TypeOK, Exacto, segun, extension
  <2>3. desde \in Nat /\ cantidad(f) * BLOCK_SIZE \in Nat /\ n <= cantidad(f) * BLOCK_SIZE
    <3>1. desde \in Nat /\ cantidad(f) * BLOCK_SIZE \in Nat
      BY <2>2, DialFSAssumption
    <3>2. QED
      BY <2>1, <2>2, <3>1
  <2>4. /\ escrito'[f] = max /\ max \in Nat /\ escrito[f] \in Nat
        /\ max <= metadata[f].tamanio /\ (max = n \/ max = escrito[f])
        /\ \A g \in Archivos : g # f => escrito'[g] = escrito[g]
    <3>1. escrito \in [Archivos -> 0..MaxTamanio]
      BY <1>1 DEF TypeOK
    <3>2. escrito[f] \in Nat /\ escrito[f] <= metadata[f].tamanio
      BY <1>1, <2>1, <3>1 DEF Escritos, existe
    <3>3. QED
      BY <2>1, <3>1, <3>2
  <2>5. Escritos'
    BY <1>1, <2>1, <2>4 DEF Escritos, existe
  <2>6. ASSUME NEW k \in 0..max - 1
        PROVE  bloques'[desde + k] = <<f, k>>
    <3>1. CASE k < n
      <4>1. desde + k \in Bytes
        <5>1. k < cantidad(f) * BLOCK_SIZE /\ k \in Nat
          BY <2>3, <2>4, <3>1
        <5>2. QED
          BY <2>2, <5>1, BytesDe
      <4> HIDE DEF desde
      <4>2. desde <= desde + k /\ desde + k < desde + n /\ (desde + k) - desde = k
        BY <2>3, <2>4, <3>1
      <4>3. QED
        BY <2>1, <4>1, <4>2
    <3>2. CASE ~(k < n)
      <4>1. k \in 0..escrito[f] - 1
        BY <2>4, <3>2
      <4>2. desde + k \in Bytes /\ bloques[desde + k] = <<f, k>>
        BY <1>1, <2>1, <4>1, DeUnByte
      <4> HIDE DEF desde
      <4>3. ~(desde + k < desde + n)
        BY <2>3, <2>4, <3>2
      <4>4. QED
        BY <2>1, <4>2, <4>3
    <3>3. QED
      BY <3>1, <3>2
  <2>7. ASSUME NEW g \in DOMAIN metadata, g # f, NEW k \in 0..escrito[g] - 1
        PROVE  bloques'[metadata[g].inicial * BLOCK_SIZE + k] = <<g, k>>
    <3> DEFINE x == metadata[g].inicial * BLOCK_SIZE + k
    <3>1. k \in Nat /\ k < cantidad(g) * BLOCK_SIZE /\ x \in Bytes /\ bloques[x] = <<g, k>>
      BY <1>1, DeUnByte
    <3>2. /\ metadata[g].inicial \in Nat /\ cantidad(g) \in Nat \ {0}
          /\ extension(g) = tramo(metadata[g].inicial, cantidad(g))
      BY <1>1, DeUnArchivo
    <3>3. tramo(metadata[g].inicial, cantidad(g))
            \cap tramo(metadata[f].inicial, cantidad(f)) = {}
      BY <1>1, <2>1, <2>2, <2>7, <3>2 DEF Exacto, segun, extension
    <3>4. x < desde \/ desde + cantidad(f) * BLOCK_SIZE <= x
      BY <2>2, <3>1, <3>2, <3>3, BytesSeparados
    <3>5. x \in Int
      BY <3>1 DEF Bytes
    <3> HIDE DEF x, desde
    <3>6. ~(desde <= x /\ x < desde + n)
      BY <2>3, <3>4, <3>5
    <3>7. bloques'[x] = bloques[x]
      BY <2>1, <3>1, <3>6
    <3>8. QED
      BY <3>1, <3>7 DEF x
  <2>8. ASSUME NEW g \in DOMAIN metadata', NEW k \in 0..escrito'[g] - 1
        PROVE  bloques'[metadata'[g].inicial * BLOCK_SIZE + k] = <<g, k>>
    <3>1. g \in DOMAIN metadata /\ g \in Archivos
      BY <1>1, <2>1 DEF TypeOK
    <3>2. CASE g = f
      BY <2>1, <2>4, <2>6, <3>2
    <3>3. CASE g # f
      <4>1. k \in 0..escrito[g] - 1 /\ metadata'[g].inicial = metadata[g].inicial
        BY <2>1, <2>4, <3>1, <3>3
      <4>2. QED
        BY <2>7, <3>1, <3>3, <4>1
    <3>4. QED
      BY <3>2, <3>3
  <2>9. Guarda(metadata', bloques', escrito')
    BY <2>8 DEF Guarda
  <2>10. QED
    BY <2>5, <2>9, GuardaEs
<1>4. QED
  BY <1>2, <1>3 DEF interfaz_fs_write

(* A new file has nothing yet, whatever is in its block. *)
LEMMA ContenidoAlCrear ==
  ASSUME InvContenido, NEW f \in Archivos, interfaz_fs_create(f)
  PROVE  Escritos' /\ ContenidoConservado'
<1>1. TypeOK /\ cortada = FALSE /\ Escritos /\ Guarda(metadata, bloques, escrito)
      /\ f \notin DOMAIN metadata
  BY GuardaEs DEF interfaz_fs_create, InvContenido, InvDialFS, Registrados, TypeOK
<1>2. escrito' = escrito /\ bloques' = bloques
  BY DEF interfaz_fs_create
<1>3. escrito[f] = 0
  BY <1>1 DEF Escritos, existe, TypeOK
<1>4. CASE metadata' = metadata
  BY <1>1, <1>2, <1>4, GuardaEs DEF Escritos, existe
<1>5. CASE metadata' = poner(metadata, f, Min(libres), 0)
  <2>1. /\ DOMAIN metadata' = DOMAIN metadata \cup {f} /\ metadata'[f].tamanio = 0
        /\ \A g \in DOMAIN metadata : metadata'[g] = metadata[g]
    BY <1>1, <1>5 DEF poner
  <2>2. Escritos'
    BY <1>1, <1>2, <1>3, <2>1 DEF Escritos, existe
  <2>3. ASSUME NEW g \in DOMAIN metadata', NEW k \in 0..escrito[g] - 1
        PROVE  bloques[metadata'[g].inicial * BLOCK_SIZE + k] = <<g, k>>
    <3>1. g # f
      BY <1>3
    <3>2. QED
      BY <1>1, <2>1, <3>1 DEF Guarda
  <2>4. Guarda(metadata', bloques', escrito')
    BY <1>2, <2>3 DEF Guarda
  <2>5. QED
    BY <2>2, <2>4, GuardaEs
<1>6. QED
  BY <1>4, <1>5 DEF interfaz_fs_create

(* The bytes of a file that is deleted are forgotten, and no others. *)
LEMMA ContenidoAlBorrar ==
  ASSUME InvContenido, NEW f \in Archivos, interfaz_fs_delete(f)
  PROVE  Escritos' /\ ContenidoConservado'
<1>1. TypeOK /\ cortada = FALSE /\ Escritos /\ Exacto(metadata, bitmap)
      /\ Guarda(metadata, bloques, escrito)
  BY GuardaEs, ExactoEs DEF interfaz_fs_delete, InvContenido, InvDialFS, Registrados, TypeOK
<1>2. /\ metadata' = [g \in DOMAIN metadata \ {f} |-> metadata[g]]
      /\ escrito' = [escrito EXCEPT ![f] = 0]
      /\ bloques' = olvidar(bloques, f, 0)
  BY DEF interfaz_fs_delete
<1>3. DOMAIN metadata' = DOMAIN metadata \ {f}
      /\ \A g \in DOMAIN metadata' : metadata'[g] = metadata[g]
  BY <1>2
<1>4. escrito'[f] = 0 /\ \A g \in Archivos : g # f => escrito'[g] = escrito[g]
  BY <1>1, <1>2 DEF TypeOK
<1>5. Escritos'
  <2>1. ASSUME NEW g \in Archivos
        PROVE  escrito'[g] <= IF g \in DOMAIN metadata' THEN metadata'[g].tamanio ELSE 0
    <3>1. CASE g = f
      BY <1>3, <1>4, <3>1
    <3>2. CASE g # f
      BY <1>1, <1>3, <1>4, <3>2 DEF Escritos, existe
    <3>3. QED
      BY <3>1, <3>2
  <2>2. QED
    BY <2>1 DEF Escritos, existe
<1>6. ASSUME NEW g \in DOMAIN metadata', NEW k \in 0..escrito'[g] - 1
      PROVE  bloques'[metadata'[g].inicial * BLOCK_SIZE + k] = <<g, k>>
  <2>1. g \in DOMAIN metadata /\ g # f /\ metadata'[g] = metadata[g]
    BY <1>3
  <2>2. k \in 0..escrito[g] - 1
    BY <1>1, <1>4, <2>1 DEF TypeOK
  <2>3. /\ metadata[g].inicial * BLOCK_SIZE + k \in Bytes /\ k \in Nat
        /\ bloques[metadata[g].inicial * BLOCK_SIZE + k] = <<g, k>>
    BY <1>1, <2>1, <2>2, DeUnByte
  <2>4. QED
    BY <1>2, <2>1, <2>3, Olvidados
<1>7. Guarda(metadata', bloques', escrito')
  BY <1>6 DEF Guarda
<1>8. QED
  BY <1>5, <1>7, GuardaEs

(* Every operation, a start and a stuttering step keep what was written. *)
LEMMA PasoContenido ==
  ASSUME InvContenido, LimiteEscritura = "metadata", [Next]_vars
  PROVE  InvContenido'
<1>1. InvDialFS'
  BY PasoDialFS DEF InvContenido
<1>2. CASE \/ UNCHANGED vars \/ inicializar_fs
           \/ \E f \in Archivos : interfaz_fs_delete_vacio(f)
  <2>1. metadata' = metadata /\ bloques' = bloques /\ escrito' = escrito
        /\ cortada' = cortada
    BY <1>2 DEF vars, inicializar_fs, interfaz_fs_delete_vacio, terminar
  <2>2. Escritos' /\ ContenidoConservado'
    BY <2>1, GuardaEs DEF InvContenido, Escritos, existe
  <2>3. QED
    BY <1>1, <2>2 DEF InvContenido
<1>3. ASSUME NEW f \in Archivos, interfaz_fs_create(f)
      PROVE  Escritos' /\ ContenidoConservado'
  BY <1>3, ContenidoAlCrear
<1>4. ASSUME NEW f \in Archivos, interfaz_fs_delete(f)
      PROVE  Escritos' /\ ContenidoConservado'
  BY <1>4, ContenidoAlBorrar
<1>5. ASSUME NEW f \in Archivos, NEW n \in 0..MaxTamanio, interfaz_fs_truncate(f, n)
      PROVE  Escritos' /\ ContenidoConservado'
  BY <1>5, ContenidoAlTruncar
<1>6. ASSUME NEW f \in Archivos, NEW n \in 0..MaxTamanio, interfaz_fs_write(f, n)
      PROVE  Escritos' /\ ContenidoConservado'
  BY <1>6, ContenidoAlEscribir
<1>7. QED
  BY <1>1, <1>2, <1>3, <1>4, <1>5, <1>6 DEF Next, InvContenido

(* ContenidoConservado: if programs write inside the size in the metadata, *)
(* what they wrote stays in the blocks of its file through the growth, the *)
(* compaction and the restarts of the others, for every size of the disk.  *)
THEOREM DialFSContenido ==
  ASSUME LimiteEscritura = "metadata"
  PROVE  Spec => []ContenidoConservado
<1>1. Init => InvContenido
  <2>1. ASSUME Init
        PROVE  Escritos /\ ContenidoConservado
    BY <2>1, DialFSAssumption DEF Init, Escritos, existe, ContenidoConservado
  <2>2. QED
    BY <2>1, AlEmpezar DEF InvContenido
<1>2. InvContenido /\ [Next]_vars => InvContenido'
  BY PasoContenido
<1>3. InvContenido => ContenidoConservado
  BY DEF InvContenido
<1>4. QED
  BY <1>1, <1>2, <1>3, PTL DEF Spec
=============================================================================
