---------------------------- MODULE CicloCPUProofs ----------------------------
(***************************************************************************)
(* Proofs about CicloCPU, for every set of processes, programs and page    *)
(* tables, every size of a page and width of the registers.                *)
(***************************************************************************)
EXTENDS CicloCPU, SecuenciasProofs, SequenceTheorems, TLAPS

-----------------------------------------------------------------------------
(* Recursive functions.                                                    *)

(* The value of f at each k in 1 .. n is computed by g[k] from its value   *)
(* at a smaller number, ant[k].                                            *)
Pasos(n, S, base, ant, g) ==
  /\ n \in Nat
  /\ base \in S
  /\ ant \in [1 .. n -> Nat] /\ \A k \in 1 .. n : ant[k] < k
  /\ g \in [1 .. n -> [S -> S]]

Recursiva(f, n, S, base, ant, g) ==
  /\ f \in [0 .. n -> S]
  /\ f[0] = base
  /\ \A k \in 1 .. n : f[k] = g[k][f[ant[k]]]

(* There is such a function. *)
LEMMA HayRecursiva ==
  ASSUME NEW n, NEW S, NEW base, NEW ant, NEW g, Pasos(n, S, base, ant, g)
  PROVE  \E f : Recursiva(f, n, S, base, ant, g)
<1> USE DEF Pasos
<1> DEFINE Hasta(m) ==
             \E f \in [0 .. m -> S] :
               f[0] = base /\ \A k \in 1 .. m : f[k] = g[k][f[ant[k]]]
           Malos == {m \in 0 .. n : ~Hasta(m)}
<1>1. Hasta(0)
  <2> DEFINE f0 == [k \in 0 .. 0 |-> base]
  <2>1. f0 \in [0 .. 0 -> S] /\ f0[0] = base
    OBVIOUS
  <2>2. \A k \in 1 .. 0 : f0[k] = g[k][f0[ant[k]]]
    OBVIOUS
  <2> QED BY <2>1, <2>2
<1>2. ASSUME NEW m \in 1 .. n, Hasta(m - 1)
      PROVE  Hasta(m)
  <2>1. PICK f \in [0 .. m - 1 -> S] :
          f[0] = base /\ \A k \in 1 .. m - 1 : f[k] = g[k][f[ant[k]]]
    BY <1>2
  <2>2. ant[m] \in 0 .. m - 1 /\ f[ant[m]] \in S /\ g[m] \in [S -> S]
    OBVIOUS
  <2> DEFINE h == [k \in 0 .. m |-> IF k < m THEN f[k] ELSE g[m][f[ant[m]]]]
  <2>3. h \in [0 .. m -> S]
    BY <2>2
  <2>4. h[0] = base
    BY <2>1
  <2>5. ASSUME NEW k \in 1 .. m
        PROVE  h[k] = g[k][h[ant[k]]]
    <3>1. ant[k] \in 0 .. m - 1 /\ h[ant[k]] = f[ant[k]]
      OBVIOUS
    <3>2. CASE k < m
      BY <2>1, <3>1, <3>2
    <3>3. CASE k = m
      BY <3>1, <3>3
    <3> QED BY <3>2, <3>3
  <2> HIDE DEF h
  <2> QED BY <2>3, <2>4, <2>5
<1> HIDE DEF Hasta
<1>3. ASSUME Malos # {} PROVE FALSE
  <2>4. Malos \in SUBSET Nat
    OBVIOUS
  <2>1. PICK m \in Malos : \A k \in Malos : m <= k
    <3> HIDE DEF Malos
    <3> QED BY <1>3, <2>4, HayPrimero
  <2>2. m \in 1 .. n /\ ~Hasta(m)
    BY <1>1
  <2>3. m - 1 \in 0 .. n /\ m - 1 \notin Malos
    BY <2>1, <2>2
  <2> QED BY <1>2, <2>2, <2>3
<1>4. Hasta(n)
  BY <1>3
<1> QED BY <1>4 DEF Hasta, Recursiva

-----------------------------------------------------------------------------
(* Pages.                                                                  *)

(* The offset of an address is less than a page. *)
LEMMA OffsetDe ==
  ASSUME NEW dl \in Nat
  PROVE  /\ obtener_pagina(dl) \in Nat
         /\ offset(dl) \in 0 .. tamanio_pagina - 1
         /\ dl = obtener_pagina(dl) * tamanio_pagina + offset(dl)
BY FragmentosAssumption DEF obtener_pagina, offset, obtener_offset

(* A quotient is known by the multiples it is between. *)
LEMMA CocienteUnico ==
  ASSUME NEW x \in Nat, NEW q \in Nat, NEW s \in Nat, s > 0,
         q * s <= x, x < q * s + s
  PROVE  x \div s = q
<1> DEFINE c == x \div s
<1>1. c \in Nat /\ c * s <= x /\ x < c * s + s
  OBVIOUS
<1> HIDE DEF c
<1>2. CASE c < q
  <2>1. c + 1 <= q
    BY <1>1, <1>2
  <2>2. (c + 1) * s <= q * s
    BY <1>1, <2>1
  <2>3. (c + 1) * s = c * s + s
    BY <1>1
  <2> QED BY <1>1, <2>2, <2>3
<1>3. CASE q < c
  <2>1. q + 1 <= c
    BY <1>1, <1>3
  <2>2. (q + 1) * s <= c * s
    BY <1>1, <2>1
  <2>3. (q + 1) * s = q * s + s
    OBVIOUS
  <2> QED BY <1>1, <2>2, <2>3
<1> QED BY <1>1, <1>2, <1>3 DEF c

(* A number less than another is its own remainder. *)
LEMMA RestoIgual ==
  ASSUME NEW x \in Nat, NEW s \in Nat, x < s
  PROVE  x % s = x
<1>1. x \div s = 0
  BY CocienteUnico
<1>2. x = s * (x \div s) + (x % s)
  OBVIOUS
<1>3. s * (x \div s) = 0
  BY <1>1
<1>4. x % s \in Nat
  OBVIOUS
<1> QED BY <1>2, <1>3, <1>4

-----------------------------------------------------------------------------
(* The pieces of an access.                                                *)

Trozo == [dl : Nat, bytes : Nat \ {0}]

(* The bytes of the piece that starts at x, of an access from dl to fin. *)
BytesDe(x, dl, fin, o, l) == menor(tamanio_pagina - (IF x = dl THEN o ELSE l), fin - x)

(* ts goes from a to fin, a part of the access from dl to fin: each piece  *)
(* starts where the one before it ends.                                    *)
Corta(ts, a, dl, fin, o, l) ==
  /\ ts \in Seq(Trozo)
  /\ ts = <<>> <=> a = fin
  /\ ts # <<>> => ts[1].dl = a
  /\ \A k \in 1 .. Len(ts) :
       /\ a <= ts[k].dl
       /\ ts[k].dl + ts[k].bytes <= fin
       /\ ts[k].bytes = BytesDe(ts[k].dl, dl, fin, o, l)
       /\ ts[k].dl + ts[k].bytes = IF k = Len(ts) THEN fin ELSE ts[k + 1].dl

(* A piece before the others. *)
LEMMA CortaUnoMas ==
  ASSUME NEW dl \in Nat, NEW fin \in Nat, NEW a \in Nat, dl <= a, a < fin,
         NEW o \in 0 .. tamanio_pagina - 1, NEW l \in 0 .. tamanio_pagina - 1,
         NEW b, b = BytesDe(a, dl, fin, o, l),
         NEW ts, Corta(ts, a + b, dl, fin, o, l)
  PROVE  Corta(<<[dl |-> a, bytes |-> b]>> \o ts, a, dl, fin, o, l)
<1> DEFINE t == [dl |-> a, bytes |-> b]
           us == <<t>> \o ts
<1>1. b \in Nat \ {0} /\ a + b <= fin
  BY FragmentosAssumption DEF BytesDe, menor
<1>2. t \in Trozo /\ t.dl = a /\ t.bytes = b
  BY <1>1 DEF Trozo
<1>3. ts \in Seq(Trozo) /\ Len(ts) \in Nat
  BY DEF Corta
<1>4. /\ us \in Seq(Trozo) /\ Len(us) = 1 + Len(ts) /\ us[1] = t
      /\ \A k \in 1 .. Len(ts) : us[k + 1] = ts[k]
  <2> HIDE DEF t
  <2> QED BY <1>2, <1>3
<1>5. \A k \in 2 .. Len(us) : us[k] = ts[k - 1] /\ k - 1 \in 1 .. Len(ts)
  <2> HIDE DEF us
  <2> TAKE k \in 2 .. Len(us)
  <2>1. k - 1 \in 1 .. Len(ts) /\ (k - 1) + 1 = k
    BY <1>3, <1>4
  <2> QED BY <1>4, <2>1
<1>6. us # <<>> /\ a # fin
  BY <1>3, <1>4
<1> HIDE DEF t, us
<1>7. ASSUME NEW k \in 1 .. Len(us)
      PROVE  /\ a <= us[k].dl
             /\ us[k].dl + us[k].bytes <= fin
             /\ us[k].bytes = BytesDe(us[k].dl, dl, fin, o, l)
             /\ us[k].dl + us[k].bytes = IF k = Len(us) THEN fin ELSE us[k + 1].dl
  <2>1. CASE k = 1
    <3>1. us[k] = t
      BY <1>4, <2>1
    <3>2. CASE ts = <<>>
      <4>1. Len(us) = 1 /\ a + b = fin
        BY <1>4, <3>2 DEF Corta
      <4> QED BY <1>1, <1>2, <2>1, <3>1, <4>1
    <3>3. CASE ts # <<>>
      <4>1. Len(ts) > 0
        BY <1>3, <3>3
      <4>2. us[2] = ts[1] /\ 1 \in 1 .. Len(ts) /\ ts[1].dl = a + b /\ Len(us) # 1
        BY <1>3, <1>4, <3>3, <4>1 DEF Corta
      <4> QED BY <1>1, <1>2, <2>1, <3>1, <4>2
    <3> QED BY <3>2, <3>3
  <2>2. CASE k # 1
    <3> DEFINE j == k - 1
    <3>1. us[k] = ts[j] /\ j \in 1 .. Len(ts) /\ (k = Len(us) <=> j = Len(ts))
      BY <1>3, <1>4, <1>5, <2>2
    <3>2. ts[j] \in Trozo
      BY <1>3, <3>1, ElementOfSeq
    <3> HIDE DEF j
    <3>9. ts[j].dl \in Nat /\ ts[j].bytes \in Nat
      BY <3>2 DEF Trozo
    <3>3. k # Len(us) => us[k + 1] = ts[j + 1]
      <4>1. k # Len(us) => j + 1 \in 1 .. Len(ts) /\ j + 1 = k
        BY <1>3, <1>4, <3>1 DEF j
      <4> QED BY <1>4, <4>1
    <3>4. /\ a + b <= ts[j].dl
          /\ ts[j].dl + ts[j].bytes <= fin
          /\ ts[j].bytes = BytesDe(ts[j].dl, dl, fin, o, l)
          /\ ts[j].dl + ts[j].bytes = IF j = Len(ts) THEN fin ELSE ts[j + 1].dl
      BY <3>1 DEF Corta
    <3>5. a <= ts[j].dl
      BY <1>1, <3>9, <3>4
    <3> QED BY <3>1, <3>3, <3>4, <3>5
  <2> QED BY <2>1, <2>2
<1>8. Corta(us, a, dl, fin, o, l)
  BY <1>2, <1>4, <1>6, <1>7 DEF Corta
<1> QED BY <1>8 DEF us, t

(* The pieces of any access go from its first byte to its last one. *)
LEMMA TrozosCortan ==
  ASSUME NEW dl \in Nat, NEW t \in Nat,
         NEW o \in 0 .. tamanio_pagina - 1, NEW l \in 0 .. tamanio_pagina - 1
  PROVE  Corta(trozos(dl, o, l, t), dl, dl, dl + t, o, l)
<1> DEFINE fin == dl + t
           B(r) == menor(tamanio_pagina - (IF r = t THEN o ELSE l), r)
           ant == [r \in 1 .. t |-> r - B(r)]
           g == [r \in 1 .. t |->
                   [s \in Seq(Trozo) |-> <<[dl |-> dl + t - r, bytes |-> B(r)]>> \o s]]
           Es(f) == f = [r \in 0 .. t |->
                           IF r = 0 THEN <<>>
                           ELSE LET b == menor(tamanio_pagina - (IF r = t THEN o ELSE l), r)
                                IN  <<[dl |-> dl + t - r, bytes |-> b]>> \o f[r - b]]
<1>1. \A r \in 1 .. t : B(r) \in 1 .. r /\ B(r) = BytesDe(dl + t - r, dl, fin, o, l)
  BY FragmentosAssumption DEF menor, BytesDe
<1>2. ant \in [1 .. t -> Nat] /\ \A r \in 1 .. t : ant[r] = r - B(r) /\ ant[r] < r
  <2> HIDE DEF B
  <2> QED BY <1>1
<1>3. g \in [1 .. t -> [Seq(Trozo) -> Seq(Trozo)]]
  <2> SUFFICES ASSUME NEW r \in 1 .. t, NEW s \in Seq(Trozo)
               PROVE  <<[dl |-> dl + t - r, bytes |-> B(r)]>> \o s \in Seq(Trozo)
    OBVIOUS
  <2>1. [dl |-> dl + t - r, bytes |-> B(r)] \in Trozo
    BY <1>1 DEF Trozo
  <2> HIDE DEF B
  <2> QED BY <2>1
<1>4. PICK f \in [0 .. t -> Seq(Trozo)] :
        f[0] = <<>> /\ \A r \in 1 .. t : f[r] = g[r][f[ant[r]]]
  <2> HIDE DEF g, ant
  <2> DEFINE S == Seq(Trozo)
  <2>1. <<>> \in S
    OBVIOUS
  <2>2. Pasos(t, S, <<>>, ant, g)
    BY <1>2, <1>3, <2>1 DEF Pasos
  <2>3. PICK f : Recursiva(f, t, S, <<>>, ant, g)
    <3> HIDE DEF S
    <3> QED BY <2>2, HayRecursiva
  <2> QED BY <2>3 DEF Recursiva
<1>5. Es(f)
  <2>1. ASSUME NEW r \in 1 .. t
        PROVE  f[r] = <<[dl |-> dl + t - r, bytes |-> B(r)]>> \o f[r - B(r)]
    <3>1. ant[r] \in 0 .. t /\ f[ant[r]] \in Seq(Trozo) /\ ant[r] = r - B(r)
      <4> HIDE DEF ant, B
      <4> QED BY <1>2
    <3>2. g[r] = [s \in Seq(Trozo) |-> <<[dl |-> dl + t - r, bytes |-> B(r)]>> \o s]
      OBVIOUS
    <3>3. g[r][f[r - B(r)]] = <<[dl |-> dl + t - r, bytes |-> B(r)]>> \o f[r - B(r)]
      <4> HIDE DEF B, g
      <4> QED BY <3>1, <3>2
    <3> HIDE DEF B, g, ant
    <3> QED BY <1>4, <3>1, <3>3
  <2>2. \A r \in 0 .. t : f[r] = IF r = 0 THEN <<>>
                                 ELSE <<[dl |-> dl + t - r, bytes |-> B(r)]>> \o f[r - B(r)]
    <3> HIDE DEF B, g, ant
    <3> QED BY <1>4, <2>1
  <2> QED BY <2>2
<1> DEFINE desde == CHOOSE d : Es(d)
<1>6. Es(desde)
  <2> HIDE DEF Es
  <2> QED BY <1>5
<1>7. trozos(dl, o, l, t) = desde[t]
  BY DEF trozos
<1> HIDE DEF desde
<1> DEFINE Malos == {r \in 0 .. t : ~Corta(desde[r], fin - r, dl, fin, o, l)}
<1>8. ASSUME Malos # {} PROVE FALSE
  <2>4. Malos \in SUBSET Nat
    OBVIOUS
  <2>1. PICK r \in Malos : \A k \in Malos : r <= k
    <3> HIDE DEF Malos
    <3> QED BY <1>8, <2>4, HayPrimero
  <2>2. CASE r = 0
    <3>1. desde[0] = <<>>
      BY <1>6
    <3>2. Corta(<<>>, fin, dl, fin, o, l)
      BY DEF Corta
    <3> QED BY <2>1, <2>2, <3>1, <3>2
  <2>3. CASE r # 0
    <3>1. r \in 1 .. t
      BY <2>1, <2>3
    <3>2. desde[r] = <<[dl |-> dl + t - r, bytes |-> B(r)]>> \o desde[r - B(r)]
      <4>1. desde[r] = IF r = 0 THEN <<>>
                       ELSE <<[dl |-> dl + t - r, bytes |-> B(r)]>> \o desde[r - B(r)]
        <5>1. desde = [k \in 0 .. t |->
                         IF k = 0 THEN <<>>
                         ELSE <<[dl |-> dl + t - k, bytes |-> B(k)]>> \o desde[k - B(k)]]
          BY <1>6
        <5> HIDE DEF B
        <5> QED BY <5>1
      <4> QED BY <2>3, <4>1
    <3>3. r - B(r) \in 0 .. t /\ r - B(r) < r
      <4>1. B(r) \in 1 .. r
        BY <1>1, <3>1
      <4> HIDE DEF B
      <4> QED BY <3>1, <4>1
    <3>4. Corta(desde[r - B(r)], fin - (r - B(r)), dl, fin, o, l)
      <4> HIDE DEF B
      <4> QED BY <2>1, <3>3
    <3> DEFINE a == fin - r
    <3>5. /\ a \in Nat /\ dl <= a /\ a < fin /\ a = dl + t - r
          /\ fin - (r - B(r)) = a + B(r) /\ B(r) = BytesDe(a, dl, fin, o, l)
      <4>1. a \in Nat /\ dl <= a /\ a < fin /\ a = dl + t - r
        BY <3>1
      <4> HIDE DEF B
      <4>2. fin - (r - B(r)) = a + B(r)
        BY <1>1, <3>1
      <4> HIDE DEF a
      <4> QED BY <1>1, <3>1, <4>1, <4>2
    <3>6. Corta(<<[dl |-> a, bytes |-> B(r)]>> \o desde[r - B(r)], a, dl, fin, o, l)
      <4> HIDE DEF a, B
      <4>1. fin \in Nat
        OBVIOUS
      <4> HIDE DEF fin
      <4> QED BY <3>4, <3>5, <4>1, CortaUnoMas
    <3> HIDE DEF B, fin
    <3> QED BY <2>1, <3>2, <3>5, <3>6 DEF a
  <2> QED BY <2>2, <2>3
<1>9. Corta(desde[t], fin - t, dl, fin, o, l)
  <2> HIDE DEF fin
  <2> QED BY <1>8
<1> QED BY <1>7, <1>9

(* With the same offset for all the pieces, they are all as long but the   *)
(* last one, and obtener_cantidad_dirs counts them.                        *)
LEMMA CantidadDeTrozos ==
  ASSUME NEW dl \in Nat, NEW t \in Nat,
         NEW ts, Corta(ts, dl, dl, dl + t, offset(dl), offset(dl))
  PROVE  Len(ts) = obtener_cantidad_dirs(dl, t)
<1> DEFINE s == tamanio_pagina - offset(dl)
           fin == dl + t
           n == Len(ts)
           Malos == {k \in 1 .. n : ts[k].dl # dl + (k - 1) * s}
<1>1. s \in Nat \ {0} /\ fin \in Nat /\ n \in Nat
  <2>1. ts \in Seq(Trozo)
    BY DEF Corta
  <2>2. n \in Nat
    BY <2>1, LenProperties
  <2>3. offset(dl) \in 0 .. tamanio_pagina - 1
    BY OffsetDe
  <2> HIDE DEF n
  <2> QED BY <2>2, <2>3, FragmentosAssumption
<1>2. \A k \in 1 .. n : ts[k] \in Trozo
  BY ElementOfSeq DEF Corta
<1>3. \A k \in 1 .. n :
        /\ ts[k].dl \in Nat /\ ts[k].bytes \in Nat \ {0}
        /\ ts[k].dl + ts[k].bytes <= fin
        /\ ts[k].bytes = menor(s, fin - ts[k].dl)
        /\ ts[k].dl + ts[k].bytes = IF k = n THEN fin ELSE ts[k + 1].dl
  <2> TAKE k \in 1 .. n
  <2>1. ts[k].dl \in Nat /\ ts[k].bytes \in Nat \ {0}
    BY <1>2 DEF Trozo
  <2> QED BY <2>1 DEF Corta, BytesDe
<1>4. n = 0 <=> t = 0
  BY <1>1 DEF Corta
<1>5. n > 0 => ts[1].dl = dl
  BY <1>1 DEF Corta
<1> HIDE DEF s, fin, n
<1>6. ASSUME Malos # {} PROVE FALSE
  <2>1. Malos \in SUBSET Nat
    BY <1>1
  <2>2. PICK k \in Malos : \A j \in Malos : k <= j
    <3> HIDE DEF Malos
    <3> QED BY <1>6, <2>1, HayPrimero
  <2>3. k \in 1 .. n /\ ts[k].dl # dl + (k - 1) * s
    OBVIOUS
  <2>4. CASE k = 1
    <3>1. (k - 1) * s = 0
      BY <1>1, <2>4
    <3> QED BY <1>1, <1>5, <2>3, <2>4, <3>1
  <2>5. CASE k # 1
    <3> DEFINE j == k - 1
    <3>1. j \in 1 .. n /\ j \notin Malos /\ j + 1 = k /\ j # n
      BY <1>1, <2>2, <2>3, <2>5
    <3>2. ts[j].dl = dl + (j - 1) * s
      BY <3>1
    <3> HIDE DEF j
    <3>3. ts[k].dl = ts[j].dl + ts[j].bytes
      BY <1>3, <3>1
    <3>4. ts[j].bytes = s
      <4>1. ts[k].dl < fin
        BY <1>1, <1>3, <2>3
      <4>2. ts[j].bytes = menor(s, fin - ts[j].dl) /\ ts[j].dl \in Nat
        BY <1>3, <3>1
      <4> QED BY <1>1, <3>3, <4>1, <4>2 DEF menor
    <3>5. (j - 1) * s + s = j * s
      BY <1>1, <3>1
    <3>6. j = k - 1
      BY DEF j
    <3>7. (j - 1) * s \in Int /\ j * s \in Int
      BY <1>1, <3>1
    <3> QED BY <1>1, <2>3, <3>2, <3>3, <3>4, <3>5, <3>6, <3>7
  <2> QED BY <2>4, <2>5
<1>7. CASE t = 0
  <2>1. obtener_cantidad_dirs(dl, t) = 0
    BY <1>7 DEF obtener_cantidad_dirs
  <2> QED BY <1>4, <1>7, <2>1 DEF n
<1>8. CASE t # 0
  <2> DEFINE r == (n - 1) * s
             b == menor(s, t)
  <2>1. n \in 1 .. n /\ n >= 1
    BY <1>1, <1>4, <1>8
  <2>2. ts[n].dl = dl + r /\ r \in Nat /\ n * s = r + s
    <3>1. ts[n].dl = dl + r
      BY <1>6, <2>1
    <3>2. r \in Nat
      <4>1. n - 1 \in Nat
        BY <2>1
      <4> QED BY <1>1, <4>1
    <3>3. n * s = r + s
      BY <1>1, <2>1
    <3> QED BY <3>1, <3>2, <3>3
  <2> HIDE DEF r
  <2>3. r < t /\ t <= r + s
    <3>1. ts[n].dl + ts[n].bytes = fin /\ ts[n].bytes \in Nat \ {0} /\ ts[n].bytes <= s
      BY <1>1, <1>3, <2>1 DEF menor
    <3> QED BY <1>1, <2>2, <3>1 DEF fin
  <2>4. obtener_cantidad_dirs(dl, t) = (t + b - 1) \div b
    BY <1>8 DEF obtener_cantidad_dirs, s
  <2>5. CASE s <= t
    <3>1. b = s
      BY <1>1, <2>5 DEF menor
    <3>2. t + s - 1 \in Nat /\ n * s <= t + s - 1 /\ t + s - 1 < n * s + s
      BY <1>1, <2>2, <2>3
    <3>3. (t + s - 1) \div s = n
      <4> DEFINE x == t + s - 1
      <4>1. x \in Nat /\ n * s <= x /\ x < n * s + s /\ s \in Nat /\ s > 0 /\ n \in Nat
        BY <1>1, <3>2
      <4> HIDE DEF x
      <4>2. x \div s = n
        BY <4>1, CocienteUnico
      <4> QED BY <4>2 DEF x
    <3> QED BY <2>4, <3>1, <3>3 DEF n
  <2>6. CASE t < s
    <3>1. b = t
      BY <1>1, <2>6 DEF menor
    <3>2. n = 1
      <4>1. CASE n > 1
        <5>1. n - 1 \in Nat /\ n - 1 >= 1
          BY <2>1, <4>1
        <5>2. (n - 1) * s >= s
          BY <1>1, <5>1
        <5> QED BY <1>1, <2>2, <2>3, <2>6, <5>2 DEF r
      <4> QED BY <1>1, <2>1, <4>1
    <3>3. (t + t - 1) \div t = 1
      <4> DEFINE x == t + t - 1
      <4>1. x \in Nat /\ 1 * t <= x /\ x < 1 * t + t /\ t > 0
        BY <1>8
      <4> HIDE DEF x
      <4>2. x \div t = 1
        BY <4>1, CocienteUnico
      <4> QED BY <4>2 DEF x
    <3> QED BY <2>4, <3>1, <3>2, <3>3 DEF n
  <2> QED BY <1>1, <2>5, <2>6
<1> QED BY <1>7, <1>8

-----------------------------------------------------------------------------
(* Registers.                                                              *)

Nombres == Chicos \cup Grandes \cup Indices
Contexto == [pc : Nat, registros : [Nombres -> Nat]]

(* What leer_reg gives of a context, or of the global pcb, is a natural.   *)
LEMMA LeerRegNat ==
  ASSUME NEW m, m.registros \in [Nombres -> Nat], NEW r
  PROVE  leer_reg(m, r) \in Nat
BY DEF leer_reg, get_reg_chico, get_reg_grande, get_reg, es_reg_chico, Nombres

(* Writing a register with a natural leaves a context.                     *)
LEMMA SetRegContexto ==
  ASSUME NEW m \in Contexto, NEW r \in Nombres, NEW v \in Nat
  PROVE  set_reg(m, r, v) \in Contexto
<1>1. m.pc \in Nat /\ m.registros \in [Nombres -> Nat]
  BY DEF Contexto
<1>2. set_reg(m, r, v) = [pc |-> m.pc, registros |-> [m.registros EXCEPT ![r] = v]]
  BY DEF Contexto, set_reg
<1> QED BY <1>1, <1>2 DEF Contexto

(* Writing the program counter leaves a context with that counter and the  *)
(* same registers.                                                         *)
LEMMA SetPcContexto ==
  ASSUME NEW m \in Contexto, NEW v \in Nat
  PROVE  /\ set_pc(m, v) \in Contexto
         /\ set_pc(m, v).pc = v
         /\ set_pc(m, v).registros = m.registros
BY DEF Contexto, set_pc

(* Writing a register leaves a context, whatever the name.                 *)
LEMMA EscribirRegContexto ==
  ASSUME NEW m \in Contexto, NEW r, NEW v \in Int
  PROVE  escribir_reg(m, r, v) \in Contexto
<1>1. v % CHICO \in Nat /\ v % GRANDE \in Nat
  BY RegistrosAssumption
<1>2. set_reg_chico(m, r, v) \in Contexto
  BY <1>1, SetRegContexto DEF set_reg_chico, Nombres
<1>3. CASE r = "PC"
  BY <1>1, <1>2, <1>3, SetPcContexto DEF set_reg_grande, escribir_reg, Grandes, Indices
<1>4. CASE r # "PC" /\ r \in Grandes \cup Indices
  BY <1>1, <1>2, <1>4, SetRegContexto DEF set_reg_grande, escribir_reg, Nombres
<1>5. CASE r # "PC" /\ r \notin Grandes \cup Indices
  BY <1>2, <1>5 DEF set_reg_grande, escribir_reg
<1> QED BY <1>3, <1>4, <1>5

(* An instruction on registers leaves a context.                           *)
LEMMA OperarContexto ==
  ASSUME NEW m \in Contexto, NEW i \in Instruccion, i.code \in DeRegistros
  PROVE  operar(m, i) \in Contexto
<1>1. i.n \in Nat /\ i.n % GRANDE \in Nat
  BY RegistrosAssumption DEF Instruccion
<1>2. leer_reg(m, i.r) \in Nat /\ leer_reg(m, i.s) \in Nat
  <2>1. m.registros \in [Nombres -> Nat]
    BY DEF Contexto
  <2> QED BY <2>1, LeerRegNat
<1>3. CASE i.code = "SET"
  BY <1>1, <1>3, EscribirRegContexto DEF operar, ejecutarSet
<1>4. CASE i.code = "SUM"
  BY <1>2, <1>4, EscribirRegContexto DEF operar, ejecutarSum
<1>5. CASE i.code = "SUB"
  BY <1>2, <1>5, EscribirRegContexto DEF operar, ejecutarSub
<1>6. CASE i.code = "JNZ"
  BY <1>1, <1>6, SetPcContexto DEF operar, ejecutarJnz
<1> QED BY <1>3, <1>4, <1>5, <1>6 DEF DeRegistros

(* The program counter goes on, and the registers stay. *)
LEMMA AvanzarContexto ==
  ASSUME NEW m \in Contexto
  PROVE  /\ avanzar(m) \in Contexto
         /\ avanzar(m).pc = (m.pc + 1) % GRANDE
         /\ avanzar(m).registros = m.registros
<1>1. (m.pc + 1) % GRANDE \in Nat
  BY RegistrosAssumption DEF Contexto
<1> QED BY <1>1, SetPcContexto DEF avanzar

(* The context after an instruction is a context, whether it advances or   *)
(* not.                                                                    *)
LEMMA SiguienteContexto ==
  ASSUME NEW m \in Contexto, NEW i
  PROVE  siguiente(m, i) \in Contexto
BY AvanzarContexto DEF siguiente

-----------------------------------------------------------------------------
(* The bytes of a number.                                                  *)

Bytes == 0 .. CHICO - 1

(* The value of any bytes is a natural. *)
LEMMA DeBytesNat ==
  ASSUME NEW b \in Seq(Bytes)
  PROVE  de_bytes(b) \in Nat
<1> DEFINE n == Len(b)
           ant == [k \in 1 .. n |-> k - 1]
           g == [k \in 1 .. n |-> [x \in Nat |-> b[n + 1 - k] + CHICO * x]]
           Es(f) == f = [k \in 0 .. n |-> IF k = 0 THEN 0
                                          ELSE b[Len(b) + 1 - k] + CHICO * f[k - 1]]
<1>1. n \in Nat /\ CHICO \in Nat /\ \A k \in 1 .. n : b[n + 1 - k] \in Nat
  <2>1. n \in Nat
    BY LenProperties
  <2>2. \A j \in 1 .. n : b[j] \in Bytes
    BY ElementOfSeq
  <2> HIDE DEF n
  <2>3. ASSUME NEW k \in 1 .. n PROVE b[n + 1 - k] \in Nat
    <3>1. n + 1 - k \in 1 .. n
      BY <2>1
    <3> QED BY <2>2, <3>1 DEF Bytes
  <2> QED BY <2>1, <2>3, RegistrosAssumption
<1>2. Pasos(n, Nat, 0, ant, g)
  <2> HIDE DEF n
  <2> QED BY <1>1 DEF Pasos
<1>3. PICK f : Recursiva(f, n, Nat, 0, ant, g)
  <2> HIDE DEF n, ant, g
  <2> QED BY <1>2, HayRecursiva
<1>4. Es(f)
  <2> HIDE DEF n
  <2>1. f \in [0 .. n -> Nat] /\ f[0] = 0
    BY <1>3 DEF Recursiva
  <2>2. ASSUME NEW k \in 1 .. n
        PROVE  f[k] = b[n + 1 - k] + CHICO * f[k - 1]
    <3>1. f[k] = g[k][f[ant[k]]] /\ ant[k] = k - 1
      BY <1>3 DEF Recursiva
    <3>2. f[k - 1] \in Nat
      BY <1>1, <2>1
    <3> QED BY <3>1, <3>2
  <2> QED BY <1>1, <2>1, <2>2 DEF n
<1> DEFINE altos == CHOOSE d : Es(d)
<1>5. Es(altos)
  <2> HIDE DEF Es
  <2> QED BY <1>4
<1>6. de_bytes(b) = altos[n]
  BY DEF de_bytes
<1> HIDE DEF altos
<1> DEFINE Malos == {k \in 0 .. n : altos[k] \notin Nat}
<1>7. ASSUME Malos # {} PROVE FALSE
  <2>4. Malos \in SUBSET Nat
    BY <1>1
  <2>1. PICK k \in Malos : \A j \in Malos : k <= j
    <3> HIDE DEF Malos
    <3> QED BY <1>7, <2>4, HayPrimero
  <2>2. k # 0
    BY <1>5
  <2>3. k - 1 \in 0 .. n /\ altos[k - 1] \in Nat
    BY <1>1, <2>1, <2>2
  <2>5. altos[k] = b[n + 1 - k] + CHICO * altos[k - 1]
    BY <1>5, <2>2
  <2> HIDE DEF n
  <2>6. k \in 1 .. n
    BY <1>1, <2>2
  <2>7. CHICO * altos[k - 1] \in Nat
    BY <1>1, <2>3
  <2> QED BY <1>1, <2>5, <2>6, <2>7
<1> HIDE DEF n
<1> QED BY <1>1, <1>6, <1>7

(* A value of n bytes has n bytes. *)
LEMMA ABytesSeq ==
  ASSUME NEW v \in Nat, NEW n \in Nat
  PROVE  a_bytes(v, n) \in Seq(Bytes) /\ Len(a_bytes(v, n)) = n
<1> DEFINE ant == [k \in 1 .. n |-> k - 1]
           g == [k \in 1 .. n |-> [x \in Nat |-> IF k = 1 THEN v ELSE x \div CHICO]]
           Es(f) == f = [k \in 1 .. n |-> IF k = 1 THEN v ELSE f[k - 1] \div CHICO]
<1>1. Pasos(n, Nat, v, ant, g)
  <2>1. \A x \in Nat : x \div CHICO \in Nat
    BY RegistrosAssumption
  <2> QED BY <2>1 DEF Pasos
<1>2. PICK h : Recursiva(h, n, Nat, v, ant, g)
  <2> HIDE DEF ant, g
  <2> QED BY <1>1, HayRecursiva
<1> DEFINE f == [k \in 1 .. n |-> h[k]]
<1>3. Es(f)
  <2>1. h \in [0 .. n -> Nat]
    BY <1>2 DEF Recursiva
  <2>2. ASSUME NEW k \in 1 .. n
        PROVE  f[k] = IF k = 1 THEN v ELSE f[k - 1] \div CHICO
    <3>1. h[k] = g[k][h[ant[k]]] /\ ant[k] = k - 1
      BY <1>2 DEF Recursiva
    <3>2. h[k - 1] \in Nat
      BY <2>1
    <3>3. k # 1 => k - 1 \in 1 .. n
      OBVIOUS
    <3> QED BY <3>1, <3>2, <3>3
  <2> QED BY <2>2
<1> DEFINE queda == CHOOSE d : Es(d)
<1>4. Es(queda)
  <2> HIDE DEF Es, f
  <2> QED BY <1>3
<1>5. a_bytes(v, n) = [k \in 1 .. n |-> queda[k] % CHICO]
  BY DEF a_bytes
<1> HIDE DEF queda
<1> DEFINE Malos == {k \in 1 .. n : queda[k] \notin Nat}
<1>6. ASSUME Malos # {} PROVE FALSE
  <2>4. Malos \in SUBSET Nat
    OBVIOUS
  <2>1. PICK k \in Malos : \A j \in Malos : k <= j
    <3> HIDE DEF Malos
    <3> QED BY <1>6, <2>4, HayPrimero
  <2>2. k # 1
    BY <1>4
  <2>3. k - 1 \in 1 .. n /\ queda[k - 1] \in Nat
    BY <2>1, <2>2
  <2>5. queda[k] = queda[k - 1] \div CHICO
    BY <1>4, <2>2
  <2> QED BY <2>3, <2>5, RegistrosAssumption
<1>7. \A k \in 1 .. n : queda[k] % CHICO \in Bytes
  BY <1>6, RegistrosAssumption DEF Bytes
<1> QED BY <1>5, <1>7

-----------------------------------------------------------------------------
(* Pieces that a frame can hold.                                           *)

EnPagina(t) == offset(t.dl) + t.bytes <= tamanio_pagina

(* ts covers the addresses from a to fin - 1 in order, without crossing a  *)
(* page.                                                                   *)
Cubre(ts, a, fin) ==
  /\ ts \in Seq(Trozo)
  /\ ts = <<>> <=> a = fin
  /\ ts # <<>> => ts[1].dl = a
  /\ \A k \in 1 .. Len(ts) :
       /\ a <= ts[k].dl
       /\ ts[k].dl + ts[k].bytes <= fin
       /\ ts[k].dl + ts[k].bytes = IF k = Len(ts) THEN fin ELSE ts[k + 1].dl
       /\ EnPagina(ts[k])

(* The page of an address, from its place in the page. *)
LEMMA PaginaDe ==
  ASSUME NEW q \in Nat, NEW o \in 0 .. tamanio_pagina - 1
  PROVE  LET x == q * tamanio_pagina + o
         IN  x \in Nat /\ obtener_pagina(x) = q /\ offset(x) = o
<1> DEFINE x == q * tamanio_pagina + o
<1>1. tamanio_pagina \in Nat /\ tamanio_pagina > 0
  BY FragmentosAssumption
<1>2. q * tamanio_pagina \in Nat
  BY <1>1
<1>3. /\ x \in Nat /\ q * tamanio_pagina <= x /\ x < q * tamanio_pagina + tamanio_pagina
      /\ x - q * tamanio_pagina = o
  BY <1>1, <1>2
<1> HIDE DEF x
<1>4. x \div tamanio_pagina = q
  BY <1>1, <1>3, CocienteUnico
<1>5. obtener_pagina(x) = q /\ offset(x) = o
  BY <1>3, <1>4 DEF obtener_pagina, offset, obtener_offset
<1> QED BY <1>3, <1>5 DEF x

(* The loops of COPY_STRING take the offset back to 0: none of their       *)
(* pieces crosses a page.                                                  *)
LEMMA CopyStringCubre ==
  ASSUME NEW dl \in Nat, NEW t \in Nat
  PROVE  Cubre(copy_string(dl, t), dl, dl + t)
<1> DEFINE ts == copy_string(dl, t)
           fin == dl + t
           o == offset(dl)
           n == Len(ts)
           Malos == {k \in 1 .. n : ~(k > 1 => offset(ts[k].dl) = 0 /\ dl < ts[k].dl)}
<1>1. o \in 0 .. tamanio_pagina - 1 /\ 0 \in 0 .. tamanio_pagina - 1 /\ fin \in Nat
  BY OffsetDe, FragmentosAssumption
<1>2. Corta(ts, dl, dl, fin, o, 0)
  <2> HIDE DEF o
  <2>1. Corta(trozos(dl, o, 0, t), dl, dl, dl + t, o, 0)
    BY <1>1, TrozosCortan
  <2> QED BY <2>1 DEF copy_string, o
<1> HIDE DEF ts, o, fin
<1>3. n \in Nat /\ \A k \in 1 .. n : ts[k] \in Trozo
  BY <1>2, LenProperties, ElementOfSeq DEF Corta
<1>4. \A k \in 1 .. n :
        /\ ts[k].dl \in Nat /\ ts[k].bytes \in Nat \ {0}
        /\ ts[k].dl + ts[k].bytes <= fin
        /\ ts[k].bytes = menor(tamanio_pagina - (IF ts[k].dl = dl THEN o ELSE 0), fin - ts[k].dl)
        /\ ts[k].dl + ts[k].bytes = IF k = n THEN fin ELSE ts[k + 1].dl
  <2> TAKE k \in 1 .. n
  <2>1. ts[k].dl \in Nat /\ ts[k].bytes \in Nat \ {0}
    BY <1>3 DEF Trozo
  <2> QED BY <1>2, <2>1 DEF Corta, BytesDe
<1>5. n > 0 => ts[1].dl = dl
  BY <1>2, <1>3 DEF Corta
<1> HIDE DEF n
<1>6. ASSUME Malos # {} PROVE FALSE
  <2>1. Malos \in SUBSET Nat
    BY <1>3
  <2>2. PICK k \in Malos : \A j \in Malos : k <= j
    <3> HIDE DEF Malos
    <3> QED BY <1>6, <2>1, HayPrimero
  <2>3. k \in 1 .. n /\ k > 1 /\ ~(offset(ts[k].dl) = 0 /\ dl < ts[k].dl)
    BY <1>3
  <2> DEFINE j == k - 1
             x == ts[j].dl
  <2>4. j \in 1 .. n /\ j \notin Malos /\ j + 1 = k /\ j # n
    BY <1>3, <2>2, <2>3
  <2>5. ts[k].dl = x + ts[j].bytes /\ x \in Nat /\ ts[j].bytes \in Nat \ {0}
    BY <1>4, <2>4
  <2>6. (IF x = dl THEN o ELSE 0) = offset(x) /\ dl <= x
    <3>1. CASE j = 1
      BY <1>3, <1>5, <2>4, <3>1 DEF o
    <3>2. CASE j # 1
      BY <1>3, <2>4, <2>5, <3>2
    <3> QED BY <3>1, <3>2
  <2>7. ts[j].bytes = menor(tamanio_pagina - offset(x), fin - x)
    BY <1>4, <2>4, <2>6
  <2>8. ts[k].dl < fin
    <3>1. ts[k].dl \in Nat /\ ts[k].bytes \in Nat \ {0} /\ ts[k].dl + ts[k].bytes <= fin
      BY <1>4, <2>3
    <3> QED BY <1>1, <3>1
  <2> HIDE DEF x, j
  <2>9. ts[j].bytes = tamanio_pagina - offset(x) /\ offset(x) \in 0 .. tamanio_pagina - 1
    <3>1. offset(x) \in 0 .. tamanio_pagina - 1
      BY <2>5, OffsetDe
    <3> QED BY <1>1, <2>5, <2>7, <2>8, <3>1, FragmentosAssumption DEF menor
  <2>10. ts[k].dl = (obtener_pagina(x) + 1) * tamanio_pagina + 0 /\ obtener_pagina(x) + 1 \in Nat
    <3>1. x = obtener_pagina(x) * tamanio_pagina + offset(x) /\ obtener_pagina(x) \in Nat
      BY <2>5, OffsetDe
    <3>2. (obtener_pagina(x) + 1) * tamanio_pagina
            = obtener_pagina(x) * tamanio_pagina + tamanio_pagina
      BY <3>1, FragmentosAssumption
    <3>3. obtener_pagina(x) * tamanio_pagina \in Nat
      BY <3>1, FragmentosAssumption
    <3> QED BY <2>5, <2>9, <3>1, <3>2, <3>3, FragmentosAssumption
  <2>11. offset(ts[k].dl) = 0
    BY <1>1, <2>10, PaginaDe
  <2> QED BY <2>3, <2>5, <2>6, <2>11
<1>7. ASSUME NEW k \in 1 .. n
      PROVE  EnPagina(ts[k])
  <2> DEFINE x == ts[k].dl
  <2>1. (IF x = dl THEN o ELSE 0) = offset(x)
    <3>1. CASE k = 1
      BY <1>3, <1>5, <3>1 DEF o
    <3>2. CASE k # 1
      BY <1>3, <1>4, <1>6, <3>2
    <3> QED BY <3>1, <3>2
  <2>2. x \in Nat /\ ts[k].bytes = menor(tamanio_pagina - offset(x), fin - x)
    BY <1>4, <2>1
  <2>3. offset(x) \in 0 .. tamanio_pagina - 1
    BY <2>2, OffsetDe
  <2> HIDE DEF x
  <2>4. offset(x) + ts[k].bytes <= tamanio_pagina
    BY <1>1, <2>2, <2>3, FragmentosAssumption DEF menor
  <2> QED BY <2>4 DEF EnPagina, x
<1>8. Cubre(ts, dl, fin)
  BY <1>2, <1>7 DEF Corta, Cubre, n
<1> QED BY <1>8 DEF ts, fin

(* Nor does a register, which fits in a page, cross more than one. *)
LEMMA MoverRegistroCubre ==
  ASSUME NEW dl \in Nat, NEW t \in Nat \ {0}, t <= tamanio_pagina
  PROVE  Cubre(mover_registro(dl, t), dl, dl + t)
<1> DEFINE b == tamanio_pagina - offset(dl)
<1>1. /\ offset(dl) \in 0 .. tamanio_pagina - 1 /\ obtener_pagina(dl) \in Nat
      /\ dl = obtener_pagina(dl) * tamanio_pagina + offset(dl)
      /\ obtener_pagina(dl) * tamanio_pagina \in Nat
      /\ tamanio_pagina \in Nat
  BY OffsetDe, FragmentosAssumption
<1>2. CASE t = 1 \/ offset(dl) = 0 \/ t <= b
  <2> DEFINE u == [dl |-> dl, bytes |-> t]
  <2>1. u \in Trozo /\ EnPagina(u) /\ u.dl = dl /\ u.bytes = t
    BY <1>1, <1>2 DEF Trozo, EnPagina
  <2>2. mover_registro(dl, t) = <<u>>
    BY <1>2 DEF mover_registro
  <2> HIDE DEF u
  <2>3. <<u>> \in Seq(Trozo) /\ Len(<<u>>) = 1 /\ <<u>>[1] = u /\ <<u>> # <<>>
    BY <2>1
  <2>4. \A k \in 1 .. 1 : k = 1
    OBVIOUS
  <2> QED BY <2>1, <2>2, <2>3, <2>4 DEF Cubre
<1>3. CASE ~(t = 1 \/ offset(dl) = 0 \/ t <= b)
  <2> DEFINE u == [dl |-> dl, bytes |-> b]
             v == [dl |-> dl + b, bytes |-> t - b]
  <2>1. u \in Trozo /\ EnPagina(u) /\ u.dl = dl /\ u.bytes = b
    BY <1>1, <1>3 DEF Trozo, EnPagina
  <2>2. offset(dl + b) = 0
    <3>1. (obtener_pagina(dl) + 1) * tamanio_pagina
            = obtener_pagina(dl) * tamanio_pagina + tamanio_pagina
      BY <1>1
    <3>2. dl + b = (obtener_pagina(dl) + 1) * tamanio_pagina + 0
      BY <1>1, <3>1
    <3>3. obtener_pagina(dl) + 1 \in Nat /\ 0 \in 0 .. tamanio_pagina - 1
      BY <1>1, FragmentosAssumption
    <3> HIDE DEF b
    <3> QED BY <3>2, <3>3, PaginaDe
  <2>3. v \in Trozo /\ v.dl = dl + b /\ v.bytes = t - b
    BY <1>1, <1>3 DEF Trozo
  <2>4. EnPagina(v)
    BY <1>1, <1>3, <2>2 DEF EnPagina
  <2>5. mover_registro(dl, t) = <<u, v>>
    BY <1>3 DEF mover_registro
  <2> HIDE DEF u, v
  <2>6. <<u, v>> \in Seq(Trozo) /\ Len(<<u, v>>) = 2 /\ <<u, v>>[1] = u /\ <<u, v>>[2] = v
        /\ <<u, v>> # <<>>
    BY <2>1, <2>3
  <2>7. \A k \in 1 .. 2 : k = 1 \/ k = 2
    OBVIOUS
  <2>8. b \in Nat /\ b < t
    BY <1>1, <1>3
  <2> HIDE DEF b
  <2> QED BY <2>1, <2>3, <2>4, <2>5, <2>6, <2>7, <2>8 DEF Cubre
<1> QED BY <1>2, <1>3

-----------------------------------------------------------------------------
(* The memory.                                                             *)

Espacio == [0 .. TAM_MEMORIA - 1 -> Bytes]

(* The size of a process is that of its pages, which are as many for all.  *)
LEMMA TamProcesoDe ==
  ASSUME NEW p \in Procesos
  PROVE  /\ Len(tabla_paginas[p]) \in Nat
         /\ DOMAIN tabla_paginas[p] = 1 .. Len(tabla_paginas[p])
         /\ TamProceso = Len(tabla_paginas[p]) * tamanio_pagina
         /\ TamProceso \in Nat
<1> DEFINE q == CHOOSE r \in Procesos : TRUE
<1>1. q \in Procesos
  OBVIOUS
<1>2. TamProceso = tamanio_pagina * Len(tabla_paginas[q])
  BY DEF TamProceso
<1> HIDE DEF q
<1>3. tabla_paginas[p] \in Seq(Nat)
  BY CicloCPUAssumption
<1>4. Len(tabla_paginas[p]) \in Nat /\ DOMAIN tabla_paginas[p] = 1 .. Len(tabla_paginas[p])
  BY <1>3, LenProperties
<1>5. Len(tabla_paginas[q]) = Len(tabla_paginas[p])
  BY <1>1, CicloCPUAssumption
<1>6. tamanio_pagina \in Nat
  BY FragmentosAssumption
<1>7. TamProceso = Len(tabla_paginas[p]) * tamanio_pagina
  BY <1>2, <1>4, <1>5, <1>6
<1>8. Len(tabla_paginas[p]) * tamanio_pagina \in Nat
  BY <1>4, <1>6
<1> QED BY <1>4, <1>7, <1>8

(* An address of a process is in one of its pages, and its frame in the    *)
(* memory.                                                                 *)
LEMMA DireccionDe ==
  ASSUME NEW p \in Procesos, NEW x \in 0 .. TamProceso - 1
  PROVE  LET i == obtener_pagina(x) + 1
             df == obtener_df(p, x)
         IN  /\ i \in DOMAIN tabla_paginas[p]
             /\ tabla_paginas[p][i] \in Nat
             /\ df = tabla_paginas[p][i] * tamanio_pagina + offset(x)
             /\ df \in 0 .. TAM_MEMORIA - 1
             /\ obtener_pagina(df) = tabla_paginas[p][i] /\ offset(df) = offset(x)
<1> DEFINE i == obtener_pagina(x) + 1
           df == obtener_df(p, x)
           n == Len(tabla_paginas[p])
           s == tamanio_pagina
<1>1. n \in Nat /\ DOMAIN tabla_paginas[p] = 1 .. n /\ TamProceso = n * s /\ TamProceso \in Nat
  BY TamProcesoDe
<1>2. x \in Nat /\ x < n * s /\ s \in Nat /\ s > 0
  BY <1>1, FragmentosAssumption
<1>3. i - 1 \in Nat /\ offset(x) \in 0 .. s - 1 /\ x = (i - 1) * s + offset(x)
  <2>1. /\ obtener_pagina(x) \in Nat /\ offset(x) \in 0 .. s - 1
        /\ x = obtener_pagina(x) * s + offset(x)
    BY <1>2, OffsetDe
  <2>2. i - 1 = obtener_pagina(x)
    BY <2>1
  <2> HIDE DEF i
  <2> QED BY <2>1, <2>2
<1> HIDE DEF n
<1>4. i - 1 < n
  <2>1. CASE n <= i - 1
    <3> DEFINE j == i - 1
    <3>1. j \in Nat /\ n <= j
      BY <1>3, <2>1
    <3> HIDE DEF j
    <3>2. n * s <= j * s
      BY <1>1, <1>2, <3>1
    <3>3. j * s <= x
      <4>1. j * s \in Nat
        BY <1>2, <3>1
      <4> QED BY <1>2, <1>3, <4>1 DEF j
    <3>4. n * s \in Nat /\ j * s \in Nat
      BY <1>1, <1>2, <3>1
    <3> QED BY <1>2, <3>2, <3>3, <3>4
  <2> HIDE DEF i
  <2>2. i \in Int
    BY <1>2, OffsetDe DEF i
  <2> QED BY <1>1, <1>3, <2>1, <2>2
<1>5. i \in DOMAIN tabla_paginas[p]
  <2>1. i \in Int
    BY <1>2, OffsetDe
  <2> HIDE DEF i
  <2> QED BY <1>1, <1>3, <1>4, <2>1
<1>6. tabla_paginas[p][i] \in Nat /\ (tabla_paginas[p][i] + 1) * s <= TAM_MEMORIA
  <2>1. tabla_paginas[p] \in Seq(Nat)
    BY CicloCPUAssumption
  <2> HIDE DEF i
  <2>2. tabla_paginas[p][i] \in Nat
    BY <1>1, <1>5, <2>1, ElementOfSeq
  <2> QED BY <1>5, <2>2, CicloCPUAssumption
<1>7. df = tabla_paginas[p][i] * s + offset(x)
  BY DEF obtener_df, offset
<1> DEFINE m == tabla_paginas[p][i]
<1>8. (m + 1) * s = m * s + s /\ m * s \in Nat
  <2>1. m \in Nat
    BY <1>6
  <2> HIDE DEF m
  <2> QED BY <1>2, <2>1
<1>9. df \in 0 .. TAM_MEMORIA - 1
  <2>1. df = m * s + offset(x) /\ (m + 1) * s <= TAM_MEMORIA
    BY <1>6, <1>7
  <2>2. TAM_MEMORIA \in Nat
    BY CicloCPUAssumption
  <2> HIDE DEF i, df, m
  <2> QED BY <1>2, <1>3, <1>8, <2>1, <2>2
<1>10. obtener_pagina(df) = m /\ offset(df) = offset(x)
  <2> HIDE DEF i, df
  <2> QED BY <1>3, <1>6, <1>7, PaginaDe
<1> HIDE DEF df
<1> QED BY <1>5, <1>6, <1>7, <1>9, <1>10 DEF df

(* No two addresses, of a process or of two, are the same byte.            *)
LEMMA DireccionUnica ==
  ASSUME NEW p \in Procesos, NEW q \in Procesos,
         NEW x \in 0 .. TamProceso - 1, NEW y \in 0 .. TamProceso - 1,
         obtener_df(p, x) = obtener_df(q, y)
  PROVE  p = q /\ x = y
<1> DEFINE i == obtener_pagina(x) + 1
           j == obtener_pagina(y) + 1
<1>1. /\ i \in DOMAIN tabla_paginas[p] /\ j \in DOMAIN tabla_paginas[q]
      /\ tabla_paginas[p][i] = tabla_paginas[q][j]
      /\ offset(x) = offset(y)
  BY DireccionDe
<1>2. p = q /\ i = j
  <2> HIDE DEF i, j
  <2> QED BY <1>1, CicloCPUAssumption
<1>3. TamProceso \in Nat
  BY TamProcesoDe
<1>4. /\ x = obtener_pagina(x) * tamanio_pagina + offset(x)
      /\ y = obtener_pagina(y) * tamanio_pagina + offset(y)
      /\ obtener_pagina(x) \in Nat /\ obtener_pagina(y) \in Nat
  BY <1>3, OffsetDe
<1> QED BY <1>1, <1>2, <1>4

(* Consecutive addresses of a page are consecutive in the memory.          *)
LEMMA EnLaPagina ==
  ASSUME NEW p \in Procesos, NEW x \in 0 .. TamProceso - 1, NEW k \in Nat,
         offset(x) + k < tamanio_pagina
  PROVE  obtener_df(p, x + k) = obtener_df(p, x) + k
<1>0. x \in Nat /\ tabla_paginas[p][obtener_pagina(x) + 1] \in Nat
  BY TamProcesoDe, DireccionDe
<1>1. /\ obtener_pagina(x) \in Nat /\ offset(x) \in 0 .. tamanio_pagina - 1
      /\ x = obtener_pagina(x) * tamanio_pagina + offset(x)
      /\ tamanio_pagina \in Nat
  BY <1>0, OffsetDe, FragmentosAssumption
<1> DEFINE q == obtener_pagina(x)
           m == tabla_paginas[p][q + 1]
           o == offset(x)
<1>2. o + k \in 0 .. tamanio_pagina - 1 /\ q * tamanio_pagina \in Nat
  BY <1>1
<1>3. x + k = q * tamanio_pagina + (o + k)
  BY <1>1, <1>2
<1>4. obtener_pagina(x + k) = q /\ offset(x + k) = o + k
  <2> HIDE DEF q, o
  <2>1. q \in Nat
    BY <1>1 DEF q
  <2> QED BY <1>2, <1>3, <2>1, PaginaDe
<1>5. m * tamanio_pagina \in Nat
  <2>1. m \in Nat
    BY <1>0
  <2> HIDE DEF m
  <2> QED BY <1>1, <2>1
<1>6. m * tamanio_pagina + (o + k) = (m * tamanio_pagina + o) + k
  <2> HIDE DEF m, o
  <2> QED BY <1>1, <1>2, <1>5 DEF o
<1> QED BY <1>4, <1>6 DEF obtener_df, offset

(* A piece of what ts covers, and where the one before it ends. *)
LEMMA PiezaDe ==
  ASSUME NEW ts, NEW a \in Nat, NEW fin \in Nat, Cubre(ts, a, fin), NEW k \in 1 .. Len(ts)
  PROVE  /\ Len(ts) \in Nat
         /\ ts[k].dl \in Nat /\ ts[k].bytes \in Nat \ {0}
         /\ a <= ts[k].dl /\ ts[k].dl + ts[k].bytes <= fin
         /\ EnPagina(ts[k])
         /\ k = Len(ts) => ts[k].dl + ts[k].bytes = fin
         /\ ts[k].dl = IF k = 1 THEN a ELSE ts[k - 1].dl + ts[k - 1].bytes
<1>1. ts \in Seq(Trozo) /\ Len(ts) \in Nat
  BY LenProperties DEF Cubre
<1>2. ts[k] \in Trozo
  BY <1>1, ElementOfSeq
<1>3. ts[k].dl \in Nat /\ ts[k].bytes \in Nat \ {0}
  BY <1>2 DEF Trozo
<1>4. ts # <<>>
  BY <1>1
<1>5. CASE k = 1
  BY <1>1, <1>3, <1>4, <1>5 DEF Cubre
<1>6. CASE k # 1
  <2>1. k - 1 \in 1 .. Len(ts) /\ k - 1 # Len(ts) /\ (k - 1) + 1 = k
    BY <1>1, <1>6
  <2>2. ts[k - 1].dl + ts[k - 1].bytes = ts[k].dl
    BY <2>1 DEF Cubre
  <2> QED BY <1>1, <1>3, <1>6, <2>2 DEF Cubre
<1> QED BY <1>5, <1>6

(* The bytes of a piece are together in the memory. *)
LEMMA PiezaEnMemoria ==
  ASSUME NEW p \in Procesos, NEW ts, NEW a \in Nat, NEW fin \in Nat, Cubre(ts, a, fin),
         fin <= TamProceso, NEW k \in 1 .. Len(ts), NEW j \in 0 .. ts[k].bytes - 1
  PROVE  /\ ts[k].dl + j \in 0 .. TamProceso - 1
         /\ obtener_df(p, ts[k].dl + j) = obtener_df(p, ts[k].dl) + j
<1>1. /\ ts[k].dl \in Nat /\ ts[k].bytes \in Nat \ {0}
      /\ ts[k].dl + ts[k].bytes <= fin
      /\ offset(ts[k].dl) + ts[k].bytes <= tamanio_pagina
  BY PiezaDe DEF EnPagina
<1>2. TamProceso \in Nat /\ offset(ts[k].dl) \in 0 .. tamanio_pagina - 1
  BY <1>1, TamProcesoDe, OffsetDe
<1> DEFINE x == ts[k].dl
           b == ts[k].bytes
<1>3. /\ x \in Nat /\ b \in Nat \ {0} /\ x + b <= fin /\ offset(x) + b <= tamanio_pagina
      /\ offset(x) \in 0 .. tamanio_pagina - 1 /\ j \in 0 .. b - 1
  BY <1>1, <1>2
<1> HIDE DEF x, b
<1>4. /\ x \in 0 .. TamProceso - 1 /\ x + j \in 0 .. TamProceso - 1
      /\ j \in Nat /\ offset(x) + j < tamanio_pagina
  <2>1. j \in Nat /\ j < b /\ x + j < fin
    BY <1>3
  <2>2. x \in 0 .. TamProceso - 1 /\ x + j \in 0 .. TamProceso - 1
    BY <1>2, <1>3, <2>1
  <2>3. offset(x) + j < tamanio_pagina
    BY <1>3, <2>1, FragmentosAssumption
  <2> QED BY <2>1, <2>2, <2>3
<1> QED BY <1>4, EnLaPagina DEF x

(* The m bytes of p from the address a. *)
Lectura(p, a, m) == [k \in 1 .. m |-> espacio[obtener_df(p, a + k - 1)]]

(* What is read inside the process is m bytes of its memory.               *)
LEMMA LecturaSeq ==
  ASSUME espacio \in Espacio, NEW p \in Procesos, NEW a \in Nat, NEW m \in Nat,
         m > 0 => a + m <= TamProceso
  PROVE  Lectura(p, a, m) \in Seq(Bytes) /\ Len(Lectura(p, a, m)) = m
<1>1. TamProceso \in Nat
  BY TamProcesoDe
<1>2. ASSUME NEW k \in 1 .. m
      PROVE  espacio[obtener_df(p, a + k - 1)] \in Bytes
  <2>1. a + k - 1 \in 0 .. TamProceso - 1
    BY <1>1
  <2>2. obtener_df(p, a + k - 1) \in 0 .. TAM_MEMORIA - 1
    BY <2>1, DireccionDe
  <2> QED BY <2>2 DEF Espacio
<1> QED BY <1>2 DEF Lectura

(* What mmu_leer reads, by pieces that do not cross a page, is what the    *)
(* process has from a to fin - 1.                                          *)
LEMMA MmuLeer ==
  ASSUME espacio \in Espacio, NEW p \in Procesos,
         NEW ts, NEW a \in Nat, NEW fin \in Nat, Cubre(ts, a, fin),
         a < fin => fin <= TamProceso
  PROVE  mmu_leer(p, ts) = Lectura(p, a, fin - a)
<1> DEFINE n == Len(ts)
           hasta(k) == IF k = 0 THEN a ELSE ts[k].dl + ts[k].bytes
           f == [k \in 0 .. n |-> Lectura(p, a, hasta(k) - a)]
           Es(d) == d = [k \in 0 .. n |->
                           IF k = 0 THEN <<>>
                           ELSE d[k - 1] \o leer(obtener_df(p, ts[k].dl), ts[k].bytes)]
<1>1. n \in Nat /\ ts \in Seq(Trozo)
  BY LenProperties DEF Cubre
<1>2. ASSUME NEW k \in 1 .. n
      PROVE  Lectura(p, a, hasta(k) - a)
               = Lectura(p, a, hasta(k - 1) - a) \o leer(obtener_df(p, ts[k].dl), ts[k].bytes)
  <2> DEFINE x == ts[k].dl
             b == ts[k].bytes
             antes == Lectura(p, a, x - a)
             pieza == leer(obtener_df(p, x), b)
             todo == Lectura(p, a, x + b - a)
  <2>1. /\ x \in Nat /\ b \in Nat \ {0} /\ a <= x /\ x + b <= fin
        /\ x = hasta(k - 1) /\ hasta(k) = x + b
    <3>1. /\ x \in Nat /\ b \in Nat \ {0} /\ a <= x /\ x + b <= fin
          /\ x = IF k = 1 THEN a ELSE ts[k - 1].dl + ts[k - 1].bytes
      BY PiezaDe
    <3>2. k - 1 = 0 <=> k = 1
      BY <1>1
    <3> QED BY <3>1, <3>2
  <2>2. \A j \in 0 .. b - 1 : obtener_df(p, x + j) = obtener_df(p, x) + j
    <3>1. fin <= TamProceso
      BY <2>1
    <3> QED BY <3>1, PiezaEnMemoria
  <2> HIDE DEF x, b, hasta, n
  <2>3. TamProceso \in Nat /\ fin <= TamProceso
    BY <2>1, TamProcesoDe
  <2>4. /\ antes \in Seq(Bytes) /\ Len(antes) = x - a
        /\ todo \in Seq(Bytes) /\ Len(todo) = x + b - a
    <3>1. x - a \in Nat /\ x + b - a \in Nat
      BY <2>1
    <3>2. a + (x - a) <= TamProceso /\ a + (x + b - a) <= TamProceso
      BY <2>1, <2>3
    <3> QED BY <3>1, <3>2, LecturaSeq
  <2>5. ASSUME NEW j \in 1 .. b
        PROVE  pieza[j] = todo[x - a + j]
    <3>1. j - 1 \in 0 .. b - 1 /\ x - a + j \in 1 .. x + b - a
      BY <2>1
    <3>2. obtener_df(p, x + (j - 1)) = obtener_df(p, x) + (j - 1)
      BY <2>2, <3>1
    <3>3. a + (x - a + j) - 1 = x + (j - 1)
      BY <2>1
    <3>4. todo[x - a + j] = espacio[obtener_df(p, x + (j - 1))]
      BY <3>1, <3>3 DEF Lectura
    <3>5. pieza[j] = espacio[obtener_df(p, x) + j - 1]
      BY DEF leer
    <3>6. obtener_df(p, x) \in Nat
      BY <2>1, <2>3, DireccionDe, CicloCPUAssumption
    <3>7. obtener_df(p, x) + j - 1 = obtener_df(p, x) + (j - 1)
      BY <3>6
    <3> QED BY <3>2, <3>4, <3>5, <3>7
  <2>6. pieza \in Seq(Bytes) /\ Len(pieza) = b
    <3>1. \A j \in 1 .. b : pieza[j] \in Bytes
      <4> HIDE DEF todo, pieza
      <4>1. \A j \in 1 .. b : x - a + j \in 1 .. x + b - a
        BY <2>1
      <4>2. Len(todo) = x + b - a
        BY <2>4
      <4> QED BY <2>4, <2>5, <4>1, <4>2, ElementOfSeq
    <3>2. pieza = [j \in 1 .. b |-> espacio[obtener_df(p, x) + j - 1]]
      BY DEF leer
    <3> HIDE DEF pieza
    <3> QED BY <2>1, <3>1, <3>2
  <2>7. ASSUME NEW j \in 1 .. x - a
        PROVE  antes[j] = todo[j]
    BY <2>1 DEF Lectura
  <2> HIDE DEF antes, pieza, todo
  <2>8. antes \o pieza = todo
    <3>1. /\ antes \o pieza \in Seq(Bytes) /\ Len(antes \o pieza) = x + b - a
          /\ \A j \in 1 .. x + b - a :
               (antes \o pieza)[j] = IF j <= x - a THEN antes[j] ELSE pieza[j - (x - a)]
      <4>1. /\ antes \o pieza \in Seq(Bytes) /\ Len(antes \o pieza) = Len(antes) + Len(pieza)
            /\ \A j \in 1 .. Len(antes) + Len(pieza) :
                 (antes \o pieza)[j] =
                    IF j <= Len(antes) THEN antes[j] ELSE pieza[j - Len(antes)]
        BY <2>4, <2>6, ConcatProperties
      <4>2. Len(antes) + Len(pieza) = x + b - a
        BY <2>1, <2>4, <2>6
      <4> QED BY <2>4, <4>1, <4>2
    <3>2. ASSUME NEW j \in 1 .. x + b - a
          PROVE  (antes \o pieza)[j] = todo[j]
      <4>1. CASE j <= x - a
        <5>1. j \in 1 .. x - a
          BY <2>1, <4>1
        <5> QED BY <2>7, <3>1, <4>1, <5>1
      <4>2. CASE j > x - a
        <5> DEFINE i == j - (x - a)
        <5>1. i \in 1 .. b /\ x - a + i = j /\ ~(j <= x - a)
          BY <2>1, <4>2
        <5>2. (antes \o pieza)[j] = pieza[i]
          BY <3>1, <5>1
        <5> HIDE DEF i
        <5> QED BY <2>5, <5>1, <5>2
      <4>3. j <= x - a \/ j > x - a
        BY <2>1
      <4> QED BY <4>1, <4>2, <4>3
    <3> QED BY <2>4, <3>1, <3>2, SeqEqual
  <2>9. todo = Lectura(p, a, hasta(k) - a)
    BY <2>1 DEF todo
  <2>10. antes = Lectura(p, a, hasta(k - 1) - a)
    BY <2>1 DEF antes
  <2> QED BY <2>8, <2>9, <2>10 DEF pieza, x, b
<1>3. Lectura(p, a, hasta(0) - a) = <<>>
  BY DEF Lectura
<1> HIDE DEF n
<1>4. Es(f)
  <2>1. f[0] = <<>>
    BY <1>1, <1>3
  <2>2. ASSUME NEW k \in 1 .. n
        PROVE  f[k] = f[k - 1] \o leer(obtener_df(p, ts[k].dl), ts[k].bytes)
    <3>1. k - 1 \in 0 .. n /\ k \in 0 .. n
      BY <1>1
    <3> HIDE DEF hasta
    <3> QED BY <1>2, <3>1
  <2>3. \A k \in 0 .. n : k = 0 \/ k \in 1 .. n
    BY <1>1
  <2>4. f = [k \in 0 .. n |-> f[k]]
    OBVIOUS
  <2> HIDE DEF f
  <2> QED BY <2>1, <2>2, <2>3, <2>4
<1> DEFINE leido == CHOOSE d : Es(d)
<1>5. Es(leido)
  <2> HIDE DEF Es, f
  <2> QED BY <1>4
<1>6. mmu_leer(p, ts) = leido[n]
  BY DEF mmu_leer, n
<1> HIDE DEF leido
<1> DEFINE Malos == {k \in 0 .. n : leido[k] # f[k]}
<1>7. ASSUME Malos # {} PROVE FALSE
  <2>1. Malos \in SUBSET Nat
    BY <1>1
  <2>2. PICK k \in Malos : \A j \in Malos : k <= j
    <3> HIDE DEF Malos
    <3> QED BY <1>7, <2>1, HayPrimero
  <2> HIDE DEF f
  <2>3. k # 0 /\ k \in 1 .. n
    BY <1>1, <1>4, <1>5, <2>2
  <2>4. k - 1 \in 0 .. n /\ k - 1 \notin Malos
    BY <1>1, <2>2, <2>3
  <2>5. leido[k] = leido[k - 1] \o leer(obtener_df(p, ts[k].dl), ts[k].bytes)
    BY <1>5, <2>3
  <2>6. f[k] = f[k - 1] \o leer(obtener_df(p, ts[k].dl), ts[k].bytes)
    BY <1>4, <2>3
  <2> QED BY <2>2, <2>4, <2>5, <2>6
<1>8. leido[n] = f[n]
  <2> HIDE DEF f
  <2> QED BY <1>1, <1>7
<1>9. hasta(n) = fin
  <2>1. CASE n = 0
    <3>1. ts = <<>>
      BY <1>1, <2>1 DEF n
    <3> QED BY <2>1, <3>1 DEF Cubre
  <2>2. CASE n # 0
    <3>1. n \in 1 .. n
      BY <1>1, <2>2
    <3> QED BY <2>2, <3>1 DEF Cubre, n
  <2> QED BY <2>1, <2>2
<1>10. f[n] = Lectura(p, a, fin - a)
  <2> HIDE DEF hasta
  <2> QED BY <1>1, <1>9
<1> QED BY <1>6, <1>8, <1>10

(* Writing bytes anywhere leaves a memory with them. *)
LEMMA EscribirDe ==
  ASSUME NEW e \in Espacio, NEW df \in Nat, NEW d \in Seq(Bytes)
  PROVE  /\ escribir(e, df, d) \in Espacio
         /\ \A x \in 0 .. TAM_MEMORIA - 1 :
              escribir(e, df, d)[x] = IF x \in df .. df + Len(d) - 1 THEN d[x - df + 1] ELSE e[x]
<1>1. DOMAIN e = 0 .. TAM_MEMORIA - 1 /\ \A x \in DOMAIN e : e[x] \in Bytes
  BY DEF Espacio
<1>2. Len(d) \in Nat /\ \A k \in 1 .. Len(d) : d[k] \in Bytes
  BY LenProperties, ElementOfSeq
<1>3. ASSUME NEW x \in DOMAIN e, x \in df .. df + Len(d) - 1
      PROVE  d[x - df + 1] \in Bytes
  <2>1. x - df + 1 \in 1 .. Len(d)
    BY <1>1, <1>2, <1>3
  <2> QED BY <1>2, <2>1
<1> QED BY <1>1, <1>3 DEF escribir, Espacio

(* e is the memory with the first m bytes of dato in p, from the address a. *)
Escrito(e, p, a, m, dato) ==
  /\ e \in Espacio
  /\ \A x \in a .. a + m - 1 : e[obtener_df(p, x)] = dato[x - a + 1]
  /\ \A df \in 0 .. TAM_MEMORIA - 1 :
       (\A x \in a .. a + m - 1 : obtener_df(p, x) # df) => e[df] = espacio[df]

(* One more piece. *)
LEMMA EscribirPieza ==
  ASSUME NEW p \in Procesos, NEW a \in Nat, NEW x \in Nat, NEW b \in Nat \ {0},
         a <= x, x + b <= TamProceso,
         \A j \in 0 .. b - 1 : obtener_df(p, x + j) = obtener_df(p, x) + j,
         NEW dato \in Seq(Bytes), x + b - a <= Len(dato),
         NEW e, Escrito(e, p, a, x - a, dato)
  PROVE  Escrito(escribir(e, obtener_df(p, x), SubSeq(dato, x - a + 1, x - a + b)),
                 p, a, x + b - a, dato)
<1> DEFINE df == obtener_df(p, x)
           d == SubSeq(dato, x - a + 1, x - a + b)
           h == escribir(e, df, d)
<1>1. TamProceso \in Nat /\ Len(dato) \in Nat
  BY TamProcesoDe, LenProperties
<1>2. df \in Nat
  <2>1. x \in 0 .. TamProceso - 1
    BY <1>1
  <2> QED BY <2>1, DireccionDe, CicloCPUAssumption
<1>3. d \in Seq(Bytes) /\ Len(d) = b /\ \A j \in 1 .. b : d[j] = dato[x - a + j]
  <2>1. x - a + 1 \in 1 .. Len(dato) + 1 /\ x - a + b \in x - a + 1 - 1 .. Len(dato)
    BY <1>1
  <2> DEFINE m == x - a + 1
             n == x - a + b
  <2>2. \A k \in m .. n : dato[k] \in Bytes
    <3>1. \A k \in m .. n : k \in 1 .. Len(dato)
      BY <1>1
    <3> HIDE DEF m, n
    <3> QED BY <3>1, ElementOfSeq
  <2>3. m \in Int /\ n \in Int /\ m <= n + 1 /\ n - m + 1 = b
    BY <2>1
  <2>4. d = [j \in 1 .. n - m + 1 |-> dato[j + m - 1]]
    <3>1. d = SubSeq(dato, m, n)
      OBVIOUS
    <3> HIDE DEF m, n, d
    <3>2. SubSeq(dato, m, n) = [j \in 1 .. (1 + n - m) |-> dato[m + j - 1]]
      BY <1>1, <2>1, <2>3
    <3>3. 1 + n - m = n - m + 1 /\ \A j \in 1 .. n - m + 1 : m + j - 1 = j + m - 1
      BY <2>3
    <3> QED BY <3>1, <3>2, <3>3
  <2>5. \A j \in 1 .. b : j + m - 1 \in m .. n /\ j + m - 1 = x - a + j
    BY <2>1
  <2> HIDE DEF m, n
  <2>6. d = [j \in 1 .. b |-> dato[j + m - 1]]
    BY <2>3, <2>4
  <2> HIDE DEF d
  <2>7. \A j \in 1 .. b : d[j] = dato[j + m - 1] /\ d[j] \in Bytes
    BY <2>2, <2>5, <2>6
  <2>8. d \in Seq(Bytes) /\ Len(d) = b
    BY <2>6, <2>7
  <2> QED BY <2>5, <2>7, <2>8
<1> HIDE DEF df, d
<1>4. /\ h \in Espacio
      /\ \A y \in 0 .. TAM_MEMORIA - 1 :
           h[y] = IF y \in df .. df + b - 1 THEN d[y - df + 1] ELSE e[y]
  <2>1. e \in Espacio
    BY DEF Escrito
  <2>2. /\ h \in Espacio
        /\ \A y \in 0 .. TAM_MEMORIA - 1 :
             h[y] = IF y \in df .. df + Len(d) - 1 THEN d[y - df + 1] ELSE e[y]
    BY <1>2, <1>3, <2>1, EscribirDe
  <2> HIDE DEF h
  <2> QED BY <1>3, <2>2
<1> HIDE DEF h
<1>5. ASSUME NEW y \in a .. a + (x + b - a) - 1
      PROVE  h[obtener_df(p, y)] = dato[y - a + 1]
  <2>1. y \in 0 .. TamProceso - 1 /\ obtener_df(p, y) \in 0 .. TAM_MEMORIA - 1
    <3>1. y \in 0 .. TamProceso - 1
      BY <1>1
    <3> QED BY <3>1, DireccionDe
  <2>2. CASE y < x
    <3>1. y \in a .. a + (x - a) - 1
      BY <2>2
    <3>2. e[obtener_df(p, y)] = dato[y - a + 1]
      BY <3>1 DEF Escrito
    <3>3. obtener_df(p, y) \notin df .. df + b - 1
      <4> SUFFICES ASSUME obtener_df(p, y) \in df .. df + b - 1 PROVE FALSE
        OBVIOUS
      <4> DEFINE j == obtener_df(p, y) - df
      <4>1. j \in 0 .. b - 1 /\ obtener_df(p, y) = df + j
        BY <1>2, <2>1
      <4> HIDE DEF j
      <4>2. obtener_df(p, y) = obtener_df(p, x + j)
        BY <4>1 DEF df
      <4>3. x + j \in 0 .. TamProceso - 1
        BY <1>1, <4>1
      <4>4. y = x + j
        BY <2>1, <4>2, <4>3, DireccionUnica
      <4> QED BY <2>2, <4>1, <4>4
    <3> QED BY <1>4, <2>1, <3>2, <3>3
  <2>3. CASE x <= y
    <3> DEFINE j == y - x
    <3>1. j \in 0 .. b - 1 /\ y = x + j /\ j + 1 \in 1 .. b /\ x - a + (j + 1) = y - a + 1
      BY <2>3
    <3> HIDE DEF j
    <3>2. obtener_df(p, y) = df + j
      BY <3>1 DEF df
    <3>3. obtener_df(p, y) \in df .. df + b - 1 /\ obtener_df(p, y) - df + 1 = j + 1
      BY <1>2, <3>1, <3>2
    <3>4. h[obtener_df(p, y)] = d[j + 1]
      BY <1>4, <2>1, <3>3
    <3> QED BY <1>3, <3>1, <3>4
  <2> QED BY <2>1, <2>2, <2>3
<1>6. ASSUME NEW z \in 0 .. TAM_MEMORIA - 1,
             \A y \in a .. a + (x + b - a) - 1 : obtener_df(p, y) # z
      PROVE  h[z] = espacio[z]
  <2>1. z \notin df .. df + b - 1
    <3> SUFFICES ASSUME z \in df .. df + b - 1 PROVE FALSE
      OBVIOUS
    <3> DEFINE j == z - df
    <3>1. j \in 0 .. b - 1 /\ z = df + j
      BY <1>2
    <3> HIDE DEF j
    <3>2. obtener_df(p, x + j) = z
      BY <3>1 DEF df
    <3>3. x + j \in a .. a + (x + b - a) - 1
      BY <3>1
    <3> QED BY <1>6, <3>2, <3>3
  <2>2. \A y \in a .. a + (x - a) - 1 : y \in a .. a + (x + b - a) - 1
    OBVIOUS
  <2>3. e[z] = espacio[z]
    BY <1>6, <2>2 DEF Escrito
  <2> QED BY <1>4, <2>1, <2>3
<1> QED BY <1>4, <1>5, <1>6 DEF Escrito, h, df, d

(* What mmu_escribir leaves, by pieces that do not cross a page: dato in p *)
(* from a to fin - 1, and the rest of the memory as it was.                *)
LEMMA MmuEscribir ==
  ASSUME espacio \in Espacio, NEW p \in Procesos,
         NEW ts, NEW a \in Nat, NEW fin \in Nat, Cubre(ts, a, fin),
         a < fin => fin <= TamProceso,
         NEW dato \in Seq(Bytes), Len(dato) = fin - a
  PROVE  Escrito(mmu_escribir(p, ts, dato), p, a, fin - a, dato)
<1> DEFINE n == Len(ts)
           hasta(k) == IF k = 0 THEN a ELSE ts[k].dl + ts[k].bytes
           pieza(k) == SubSeq(dato, ts[k].dl - ts[1].dl + 1, ts[k].dl - ts[1].dl + ts[k].bytes)
           df(k) == obtener_df(p, ts[k].dl)
           ant == [k \in 1 .. n |-> k - 1]
           g == [k \in 1 .. n |-> [e \in Espacio |-> escribir(e, df(k), pieza(k))]]
           Es(d) == d = [k \in 0 .. n |->
                           IF k = 0 THEN espacio
                           ELSE LET va == ts[k].dl - ts[1].dl
                                IN  escribir(d[k - 1], obtener_df(p, ts[k].dl),
                                             SubSeq(dato, va + 1, va + ts[k].bytes))]
<1>1. n \in Nat /\ ts \in Seq(Trozo)
  BY LenProperties DEF Cubre
<1>2. ASSUME NEW k \in 1 .. n
      PROVE  /\ ts[k].dl \in Nat /\ ts[k].bytes \in Nat \ {0} /\ a <= ts[k].dl
             /\ ts[k].dl + ts[k].bytes <= TamProceso
             /\ ts[k].dl + ts[k].bytes - a <= Len(dato)
             /\ ts[k].dl = hasta(k - 1) /\ hasta(k) = ts[k].dl + ts[k].bytes
             /\ ts[1].dl = a
             /\ \A j \in 0 .. ts[k].bytes - 1 :
                  obtener_df(p, ts[k].dl + j) = obtener_df(p, ts[k].dl) + j
  <2>1. /\ ts[k].dl \in Nat /\ ts[k].bytes \in Nat \ {0} /\ a <= ts[k].dl
        /\ ts[k].dl + ts[k].bytes <= fin
        /\ ts[k].dl = IF k = 1 THEN a ELSE ts[k - 1].dl + ts[k - 1].bytes
    BY PiezaDe
  <2>2. k - 1 = 0 <=> k = 1
    BY <1>1
  <2>3. fin <= TamProceso /\ TamProceso \in Nat
    BY <2>1, TamProcesoDe
  <2>4. ts[1].dl = a
    <3>1. ts # <<>>
      BY <1>1
    <3> QED BY <3>1 DEF Cubre
  <2>5. \A j \in 0 .. ts[k].bytes - 1 : obtener_df(p, ts[k].dl + j) = obtener_df(p, ts[k].dl) + j
    BY <2>3, PiezaEnMemoria
  <2> DEFINE x == ts[k].dl
             b == ts[k].bytes
  <2>6. x + b <= TamProceso /\ x + b - a <= Len(dato)
    <3>1. x \in Nat /\ b \in Nat /\ x + b <= fin
      BY <2>1
    <3> HIDE DEF x, b
    <3> QED BY <2>3, <3>1
  <2>7. x = hasta(k - 1) /\ hasta(k) = x + b
    BY <2>1, <2>2
  <2> QED BY <2>1, <2>4, <2>5, <2>6, <2>7
<1>3. ASSUME NEW k \in 1 .. n, NEW e, Escrito(e, p, a, hasta(k - 1) - a, dato)
      PROVE  Escrito(escribir(e, df(k), pieza(k)), p, a, hasta(k) - a, dato)
  <2> DEFINE x == ts[k].dl
             b == ts[k].bytes
  <2>1. /\ x \in Nat /\ b \in Nat \ {0} /\ a <= x /\ x + b <= TamProceso
        /\ x + b - a <= Len(dato)
        /\ x = hasta(k - 1) /\ hasta(k) = x + b /\ ts[1].dl = a
        /\ \A j \in 0 .. b - 1 : obtener_df(p, x + j) = obtener_df(p, x) + j
    BY <1>2
  <2>2. Escrito(e, p, a, x - a, dato)
    BY <1>3, <2>1
  <2>3. df(k) = obtener_df(p, x) /\ pieza(k) = SubSeq(dato, x - a + 1, x - a + b)
    BY <2>1
  <2> HIDE DEF x, b, df, pieza
  <2>4. Escrito(escribir(e, obtener_df(p, x), SubSeq(dato, x - a + 1, x - a + b)),
                p, a, x + b - a, dato)
    BY <2>1, <2>2, EscribirPieza
  <2> HIDE DEF hasta
  <2> QED BY <2>1, <2>3, <2>4
<1>4. ASSUME NEW k \in 1 .. n, NEW e \in Espacio
      PROVE  escribir(e, df(k), pieza(k)) \in Espacio
  <2> DEFINE x == ts[k].dl
             b == ts[k].bytes
  <2>1. /\ x \in Nat /\ b \in Nat \ {0} /\ a <= x /\ x + b <= TamProceso
        /\ x + b - a <= Len(dato) /\ ts[1].dl = a
    BY <1>2
  <2>2. pieza(k) = SubSeq(dato, x - a + 1, x - a + b) /\ df(k) = obtener_df(p, x)
    BY <2>1
  <2> HIDE DEF x, b, df, pieza, n
  <2>3. SubSeq(dato, x - a + 1, x - a + b) \in Seq(Bytes)
    <3>1. \A i \in x - a + 1 .. x - a + b : i \in 1 .. Len(dato)
      BY <2>1, LenProperties
    <3>2. \A i \in x - a + 1 .. x - a + b : dato[i] \in Bytes
      BY <3>1, ElementOfSeq
    <3>3. x - a + 1 \in Int /\ x - a + b \in Int
      BY <2>1
    <3> QED BY <3>2, <3>3, SubSeqProperties
  <2>4. obtener_df(p, x) \in Nat
    <3>1. x \in 0 .. TamProceso - 1
      BY <2>1, TamProcesoDe
    <3> QED BY <3>1, DireccionDe, CicloCPUAssumption
  <2> QED BY <2>2, <2>3, <2>4, EscribirDe
<1> DEFINE escrito == CHOOSE d : Es(d)
<1>5. Es(escrito)
  <2>1. Pasos(n, Espacio, espacio, ant, g)
    <3> HIDE DEF n, df, pieza
    <3>1. ant \in [1 .. n -> Nat] /\ \A k \in 1 .. n : ant[k] < k
      BY <1>1
    <3>2. g \in [1 .. n -> [Espacio -> Espacio]]
      BY <1>4
    <3> HIDE DEF g, ant
    <3> QED BY <1>1, <3>1, <3>2 DEF Pasos
  <2>2. PICK f : Recursiva(f, n, Espacio, espacio, ant, g)
    <3> HIDE DEF n, g, ant
    <3> QED BY <2>1, HayRecursiva
  <2>3. Es(f)
    <3> HIDE DEF n
    <3>1. f \in [0 .. n -> Espacio] /\ f[0] = espacio
      <4> HIDE DEF g, ant
      <4> QED BY <2>2 DEF Recursiva
    <3>2. ASSUME NEW k \in 1 .. n
          PROVE  f[k] = escribir(f[k - 1], df(k), pieza(k))
      <4>1. ant[k] = k - 1
        OBVIOUS
      <4>2. f[k] = g[k][f[ant[k]]]
        <5> HIDE DEF g, ant
        <5> QED BY <2>2 DEF Recursiva
      <4>3. f[k - 1] \in Espacio
        BY <1>1, <3>1
      <4> HIDE DEF df, pieza, ant
      <4> QED BY <4>1, <4>2, <4>3
    <3>3. \A k \in 0 .. n : k = 0 \/ k \in 1 .. n
      BY <1>1
    <3>4. f = [k \in 0 .. n |-> f[k]]
      BY <3>1
    <3>5. \A k \in 0 .. n : f[k] = IF k = 0 THEN espacio
                                   ELSE LET va == ts[k].dl - ts[1].dl
                                        IN  escribir(f[k - 1], obtener_df(p, ts[k].dl),
                                                     SubSeq(dato, va + 1, va + ts[k].bytes))
      BY <3>1, <3>2, <3>3
    <3> QED BY <3>4, <3>5
  <2> HIDE DEF Es
  <2> QED BY <2>3
<1>6. mmu_escribir(p, ts, dato) = escrito[n]
  BY DEF mmu_escribir
<1> HIDE DEF escrito, n
<1> DEFINE Malos == {k \in 0 .. n : ~Escrito(escrito[k], p, a, hasta(k) - a, dato)}
<1>7. ASSUME Malos # {} PROVE FALSE
  <2>1. Malos \in SUBSET Nat
    BY <1>1
  <2>2. PICK k \in Malos : \A j \in Malos : k <= j
    <3> HIDE DEF Malos
    <3> QED BY <1>7, <2>1, HayPrimero
  <2>3. CASE k = 0
    <3>1. escrito[0] = espacio /\ hasta(0) - a = 0
      BY <1>1, <1>5
    <3>2. Escrito(espacio, p, a, 0, dato)
      <4>1. a .. a + 0 - 1 = {}
        OBVIOUS
      <4> QED BY <4>1 DEF Escrito
    <3> HIDE DEF hasta
    <3> QED BY <2>2, <2>3, <3>1, <3>2
  <2>4. CASE k # 0
    <3>1. k \in 1 .. n /\ k - 1 \in 0 .. n /\ k - 1 \notin Malos
      BY <1>1, <2>2, <2>4
    <3>2. Escrito(escrito[k - 1], p, a, hasta(k - 1) - a, dato)
      BY <3>1
    <3>3. escrito[k] = escribir(escrito[k - 1], df(k), pieza(k))
      BY <1>5, <3>1
    <3> HIDE DEF hasta, df, pieza
    <3>4. Escrito(escribir(escrito[k - 1], df(k), pieza(k)), p, a, hasta(k) - a, dato)
      BY <1>3, <3>1, <3>2
    <3> QED BY <2>2, <3>3, <3>4
  <2> QED BY <2>3, <2>4
<1>8. hasta(n) = fin
  <2>1. CASE n = 0
    <3>1. ts = <<>>
      BY <1>1, <2>1 DEF n
    <3> QED BY <2>1, <3>1 DEF Cubre
  <2>2. CASE n # 0
    <3>1. n \in 1 .. n
      BY <1>1, <2>2
    <3> QED BY <2>2, <3>1 DEF Cubre, n
  <2> QED BY <2>1, <2>2
<1> HIDE DEF hasta
<1>9. n \in 0 .. n
  BY <1>1
<1> QED BY <1>6, <1>7, <1>8, <1>9

-----------------------------------------------------------------------------
(* What is packed and unpacked.                                            *)

(* The fields of a context, in the order of agregar_contexto_ejecucion. *)
Encabezado(pid, m) == <<pid, m.pc>> \o [k \in 1 .. 10 |-> m.registros[Orden[k]]]

(* Each register is in one place of the order. *)
LEMMA LugarDe ==
  /\ DOMAIN Lugar = Nombres
  /\ \A k \in 1 .. 10 : Orden[k] \in Nombres
  /\ \A r \in Nombres : Lugar[r] \in 1 .. 10 /\ Orden[Lugar[r]] = r
<1>1. /\ DOMAIN Orden = 1 .. 10
      /\ Orden[1] = "AX" /\ Orden[2] = "BX" /\ Orden[3] = "CX" /\ Orden[4] = "DX"
      /\ Orden[5] = "EAX" /\ Orden[6] = "EBX" /\ Orden[7] = "ECX" /\ Orden[8] = "EDX"
      /\ Orden[9] = "SI" /\ Orden[10] = "DI"
  BY DEF Orden
<1>2. \A k \in 1 .. 10 : k = 1 \/ k = 2 \/ k = 3 \/ k = 4 \/ k = 5 \/ k = 6 \/ k = 7
                         \/ k = 8 \/ k = 9 \/ k = 10
  OBVIOUS
<1>3. \A k \in 1 .. 10 : Orden[k] \in Nombres
  BY <1>1, <1>2 DEF Nombres, Chicos, Grandes, Indices
<1>4. \A r \in Nombres : \E k \in 1 .. 10 : Orden[k] = r
  <2> TAKE r \in Nombres
  <2>1. r \in {"AX", "BX", "CX", "DX", "EAX", "EBX", "ECX", "EDX", "SI", "DI"}
    BY DEF Nombres, Chicos, Grandes, Indices
  <2>2. /\ 1 \in 1 .. 10 /\ 2 \in 1 .. 10 /\ 3 \in 1 .. 10 /\ 4 \in 1 .. 10 /\ 5 \in 1 .. 10
        /\ 6 \in 1 .. 10 /\ 7 \in 1 .. 10 /\ 8 \in 1 .. 10 /\ 9 \in 1 .. 10 /\ 10 \in 1 .. 10
    OBVIOUS
  <2> QED BY <1>1, <2>1, <2>2
<1>5. Range(Orden) = Nombres
  BY <1>1, <1>3, <1>4 DEF Range
<1>6. DOMAIN Lugar = Nombres
  BY <1>5 DEF Lugar
<1>7. ASSUME NEW r \in Nombres
      PROVE  Lugar[r] \in 1 .. 10 /\ Orden[Lugar[r]] = r
  <2>1. Lugar[r] = CHOOSE k \in 1 .. 10 : Orden[k] = r
    BY <1>5 DEF Lugar
  <2>2. \E k \in 1 .. 10 : Orden[k] = r
    BY <1>4
  <2> QED BY <2>1, <2>2
<1> QED BY <1>3, <1>6, <1>7

(* What is taken from where b is. *)
LEMMA Subsecuencia ==
  ASSUME NEW S, NEW b \in Seq(S), NEW s, NEW k \in Nat,
         \A x \in 1 .. Len(b) : s[k + x] = b[x]
  PROVE  SubSeq(s, k + 1, k + Len(b)) = b
<1> DEFINE u == k + 1
           v == k + Len(b)
           e == SubSeq(s, u, v)
<1>1. Len(b) \in Nat
  BY LenProperties
<1>2. \A i \in u .. v : i - k \in 1 .. Len(b) /\ k + (i - k) = i
  BY <1>1
<1>3. \A i \in u .. v : s[i] \in S
  BY <1>2, ElementOfSeq
<1>4. u \in Int /\ v \in Int /\ v - u + 1 = Len(b) /\ (u <= v <=> Len(b) > 0)
  BY <1>1
<1>5. \A x \in 1 .. Len(b) : u + x - 1 = k + x
  BY <1>1
<1> HIDE DEF u, v
<1>6. /\ e \in Seq(S)
      /\ Len(e) = IF u <= v THEN v - u + 1 ELSE 0
      /\ \A x \in 1 .. v - u + 1 : e[x] = s[u + x - 1]
  BY <1>3, <1>4, SubSeqProperties
<1> HIDE DEF e
<1>7. Len(e) = Len(b)
  BY <1>1, <1>4, <1>6
<1>8. \A x \in 1 .. Len(b) : e[x] = b[x]
  BY <1>4, <1>5, <1>6
<1>9. e = b
  BY <1>6, <1>7, <1>8, SeqEqual
<1> QED BY <1>9 DEF e, u, v

(* What follows a sequence is what is left after its elements. *)
LEMMA Despues ==
  ASSUME NEW S, NEW a \in Seq(S), NEW b \in Seq(S)
  PROVE  /\ buffer_actualizar(a \o b, Len(a)) = b
         /\ \A k \in 1 .. Len(a) : buffer_desempaquetar(a \o b, Len(a))[k] = a[k]
<1> DEFINE c == a \o b
           m == Len(a)
<1>1. /\ Len(a) \in Nat /\ Len(b) \in Nat
      /\ c \in Seq(S) /\ Len(c) = Len(a) + Len(b)
      /\ \A i \in 1 .. Len(a) + Len(b) : c[i] = IF i <= Len(a) THEN a[i] ELSE b[i - Len(a)]
  BY ConcatProperties, LenProperties
<1> HIDE DEF c
<1>2. SubSeq(c, m + 1, Len(c)) = b
  <2>1. ASSUME NEW x \in 1 .. Len(b)
        PROVE  c[m + x] = b[x]
    <3>1. m + x \in 1 .. Len(a) + Len(b) /\ ~(m + x <= Len(a)) /\ m + x - Len(a) = x
      BY <1>1
    <3> QED BY <1>1, <3>1
  <2>2. m \in Nat /\ Len(c) = m + Len(b)
    BY <1>1
  <2> HIDE DEF m
  <2>3. SubSeq(c, m + 1, m + Len(b)) = b
    BY <2>1, <2>2, Subsecuencia
  <2> QED BY <2>2, <2>3
<1>3. ASSUME NEW k \in 1 .. m
      PROVE  buffer_desempaquetar(c, m)[k] = a[k]
  <2>1. k <= Len(c) /\ k \in 1 .. Len(a) + Len(b) /\ k <= Len(a)
    BY <1>1
  <2> QED BY <1>1, <2>1 DEF buffer_desempaquetar
<1> QED BY <1>2, <1>3 DEF buffer_actualizar, c

(* A packed context is a sequence of CAMPOS fields: the identifier, the    *)
(* counter and the registers in their order.                               *)
LEMMA EncabezadoSeq ==
  ASSUME NEW pid \in Campo, NEW m, m.pc \in Nat, m.registros \in [Nombres -> Nat]
  PROVE  /\ Encabezado(pid, m) \in Seq(Campo)
         /\ Len(Encabezado(pid, m)) = CAMPOS
         /\ Encabezado(pid, m)[1] = pid /\ Encabezado(pid, m)[2] = m.pc
         /\ \A k \in 1 .. 10 : Encabezado(pid, m)[2 + k] = m.registros[Orden[k]]
<1> DEFINE a == <<pid, m.pc>>
           b == [k \in 1 .. 10 |-> m.registros[Orden[k]]]
<1>1. a \in Seq(Campo) /\ Len(a) = 2 /\ a[1] = pid /\ a[2] = m.pc
  <2>1. pid \in Campo /\ m.pc \in Campo
    BY DEF Campo
  <2> QED BY <2>1
<1>2. b \in Seq(Campo) /\ Len(b) = 10
  <2>1. \A k \in 1 .. 10 : m.registros[Orden[k]] \in Campo
    BY LugarDe DEF Campo
  <2> QED BY <2>1
<1>3. \A k \in 1 .. 10 : b[k] = m.registros[Orden[k]]
  OBVIOUS
<1> DEFINE c == a \o b
<1> HIDE DEF a, b
<1>4. /\ c \in Seq(Campo) /\ Len(c) = Len(a) + Len(b)
      /\ \A i \in 1 .. Len(a) + Len(b) : c[i] = IF i <= Len(a) THEN a[i] ELSE b[i - Len(a)]
  BY <1>1, <1>2, ConcatProperties
<1> HIDE DEF c
<1>5. 1 \in 1 .. Len(a) /\ 2 \in 1 .. Len(a)
  BY <1>1
<1>6. ASSUME NEW k \in 1 .. 10 PROVE c[2 + k] = b[k]
  <2>1. 2 + k \in 1 .. Len(a) + Len(b) /\ ~(2 + k <= Len(a)) /\ 2 + k - Len(a) = k
    BY <1>1, <1>2
  <2> QED BY <1>4, <2>1
<1> QED BY <1>1, <1>2, <1>3, <1>4, <1>5, <1>6 DEF Encabezado, a, b, c, CAMPOS

(* What the kernel, or the CPU, unpacks is the context that was packed,    *)
(* and what is left is what was added after it.                            *)
LEMMA ContextoDesempaquetado ==
  ASSUME NEW pid \in Campo, NEW m, m.pc \in Nat, m.registros \in [Nombres -> Nat],
         NEW e \in Seq(Campo)
  PROVE  LET b == Encabezado(pid, m) \o e
         IN  /\ buffer_desempaquetar_contexto_ejecucion(b) = t_pcb(pid, m)
             /\ buffer_actualizar(b, CAMPOS) = e
<1> DEFINE h == Encabezado(pid, m)
           v == buffer_desempaquetar(h \o e, CAMPOS)
<1>1. /\ h \in Seq(Campo) /\ Len(h) = 12 /\ CAMPOS = 12
      /\ h[1] = pid /\ h[2] = m.pc /\ \A k \in 1 .. 10 : h[2 + k] = m.registros[Orden[k]]
  BY EncabezadoSeq DEF CAMPOS
<1> HIDE DEF h
<1>2. buffer_actualizar(h \o e, CAMPOS) = e /\ \A k \in 1 .. 12 : v[k] = h[k]
  <2>1. /\ buffer_actualizar(h \o e, Len(h)) = e
        /\ \A k \in 1 .. Len(h) : buffer_desempaquetar(h \o e, Len(h))[k] = h[k]
    <3>1. \A S : \A x, y \in Seq(S) :
            /\ buffer_actualizar(x \o y, Len(x)) = y
            /\ \A k \in 1 .. Len(x) : buffer_desempaquetar(x \o y, Len(x))[k] = x[k]
      BY Despues
    <3>2. h \in Seq(Campo) /\ e \in Seq(Campo)
      BY <1>1
    <3> QED BY <3>1, <3>2
  <2> QED BY <1>1, <2>1
<1> HIDE DEF v
<1>3. v[1] = pid /\ v[2] = m.pc
  BY <1>1, <1>2
<1>4. \A r \in Nombres : v[2 + Lugar[r]] = m.registros[r]
  <2> TAKE r \in Nombres
  <2>1. Lugar[r] \in 1 .. 10 /\ Orden[Lugar[r]] = r
    BY LugarDe
  <2>2. 2 + Lugar[r] \in 1 .. 12
    BY <2>1
  <2> QED BY <1>1, <1>2, <2>1, <2>2
<1>5. [r \in DOMAIN Lugar |-> v[2 + Lugar[r]]] = m.registros
  BY <1>4, LugarDe
<1>6. buffer_desempaquetar_contexto_ejecucion(h \o e)
        = [pid |-> v[1], pc |-> v[2], registros |-> [r \in DOMAIN Lugar |-> v[2 + Lugar[r]]]]
  BY DEF buffer_desempaquetar_contexto_ejecucion, v
<1>7. buffer_desempaquetar_contexto_ejecucion(h \o e) = t_pcb(pid, m)
  BY <1>3, <1>5, <1>6 DEF t_pcb
<1> QED BY <1>2, <1>7 DEF h

(* An operation of I/O, unpacked: nothing is missing and nothing is left.  *)
Operacion ==
  [nombre : Textos, numeros : Seq(Nat), cantidad : Nat, dirs : Seq(Nat), buffer : {<<>>}]

Completa(op, o) ==
  /\ op \in DeEntradaSalida
  /\ o \in Operacion
  /\ op \notin ConArchivo => o.nombre = SinNombre
  /\ op \notin ConDirecciones => o.cantidad = 0
  /\ Len(o.numeros) = cuantos(op)
  /\ Len(o.dirs) = 2 * o.cantidad

(* The fields of an operation, packed. *)
Cuerpo(op, o) ==
  (IF op \in ConArchivo THEN <<o.nombre>> ELSE <<>>) \o
  (o.numeros \o IF op \in ConDirecciones THEN <<o.cantidad>> \o o.dirs ELSE <<>>)

(* s has the elements of four sequences, one after another. *)
Seguidas(s, a, b, c, d) ==
  LET i == Len(a)
      j == i + Len(b)
      k == j + Len(c)
  IN  /\ Len(s) = k + Len(d)
      /\ i \in Nat /\ j \in Nat /\ k \in Nat
      /\ \A x \in 1 .. Len(a) : s[x] = a[x]
      /\ \A x \in 1 .. Len(b) : s[i + x] = b[x]
      /\ \A x \in 1 .. Len(c) : s[j + x] = c[x]
      /\ \A x \in 1 .. Len(d) : s[k + x] = d[x]

(* What joining four sequences gives. *)
LEMMA CuatroPartes ==
  ASSUME NEW S, NEW a \in Seq(S), NEW b \in Seq(S), NEW c \in Seq(S), NEW d \in Seq(S)
  PROVE  /\ a \o (b \o (c \o d)) \in Seq(S)
         /\ Seguidas(a \o (b \o (c \o d)), a, b, c, d)
<1> DEFINE t == c \o d
           u == b \o t
           s == a \o u
           i == Len(a)
           j == i + Len(b)
           k == j + Len(c)
<1>0. Len(a) \in Nat /\ Len(b) \in Nat /\ Len(c) \in Nat /\ Len(d) \in Nat
  BY LenProperties
<1>1. /\ t \in Seq(S) /\ Len(t) = Len(c) + Len(d)
      /\ \A x \in 1 .. Len(c) + Len(d) : t[x] = IF x <= Len(c) THEN c[x] ELSE d[x - Len(c)]
  BY ConcatProperties
<1> HIDE DEF t
<1>2. /\ u \in Seq(S) /\ Len(u) = Len(b) + Len(t)
      /\ \A x \in 1 .. Len(b) + Len(t) : u[x] = IF x <= Len(b) THEN b[x] ELSE t[x - Len(b)]
  <2>1. b \in Seq(S) /\ t \in Seq(S)
    BY <1>1
  <2> HIDE DEF u
  <2>2. u = b \o t
    BY DEF u
  <2> QED BY <2>1, <2>2, ConcatProperties
<1> HIDE DEF u
<1>3. /\ s \in Seq(S) /\ Len(s) = Len(a) + Len(u)
      /\ \A x \in 1 .. Len(a) + Len(u) : s[x] = IF x <= Len(a) THEN a[x] ELSE u[x - Len(a)]
  BY <1>2, ConcatProperties
<1> HIDE DEF s
<1>4. i \in Nat /\ j \in Nat /\ k \in Nat /\ Len(s) = k + Len(d)
  BY <1>0, <1>1, <1>2, <1>3
<1>5. ASSUME NEW x \in 1 .. Len(a) PROVE s[x] = a[x]
  BY <1>0, <1>1, <1>2, <1>3
<1>6. ASSUME NEW x \in 1 .. Len(u) PROVE s[i + x] = u[x]
  <2>1. i + x \in 1 .. Len(a) + Len(u) /\ ~(i + x <= Len(a)) /\ i + x - Len(a) = x
    BY <1>0, <1>1, <1>2
  <2> QED BY <1>3, <2>1
<1>7. ASSUME NEW x \in 1 .. Len(b) PROVE u[x] = b[x] /\ x \in 1 .. Len(u)
  BY <1>0, <1>1, <1>2
<1>8. ASSUME NEW x \in 1 .. Len(t)
      PROVE  u[Len(b) + x] = t[x] /\ Len(b) + x \in 1 .. Len(u)
  <2>1. Len(b) + x \in 1 .. Len(b) + Len(t) /\ ~(Len(b) + x <= Len(b))
        /\ Len(b) + x - Len(b) = x
    BY <1>0, <1>1
  <2> QED BY <1>2, <2>1
<1>9. ASSUME NEW x \in 1 .. Len(c) PROVE t[x] = c[x] /\ x \in 1 .. Len(t)
  BY <1>0, <1>1
<1>10. ASSUME NEW x \in 1 .. Len(d) PROVE t[Len(c) + x] = d[x] /\ Len(c) + x \in 1 .. Len(t)
  <2>1. Len(c) + x \in 1 .. Len(c) + Len(d) /\ ~(Len(c) + x <= Len(c))
        /\ Len(c) + x - Len(c) = x
    BY <1>0
  <2> QED BY <1>1, <2>1
<1>11. \A x \in 1 .. Len(b) : s[i + x] = b[x]
  BY <1>6, <1>7
<1>12. ASSUME NEW x \in 1 .. Len(t) PROVE s[j + x] = t[x]
  <2>1. i + (Len(b) + x) = j + x
    BY <1>0, <1>1
  <2> QED BY <1>6, <1>8, <2>1
<1>13. \A x \in 1 .. Len(c) : s[j + x] = c[x]
  BY <1>9, <1>12
<1>14. ASSUME NEW x \in 1 .. Len(d) PROVE s[k + x] = d[x]
  <2>1. j + (Len(c) + x) = k + x
    BY <1>0
  <2> QED BY <1>10, <1>12, <2>1
<1> QED BY <1>3, <1>4, <1>5, <1>11, <1>13, <1>14 DEF Seguidas, s, u, t

(* What the kernel and the interfaces unpack is what was packed. *)
LEMMA OperacionDesempaquetada ==
  ASSUME NEW op, NEW o, Completa(op, o)
  PROVE  /\ Cuerpo(op, o) \in Seq(Campo)
         /\ desempaquetar_operacion(op, Cuerpo(op, o)) = o
<1> DEFINE a == IF op \in ConArchivo THEN <<o.nombre>> ELSE <<>>
           c == IF op \in ConDirecciones THEN <<o.cantidad>> ELSE <<>>
           b == o.numeros
           d == o.dirs
           n == IF op \in ConArchivo THEN 1 ELSE 0
           m == IF op \in ConDirecciones THEN 1 ELSE 0
           s == Cuerpo(op, o)
           N == cuantos(op)
           fijos == n + N + m
           cant == o.cantidad
<1>1. /\ o.nombre \in Textos /\ b \in Seq(Nat) /\ cant \in Nat /\ d \in Seq(Nat)
      /\ o.buffer = <<>>
      /\ o = [nombre |-> o.nombre, numeros |-> b, cantidad |-> cant, dirs |-> d,
              buffer |-> <<>>]
  BY DEF Completa, Operacion
<1>2. a \in Seq(Campo) /\ Len(a) = n /\ (n = 1 => a[1] = o.nombre)
  <2>1. o.nombre \in Campo
    BY <1>1 DEF Campo
  <2>2. CASE op \in ConArchivo
    BY <2>1, <2>2
  <2>3. CASE op \notin ConArchivo
    BY <2>3
  <2> QED BY <2>2, <2>3
<1>3. c \in Seq(Campo) /\ Len(c) = m /\ (m = 1 => c[1] = cant)
  <2>1. o.cantidad \in Campo
    BY <1>1 DEF Campo
  <2>2. CASE op \in ConDirecciones
    BY <2>1, <2>2
  <2>3. CASE op \notin ConDirecciones
    BY <2>3
  <2> QED BY <2>2, <2>3
<1>4. b \in Seq(Campo) /\ d \in Seq(Campo) /\ Len(b) = N /\ Len(d) = 2 * cant
      /\ N \in Nat
  <2>1. Nat \subseteq Campo
    BY DEF Campo
  <2>2. Seq(Nat) \subseteq Seq(Campo)
    BY <2>1
  <2>3. Len(b) = N /\ Len(d) = 2 * cant
    BY DEF Completa
  <2>4. Len(b) \in Nat
    BY <1>1, LenProperties
  <2> HIDE DEF b, d, N, cant
  <2> QED BY <1>1, <2>2, <2>3, <2>4
<1>5. s = a \o (b \o (c \o d))
  <2>1. CASE op \in ConDirecciones
    BY <2>1 DEF Cuerpo
  <2>2. CASE op \notin ConDirecciones
    <3>1. d = <<>>
      <4>2. cant = 0
        BY <2>2 DEF Completa
      <4>1. Len(d) = 0
        BY <1>4, <4>2
      <4> QED BY <1>1, <4>1, EmptySeq
    <3>2. c \o d = <<>>
      BY <2>2, <3>1
    <3> QED BY <2>2, <3>2 DEF Cuerpo
  <2> QED BY <2>1, <2>2
<1>6. n \in {0, 1} /\ m \in {0, 1}
  OBVIOUS
<1> HIDE DEF a, b, c, d, s, N, cant, n, m
<1>7. /\ s \in Seq(Campo) /\ Len(s) = fijos + 2 * cant
      /\ fijos \in Nat
      /\ \A x \in 1 .. n : s[x] = a[x]
      /\ \A x \in 1 .. N : s[n + x] = b[x]
      /\ \A x \in 1 .. m : s[n + N + x] = c[x]
      /\ \A x \in 1 .. 2 * cant : s[fijos + x] = d[x]
  <2> DEFINE i == Len(a)
             j == i + Len(b)
             k == j + Len(c)
  <2>1. /\ s \in Seq(Campo) /\ Len(s) = k + Len(d)
        /\ i \in Nat /\ j \in Nat /\ k \in Nat
        /\ \A x \in 1 .. Len(a) : s[x] = a[x]
        /\ \A x \in 1 .. Len(b) : s[i + x] = b[x]
        /\ \A x \in 1 .. Len(c) : s[j + x] = c[x]
        /\ \A x \in 1 .. Len(d) : s[k + x] = d[x]
    <3>1. /\ a \in Seq(Campo) /\ b \in Seq(Campo) /\ c \in Seq(Campo) /\ d \in Seq(Campo)
      BY <1>2, <1>3, <1>4
    <3>2. s \in Seq(Campo) /\ Seguidas(s, a, b, c, d)
      BY <1>5, <3>1, CuatroPartes
    <3> QED BY <3>2 DEF Seguidas
  <2>2. i = n /\ j = n + N /\ k = fijos
    BY <1>2, <1>3, <1>4
  <2> HIDE DEF i, j, k, fijos
  <2> QED BY <1>2, <1>3, <1>4, <2>1, <2>2
<1> DEFINE primeros == buffer_desempaquetar(s, fijos)
           todos == buffer_desempaquetar(s, fijos + 2 * cant)
<1>8. \A i \in 1 .. fijos : primeros[i] = s[i]
  BY <1>1, <1>7 DEF buffer_desempaquetar
<1>9. \A i \in 1 .. fijos + 2 * cant : todos[i] = s[i]
  BY <1>1, <1>7 DEF buffer_desempaquetar
<1> HIDE DEF fijos, primeros, todos
<1>10. n = 1 => primeros[1] = o.nombre
  <2> SUFFICES ASSUME n = 1 PROVE primeros[1] = o.nombre
    OBVIOUS
  <2>1. 1 \in 1 .. fijos
    BY <1>2, <1>3, <1>4, <1>6 DEF fijos
  <2>2. primeros[1] = s[1] /\ s[1] = a[1]
    BY <1>7, <1>8, <2>1
  <2> QED BY <1>2, <2>2
<1>11. m = 1 => primeros[fijos] = cant
  <2> SUFFICES ASSUME m = 1 PROVE primeros[fijos] = cant
    OBVIOUS
  <2>1. fijos \in 1 .. fijos /\ fijos = n + N + 1 /\ 1 \in 1 .. m
    BY <1>4, <1>6 DEF fijos
  <2> QED BY <1>3, <1>7, <1>8, <2>1
<1>12. SubSeq(primeros, n + 1, n + N) = b
  <2>1. \A x \in 1 .. N : n + x \in 1 .. fijos
    BY <1>4, <1>6 DEF fijos
  <2>2. \A x \in 1 .. Len(b) : primeros[n + x] = b[x]
    BY <1>4, <1>7, <1>8, <2>1
  <2>3. n \in Nat /\ Len(b) = N
    BY <1>4, <1>6
  <2> QED BY <1>4, <2>2, <2>3, Subsecuencia
<1>13. SubSeq(todos, fijos + 1, fijos + 2 * cant) = d
  <2> DEFINE q == 2 * cant
  <2>0. q \in Nat /\ Len(d) = q
    BY <1>1, <1>4
  <2>1. \A x \in 1 .. q : fijos + x \in 1 .. fijos + q
    <3> HIDE DEF q
    <3> QED BY <1>7, <2>0
  <2>2. \A x \in 1 .. Len(d) : todos[fijos + x] = d[x]
    BY <1>7, <1>9, <2>0, <2>1
  <2> HIDE DEF q
  <2>3. SubSeq(todos, fijos + 1, fijos + q) = d
    BY <1>4, <1>7, <2>0, <2>2, Subsecuencia
  <2> QED BY <2>3 DEF q
<1>14. buffer_actualizar(s, fijos + 2 * cant) = <<>>
  <2>1. Len(s) = fijos + 2 * cant /\ Len(s) \in Nat
    BY <1>7, LenProperties
  <2> HIDE DEF s
  <2>2. Len(s) + 1 \in Int /\ Len(s) \in Int /\ Len(s) < Len(s) + 1
    BY <2>1
  <2>3. SubSeq(s, Len(s) + 1, Len(s)) = <<>>
    BY <2>2, SubSeqEmpty
  <2> QED BY <2>1, <2>3 DEF buffer_actualizar
<1>15. cant = IF op \in ConDirecciones THEN primeros[fijos] ELSE 0
  BY <1>11 DEF m, cant, Completa
<1>16. o.nombre = IF n = 1 THEN primeros[1] ELSE SinNombre
  BY <1>10 DEF n, Completa
<1>17. desempaquetar_operacion(op, s)
         = [nombre |-> IF n = 1 THEN primeros[1] ELSE SinNombre,
            numeros |-> SubSeq(primeros, n + 1, n + N), cantidad |-> cant,
            dirs |-> SubSeq(todos, fijos + 1, fijos + 2 * cant),
            buffer |-> buffer_actualizar(s, fijos + 2 * cant)]
  <2>1. fijos = n + cuantos(op) + IF op \in ConDirecciones THEN 1 ELSE 0
    BY DEF fijos, m, N
  <2>2. n = IF op \in ConArchivo THEN 1 ELSE 0
    BY DEF n
  <2>3. cant = IF op \in ConDirecciones
                 THEN buffer_desempaquetar(s, fijos)[fijos] ELSE 0
    BY <1>15 DEF primeros
  <2> QED BY <2>1, <2>2, <2>3 DEF desempaquetar_operacion, primeros, todos, N
<1> QED BY <1>1, <1>7, <1>12, <1>13, <1>14, <1>16, <1>17 DEF s

(* The packet of a context, with what goes after it. *)
Paquete(codigo, pid, m, e) ==
  [codigo_operacion |-> codigo, buffer |-> Encabezado(pid, m) \o e]

(* What is added to a packet goes after what it has. *)
LEMMA AgregarDe ==
  ASSUME NEW codigo, NEW b, NEW v
  PROVE  agregar_a_paquete([codigo_operacion |-> codigo, buffer |-> b], v)
           = [codigo_operacion |-> codigo, buffer |-> b \o v]
<1> DEFINE q == [codigo_operacion |-> codigo, buffer |-> b]
           c == b \o v
<1>1. q.buffer = b /\ q.buffer \o v = c
  OBVIOUS
<1>2. agregar_a_paquete(q, v) = [q EXCEPT !.buffer = q.buffer \o v]
  BY DEF agregar_a_paquete
<1>3. agregar_a_paquete(q, v) = [q EXCEPT !.buffer = c]
  <2> HIDE DEF q
  <2> QED BY <1>1, <1>2
<1> HIDE DEF c
<1>4. [q EXCEPT !.buffer = c] = [codigo_operacion |-> codigo, buffer |-> c]
  OBVIOUS
<1> QED BY <1>3, <1>4 DEF c

(* A packet with a context and nothing else, and with what is added to it. *)
LEMMA PaqueteDe ==
  ASSUME NEW codigo, NEW pid \in Campo, NEW m, m.pc \in Nat, m.registros \in [Nombres -> Nat],
         NEW e \in Seq(Campo)
  PROVE  LET q == agregar_contexto_ejecucion_a_paquete(crear_paquete(codigo), pid, m)
         IN  /\ q = Paquete(codigo, pid, m, <<>>)
             /\ agregar_a_paquete(q, e) = Paquete(codigo, pid, m, e)
<1> DEFINE q == agregar_contexto_ejecucion_a_paquete(crear_paquete(codigo), pid, m)
           h == Encabezado(pid, m)
<1>1. h \in Seq(Campo)
  BY EncabezadoSeq
<1>2. q = [codigo_operacion |-> codigo, buffer |-> <<>> \o h]
  <2>1. q = agregar_a_paquete([codigo_operacion |-> codigo, buffer |-> <<>>], h)
    BY DEF agregar_contexto_ejecucion_a_paquete, crear_paquete, crear_buffer, Encabezado
  <2> HIDE DEF q, h
  <2> QED BY <2>1, AgregarDe
<1>3. <<>> \o h = h /\ h \o <<>> = h
  <2> HIDE DEF h
  <2> QED BY <1>1, ConcatEmptySeq
<1> HIDE DEF q
<1>4. q = [codigo_operacion |-> codigo, buffer |-> h]
  BY <1>2, <1>3
<1>5. q = Paquete(codigo, pid, m, <<>>)
  BY <1>3, <1>4 DEF Paquete
<1>6. agregar_a_paquete(q, e) = Paquete(codigo, pid, m, e)
  <2> HIDE DEF h
  <2>1. agregar_a_paquete(q, e) = [codigo_operacion |-> codigo, buffer |-> h \o e]
    BY <1>4, AgregarDe
  <2> QED BY <2>1 DEF Paquete, h
<1> QED BY <1>5, <1>6 DEF q

(* What the kernel takes from such a packet. *)
LEMMA PaqueteRecibido ==
  ASSUME NEW codigo, NEW pid \in Campo, NEW m \in Contexto, NEW e \in Seq(Campo)
  PROVE  LET b == Paquete(codigo, pid, m, e).buffer
         IN  /\ contexto(buffer_desempaquetar_contexto_ejecucion(b)) = m
             /\ buffer_desempaquetar_contexto_ejecucion(b) = t_pcb(pid, m)
             /\ buffer_actualizar(b, CAMPOS) = e
<1> DEFINE b == Paquete(codigo, pid, m, e).buffer
<1>1. m.pc \in Nat /\ m.registros \in [Nombres -> Nat]
      /\ m = [pc |-> m.pc, registros |-> m.registros]
  BY DEF Contexto
<1>2. b = Encabezado(pid, m) \o e
  BY DEF Paquete
<1> HIDE DEF b
<1>3. buffer_desempaquetar_contexto_ejecucion(b) = t_pcb(pid, m)
      /\ buffer_actualizar(b, CAMPOS) = e
  BY <1>1, <1>2, ContextoDesempaquetado
<1>4. contexto(t_pcb(pid, m)) = m
  BY <1>1 DEF contexto, t_pcb
<1> QED BY <1>3, <1>4 DEF b

-----------------------------------------------------------------------------
(* What an instruction of I/O asks for.                                    *)

(* dirs are the physical addresses and the bytes of the pieces of ts. *)
Traduce(p, ts, dirs) ==
  \A k \in 1 .. Len(ts) : dirs[2 * k - 1] = obtener_df(p, ts[k].dl) /\ dirs[2 * k] = ts[k].bytes

(* o is what p asks for with the instruction i and the registers of m. *)
EsPedido(p, m, i, o) ==
  /\ Completa(i.code, o)
  /\ o.nombre = t_pedido(m, i).nombre
  /\ o.numeros = t_pedido(m, i).numeros
  /\ i.code \in ConDirecciones =>
       LET dl == leer_reg(m, i.r)
           t == leer_reg(m, i.s)
           ts == mmu_agregar_dirs(dl, t)
       IN  tiene(dl, t) /\ o.cantidad = Len(ts) /\ Traduce(p, ts, o.dirs)

(* The number of pieces that the CPU announces, and the pieces. *)
LEMMA DireccionesDe ==
  ASSUME NEW r, NEW s, NEW p \in Procesos, pcb.pid = p,
         pcb.registros \in [Nombres -> Nat], tiene(leer_reg(pcb, r), leer_reg(pcb, s))
  PROVE  LET ts == mmu_agregar_dirs(leer_reg(pcb, r), leer_reg(pcb, s))
         IN  \E dirs \in Seq(Nat) :
               /\ Len(ts) \in Nat /\ Len(dirs) = 2 * Len(ts)
               /\ direcciones(r, s) = <<Len(ts)>> \o dirs
               /\ Traduce(p, ts, dirs)
<1> DEFINE dl == leer_reg(pcb, r)
           t == leer_reg(pcb, s)
           ts == mmu_agregar_dirs(dl, t)
           n == Len(ts)
           dirs == [k \in 1 .. 2 * n |-> IF k % 2 = 1 THEN obtener_df(p, ts[(k + 1) \div 2].dl)
                                         ELSE ts[k \div 2].bytes]
<1>1. dl \in Nat /\ t \in Nat
  BY LeerRegNat
<1>2. direcciones(r, s) = <<obtener_cantidad_dirs(dl, t)>> \o dirs
  BY DEF direcciones
<1>3. tiene(dl, t)
  OBVIOUS
<1> HIDE DEF dl, t
<1>4. Corta(ts, dl, dl, dl + t, offset(dl), offset(dl))
  <2>1. offset(dl) \in 0 .. tamanio_pagina - 1
    BY <1>1, OffsetDe
  <2> QED BY <1>1, <2>1, TrozosCortan DEF mmu_agregar_dirs
<1> HIDE DEF ts
<1>5. n = obtener_cantidad_dirs(dl, t)
  BY <1>1, <1>4, CantidadDeTrozos
<1>6. n \in Nat /\ ts \in Seq(Trozo)
  BY <1>4, LenProperties DEF Corta
<1>7. ASSUME NEW k \in 1 .. n
      PROVE  ts[k].dl \in 0 .. TamProceso - 1 /\ ts[k].bytes \in Nat \ {0}
  <2>1. ts[k] \in Trozo
    BY <1>6, ElementOfSeq
  <2>2. ts[k].dl \in Nat /\ ts[k].bytes \in Nat \ {0} /\ ts[k].dl + ts[k].bytes <= dl + t
        /\ dl <= ts[k].dl
    BY <1>4, <2>1 DEF Trozo, Corta
  <2>3. TamProceso \in Nat
    BY TamProcesoDe
  <2>4. t > 0
    BY <1>1, <2>2
  <2> QED BY <1>1, <1>3, <2>2, <2>3, <2>4 DEF tiene
<1> HIDE DEF n
<1>8. ASSUME NEW k \in 1 .. 2 * n
      PROVE  dirs[k] \in Nat
  <2>1. CASE k % 2 = 1
    <3>1. (k + 1) \div 2 \in 1 .. n
      BY <1>6, <2>1
    <3>2. obtener_df(p, ts[(k + 1) \div 2].dl) \in Nat
      BY <1>7, <3>1, DireccionDe, CicloCPUAssumption
    <3> QED BY <2>1, <3>2
  <2>2. CASE k % 2 # 1
    <3>1. k \div 2 \in 1 .. n
      BY <1>6, <2>2
    <3> QED BY <1>7, <2>2, <3>1
  <2> QED BY <2>1, <2>2
<1>9. dirs \in Seq(Nat) /\ Len(dirs) = 2 * n
  <2>1. 2 * n \in Nat
    BY <1>6
  <2>2. dirs = [k \in 1 .. 2 * n |-> dirs[k]]
    OBVIOUS
  <2> HIDE DEF dirs
  <2> QED BY <1>8, <2>1, <2>2
<1>10. Traduce(p, ts, dirs)
  <2> SUFFICES ASSUME NEW k \in 1 .. n
               PROVE  dirs[2 * k - 1] = obtener_df(p, ts[k].dl) /\ dirs[2 * k] = ts[k].bytes
    BY DEF Traduce, n
  <2>1. /\ 2 * k - 1 \in 1 .. 2 * n /\ (2 * k - 1) % 2 = 1 /\ (2 * k - 1 + 1) \div 2 = k
        /\ 2 * k \in 1 .. 2 * n /\ (2 * k) % 2 # 1 /\ (2 * k) \div 2 = k
    BY <1>6
  <2> QED BY <2>1
<1> HIDE DEF dirs
<1>11. direcciones(r, s) = <<Len(ts)>> \o dirs
  BY <1>2, <1>5 DEF n
<1> QED BY <1>6, <1>9, <1>10, <1>11 DEF n, ts, dl, t

-----------------------------------------------------------------------------
(* The invariant.                                                          *)

Estados == {"READY", "EXEC", "BLOCKED", "EXIT"}

Tipos ==
  /\ programa \in Cargas
  /\ espacio \in Espacio
  /\ estado \in [Procesos -> Estados]
  /\ contextos \in [Procesos -> Contexto]
  /\ DOMAIN solicitudes = Procesos
  /\ linea \in {"recibe", "ejecuta", "chequea"}
  /\ pcb \in [pid : Procesos \cup {Nadie}, pc : Nat, registros : [Nombres -> Nat]]
  /\ linea # "recibe" => pcb.pid \in Procesos
  /\ diccionario_interrupciones \in [Procesos -> {"nada"} \cup Interrupciones]

(* The CPU has no context that was not sent, or forgets the interrupts of  *)
(* the one it sent.                                                        *)
CpuLibre == linea = "recibe" \/ (linea = "chequea" /\ salir_ciclo_instruccion = TRUE)
CpuOcupada == linea # "recibe" /\ salir_ciclo_instruccion = FALSE

(* The request that the instruction before the program counter makes, with *)
(* the registers of m.                                                     *)
Pide(prog, p, m, o) == EsPedido(p, m, prog[p][m.pc], o)
codigo_de(prog, p, m) == prog[p][m.pc].code

(* The packets that the CPU sends of a process p with the program prog.    *)
Finales == {"SUCCESS", "OUT_OF_MEMORY"} \cup {"INTERRUPT_QUANTUM", "INTERRUPT_USER"}
SaleCon(prog, p, m, codigo, e) ==
  \/ codigo \in Finales /\ e = <<>>
  \/ codigo \in {"COP_WAIT", "COP_SIGNAL"} /\ Len(e) = 1
  \/ /\ codigo = "IO"
     /\ \E o : /\ Pide(prog, p, m, o)
               /\ e = <<"interfaz", codigo_de(prog, p, m)>> \o Cuerpo(codigo_de(prog, p, m), o)
Saliente(q, prog, p) ==
  \E m \in Contexto, e \in Seq(Campo) : \E codigo :
    q = Paquete(codigo, p, m, e) /\ SaleCon(prog, p, m, codigo, e)

(* While the planner waits, the context is in one place: in the socket to  *)
(* the CPU, in the CPU or in the packet that comes back.                   *)
Ida ==
  /\ alCpu = <<Paquete("CONTEXTO_DE_EJECUCION", ejecutando, contextos[ejecutando], <<>>)>>
  /\ alKernel = <<>> /\ CpuLibre
EnCpu == alCpu = <<>> /\ alKernel = <<>> /\ CpuOcupada /\ pcb.pid = ejecutando
Vuelta ==
  /\ alCpu = <<>> /\ CpuLibre
  /\ \E q : alKernel = <<q>> /\ Saliente(q, programa, ejecutando)
Turno ==
  \/ espera = FALSE /\ alCpu = <<>> /\ alKernel = <<>> /\ CpuLibre
  \/ /\ espera = TRUE /\ ejecutando \in Procesos /\ estado[ejecutando] = "EXEC"
     /\ Ida \/ EnCpu \/ Vuelta

(* A request as the kernel sends it to the interface. *)
Solicitud(p, op, o) == [codigo_operacion |-> op, buffer |-> <<p>> \o Cuerpo(op, o)]

(* A process with a request waits for what its last instruction asked for. *)
EnEspera(p) ==
  /\ estado[p] = "BLOCKED"
  /\ \E o : /\ Pide(programa, p, contextos[p], o)
            /\ solicitudes[p] = Solicitud(p, codigo_de(programa, p, contextos[p]), o)
  /\ p = ejecutando /\ espera = FALSE => buffer = <<>>
Solicitudes == \A p \in Procesos : solicitudes[p] # Nadie => EnEspera(p)

(* The bytes of the first k pieces of dirs. *)
Suma(f, dirs, n) ==
  /\ f \in [0 .. n -> Nat] /\ f[0] = 0
  /\ \A k \in 1 .. n : f[k] = f[k - 1] + dirs[2 * k]

(* The interface works on the request of a process, and has written, of    *)
(* the first pieces, as much as the text has (which may be longer than all *)
(* of them).                                                               *)
DeEntrada == [pid : Procesos, op : {"IO_STDIN_READ", "IO_FS_READ"}, direcciones : Seq(Nat),
              texto : Nat, leidos : Nat, indice : Nat]
Entrada ==
  entrada # Nadie =>
    /\ entrada \in DeEntrada
    /\ LET p == entrada.pid IN
       /\ solicitudes[p] # Nadie
       /\ entrada.op = codigo_de(programa, p, contextos[p])
       /\ \E o, f : /\ Pide(programa, p, contextos[p], o)
                    /\ solicitudes[p] = Solicitud(p, entrada.op, o)
                    /\ entrada.direcciones = o.dirs
                    /\ Suma(f, o.dirs, o.cantidad)
                    /\ entrada.indice <= o.cantidad
                    /\ entrada.op = "IO_FS_READ" => entrada.texto = f[o.cantidad]
                    /\ entrada.leidos = menor(f[entrada.indice], entrada.texto)

Inv == Tipos /\ Turno /\ Solicitudes /\ Entrada

-----------------------------------------------------------------------------
(* The instructions.                                                       *)

(* The value of a register depends on the registers only. *)
LEMMA LeerRegIgual ==
  ASSUME NEW m, NEW n, m.registros = n.registros, NEW r
  PROVE  leer_reg(m, r) = leer_reg(n, r)
BY DEF leer_reg, get_reg_chico, get_reg_grande, get_reg

(* What the CPU works on: the program counter is in the program, so it     *)
(* goes on without starting again at 0.                                    *)
LEMMA InstruccionDe ==
  ASSUME Tipos, hay_instruccion
  PROVE  /\ pcb.pid \in Procesos /\ pcb.pid \in Campo
         /\ instruccion \in Instruccion
         /\ pcb.pc \in Nat /\ pcb.registros \in [Nombres -> Nat]
         /\ contexto(pcb) \in Contexto
         /\ contexto(pcb).pc = pcb.pc /\ contexto(pcb).registros = pcb.registros
         /\ avanzar(contexto(pcb)) \in Contexto
         /\ avanzar(contexto(pcb)).pc = pcb.pc + 1
         /\ avanzar(contexto(pcb)).registros = pcb.registros
<1>1. linea = "ejecuta" /\ pcb.pc < Len(programa[pcb.pid])
  BY DEF hay_instruccion
<1>2. pcb.pid \in Procesos /\ pcb.pc \in Nat /\ pcb.registros \in [Nombres -> Nat]
  BY <1>1 DEF Tipos
<1>3. programa \in Cargas /\ programa \in [Procesos -> Seq(Instruccion)]
  BY CicloCPUAssumption DEF Tipos
<1>4. programa[pcb.pid] \in Seq(Instruccion) /\ Len(programa[pcb.pid]) < GRANDE
  BY <1>2, <1>3, CicloCPUAssumption
<1>5. Len(programa[pcb.pid]) \in Nat
  BY <1>4, LenProperties
<1>6. pcb.pc + 1 \in 1 .. Len(programa[pcb.pid])
  BY <1>1, <1>2, <1>5
<1>7. instruccion \in Instruccion
  <2>1. programa[pcb.pid][pcb.pc + 1] \in Instruccion
    BY <1>4, <1>6, ElementOfSeq
  <2> QED BY <2>1 DEF instruccion
<1>8. /\ contexto(pcb) \in Contexto
      /\ contexto(pcb).pc = pcb.pc /\ contexto(pcb).registros = pcb.registros
  BY <1>2 DEF contexto, Contexto
<1>9. (pcb.pc + 1) % GRANDE = pcb.pc + 1
  <2>1. pcb.pc + 1 \in Nat /\ pcb.pc + 1 < GRANDE /\ GRANDE \in Nat
    BY <1>2, <1>4, <1>5, <1>6, RegistrosAssumption
  <2> QED BY <2>1, RestoIgual
<1>10. /\ avanzar(contexto(pcb)) \in Contexto
       /\ avanzar(contexto(pcb)).pc = pcb.pc + 1
       /\ avanzar(contexto(pcb)).registros = pcb.registros
  BY <1>8, <1>9, AvanzarContexto
<1> QED BY <1>2, <1>7, <1>8, <1>10 DEF Campo

(* MOV_IN leaves in the register the bytes of the process at the address.  *)
LEMMA MovInDe ==
  ASSUME Tipos, ejecutarMovIn
  PROVE  LET i == instruccion
             dl == leer_reg(pcb, i.s)
             t == tamanio_reg(i.r)
             m == escribir_reg(contexto(pcb), i.r, de_bytes(Lectura(pcb.pid, dl, t)))
         IN  /\ dl \in Nat /\ t \in Nat \ {0} /\ dl + t <= TamProceso
             /\ m \in Contexto /\ sigue(m)
<1> DEFINE i == instruccion
           dl == leer_reg(pcb, i.s)
           t == tamanio_reg(i.r)
           ts == mover_registro(dl, t)
           v == Lectura(pcb.pid, dl, t)
           m == escribir_reg(contexto(pcb), i.r, de_bytes(v))
<1>1. hay_instruccion /\ tiene(dl, t)
      /\ sigue(escribir_reg(contexto(pcb), i.r, de_bytes(mmu_leer(pcb.pid, ts))))
  BY DEF ejecutarMovIn
<1>2. dl \in Nat
  BY <1>1, InstruccionDe, LeerRegNat
<1>3. t \in Nat \ {0} /\ t <= tamanio_pagina
  BY RegistrosAssumption, FragmentosAssumption, CicloCPUAssumption DEF tamanio_reg
<1> HIDE DEF dl, t
<1>4. Cubre(ts, dl, dl + t)
  BY <1>2, <1>3, MoverRegistroCubre
<1>5. dl + t <= TamProceso
  BY <1>1, <1>3 DEF tiene
<1> HIDE DEF ts
<1>6. pcb.pid \in Procesos /\ espacio \in Espacio
  BY <1>1, InstruccionDe DEF Tipos
<1>7. mmu_leer(pcb.pid, ts) = v
  <2> DEFINE fin == dl + t
  <2>1. fin \in Nat /\ fin - dl = t
    BY <1>2, <1>3
  <2>2. Cubre(ts, dl, fin) /\ fin <= TamProceso
    BY <1>4, <1>5
  <2> HIDE DEF fin
  <2>3. mmu_leer(pcb.pid, ts) = Lectura(pcb.pid, dl, fin - dl)
    BY <1>2, <1>6, <2>1, <2>2, MmuLeer
  <2> QED BY <2>1, <2>3
<1>8. v \in Seq(Bytes)
  BY <1>2, <1>3, <1>5, <1>6, LecturaSeq
<1> HIDE DEF v, i
<1>9. de_bytes(v) \in Nat
  BY <1>8, DeBytesNat
<1>10. m \in Contexto /\ sigue(m)
  <2>1. m \in Contexto
    BY <1>1, <1>9, InstruccionDe, EscribirRegContexto
  <2> QED BY <1>1, <1>7, <2>1
<1> QED BY <1>2, <1>3, <1>5, <1>10 DEF m, v, dl, t, i

(* MOV_OUT leaves the bytes of the register at the address.                *)
LEMMA MovOutDe ==
  ASSUME Tipos, ejecutarMovOut
  PROVE  LET i == instruccion
             dl == leer_reg(pcb, i.r)
             t == tamanio_reg(i.s)
             dato == a_bytes(leer_reg(pcb, i.s), t)
         IN  /\ dl \in Nat /\ t \in Nat \ {0} /\ dl + t <= TamProceso
             /\ Len(dato) = t /\ dato \in Seq(Bytes)
             /\ Escrito(espacio', pcb.pid, dl, t, dato)
             /\ sigue(contexto(pcb))
<1> DEFINE i == instruccion
           dl == leer_reg(pcb, i.r)
           t == tamanio_reg(i.s)
           ts == mover_registro(dl, t)
           dato == a_bytes(leer_reg(pcb, i.s), t)
<1>1. hay_instruccion /\ tiene(dl, t) /\ sigue(contexto(pcb))
      /\ espacio' = mmu_escribir(pcb.pid, ts, dato)
  BY DEF ejecutarMovOut
<1>2. dl \in Nat /\ leer_reg(pcb, i.s) \in Nat
  BY <1>1, InstruccionDe, LeerRegNat
<1>3. t \in Nat \ {0} /\ t <= tamanio_pagina
  BY RegistrosAssumption, FragmentosAssumption, CicloCPUAssumption DEF tamanio_reg
<1> HIDE DEF dl, t, i
<1>4. Cubre(ts, dl, dl + t)
  BY <1>2, <1>3, MoverRegistroCubre
<1>5. dl + t <= TamProceso
  BY <1>1, <1>3 DEF tiene
<1>8. dato \in Seq(Bytes) /\ Len(dato) = t
  BY <1>2, <1>3, ABytesSeq
<1> HIDE DEF ts, dato
<1>6. pcb.pid \in Procesos /\ espacio \in Espacio
  BY <1>1, InstruccionDe DEF Tipos
<1>7. Escrito(mmu_escribir(pcb.pid, ts, dato), pcb.pid, dl, t, dato)
  <2> DEFINE fin == dl + t
  <2>1. fin \in Nat /\ fin - dl = t /\ Len(dato) = fin - dl
    BY <1>2, <1>3, <1>8
  <2>2. Cubre(ts, dl, fin) /\ fin <= TamProceso
    BY <1>4, <1>5
  <2> HIDE DEF fin
  <2>3. Escrito(mmu_escribir(pcb.pid, ts, dato), pcb.pid, dl, fin - dl, dato)
    BY <1>2, <1>6, <1>8, <2>1, <2>2, MmuEscribir
  <2> QED BY <2>1, <2>3
<1> QED BY <1>1, <1>2, <1>3, <1>5, <1>7, <1>8 DEF dato, dl, t, i

(* COPY_STRING leaves the bytes at SI, as they were, at DI.                *)
LEMMA CopyStringDe ==
  ASSUME Tipos, ejecutarCopyString
  PROVE  LET si == get_reg(pcb, "SI")
             di == get_reg(pcb, "DI")
             t == instruccion.n
             cadena == Lectura(pcb.pid, si, t)
         IN  /\ si \in Nat /\ di \in Nat /\ t \in Nat
             /\ t > 0 => si + t <= TamProceso /\ di + t <= TamProceso
             /\ Len(cadena) = t
             /\ Escrito(espacio', pcb.pid, di, t, cadena)
             /\ sigue(contexto(pcb))
<1> DEFINE si == get_reg(pcb, "SI")
           di == get_reg(pcb, "DI")
           t == instruccion.n
           ts == copy_string(si, t)
           us == copy_string(di, t)
           cadena == Lectura(pcb.pid, si, t)
<1>1. hay_instruccion /\ tiene(si, t) /\ tiene(di, t) /\ sigue(contexto(pcb))
      /\ espacio' = mmu_escribir(pcb.pid, us, mmu_leer(pcb.pid, ts))
  BY DEF ejecutarCopyString
<1>2. si \in Nat /\ di \in Nat /\ t \in Nat
  <2>1. pcb.registros \in [Nombres -> Nat] /\ instruccion \in Instruccion
    BY <1>1, InstruccionDe
  <2>2. "SI" \in Nombres /\ "DI" \in Nombres
    BY DEF Nombres, Indices
  <2>3. pcb.registros["SI"] \in Nat /\ pcb.registros["DI"] \in Nat
    BY <2>1, <2>2
  <2> QED BY <2>1, <2>3 DEF get_reg, Instruccion
<1> HIDE DEF si, di, t
<1>3. Cubre(ts, si, si + t) /\ Cubre(us, di, di + t)
  BY <1>2, CopyStringCubre
<1> HIDE DEF ts, us
<1>4. t > 0 => si + t <= TamProceso /\ di + t <= TamProceso
  BY <1>1 DEF tiene
<1>5. pcb.pid \in Procesos /\ espacio \in Espacio
  BY <1>1, InstruccionDe DEF Tipos
<1>6. mmu_leer(pcb.pid, ts) = cadena
  <2> DEFINE fin == si + t
  <2>1. fin \in Nat /\ fin - si = t /\ (si < fin => fin <= TamProceso)
    BY <1>2, <1>4
  <2>2. Cubre(ts, si, fin)
    BY <1>3
  <2> HIDE DEF fin
  <2>3. mmu_leer(pcb.pid, ts) = Lectura(pcb.pid, si, fin - si)
    BY <1>2, <1>5, <2>1, <2>2, MmuLeer
  <2> QED BY <2>1, <2>3
<1>7. cadena \in Seq(Bytes) /\ Len(cadena) = t
  BY <1>2, <1>4, <1>5, LecturaSeq
<1> HIDE DEF cadena
<1>8. Escrito(mmu_escribir(pcb.pid, us, cadena), pcb.pid, di, t, cadena)
  <2> DEFINE fin == di + t
  <2>1. fin \in Nat /\ fin - di = t /\ (di < fin => fin <= TamProceso) /\ Len(cadena) = fin - di
    BY <1>2, <1>4, <1>7
  <2>2. Cubre(us, di, fin)
    BY <1>3
  <2> HIDE DEF fin
  <2>3. Escrito(mmu_escribir(pcb.pid, us, cadena), pcb.pid, di, fin - di, cadena)
    BY <1>2, <1>5, <1>7, <2>1, <2>2, MmuEscribir
  <2> QED BY <2>1, <2>3
<1> QED BY <1>1, <1>2, <1>4, <1>6, <1>7, <1>8 DEF cadena, si, di, t

(* The numbers that an instruction of I/O adds to its packet. *)
numeros_de(i) ==
  t_pedido(contexto(pcb), i).numeros \o
  IF i.code \in ConDirecciones THEN direcciones(i.r, i.s) ELSE <<>>

(* Each one adds its own. *)
LEMMA PedirIoDe ==
  ASSUME Tipos,
         \/ ejecutarIoGenSleep \/ ejecutarStdRead \/ ejecutarStdWrite \/ ejecutarIOFsCreate
         \/ ejecutarIOFsDelete \/ ejecutarIOFsTruncate \/ ejecutarIOFsRead \/ ejecutarIOFsWrite
  PROVE  /\ hay_instruccion /\ instruccion.code \in DeEntradaSalida
         /\ pedir_io(instruccion.code, numeros_de(instruccion))
<1> DEFINE i == instruccion
           op == i.code
           N == t_pedido(contexto(pcb), i).numeros
<1>1. ASSUME NEW numeros, pedir_io(op, numeros) PROVE hay_instruccion
  BY <1>1 DEF pedir_io
<1>2. ASSUME NEW r PROVE leer_reg(contexto(pcb), r) = leer_reg(pcb, r)
  BY LeerRegIgual DEF contexto
<1>3. CASE ejecutarIoGenSleep
  <2>1. op = "IO_GEN_SLEEP" /\ pedir_io(op, <<i.n>>)
    BY <1>3 DEF ejecutarIoGenSleep, pedir_io
  <2>2. op \in DeEntradaSalida /\ numeros_de(i) = <<i.n>> \o <<>>
    BY <2>1 DEF numeros_de, t_pedido, DeEntradaSalida, ConDirecciones
  <2>3. numeros_de(i) = <<i.n>>
    BY <2>2
  <2> QED BY <1>1, <2>1, <2>2, <2>3
<1>4. CASE ejecutarIOFsTruncate
  <2>1. op = "IO_FS_TRUNCATE" /\ pedir_io(op, <<leer_reg(pcb, i.r)>>)
    BY <1>4 DEF ejecutarIOFsTruncate, pedir_io
  <2>2. /\ op \in DeEntradaSalida
        /\ N = <<leer_reg(pcb, i.r)>> /\ op \notin ConDirecciones
    BY <1>2, <2>1 DEF t_pedido, DeEntradaSalida, ConDirecciones, ConArchivo
  <2>3. numeros_de(i) = <<leer_reg(pcb, i.r)>>
    BY <2>2 DEF numeros_de
  <2> QED BY <1>1, <2>1, <2>2, <2>3
<1>5. CASE ejecutarIOFsCreate \/ ejecutarIOFsDelete
  <2>1. op \in {"IO_FS_CREATE", "IO_FS_DELETE"} /\ pedir_io(op, <<>>)
    BY <1>5 DEF ejecutarIOFsCreate, ejecutarIOFsDelete, pedir_io
  <2>2. op \in DeEntradaSalida /\ N = <<>> /\ op \notin ConDirecciones
    BY <2>1 DEF t_pedido, DeEntradaSalida, ConDirecciones, ConArchivo
  <2>3. numeros_de(i) = <<>>
    BY <2>2 DEF numeros_de
  <2> QED BY <1>1, <2>1, <2>2, <2>3
<1>6. CASE ejecutarStdRead \/ ejecutarStdWrite
  <2>1. op \in {"IO_STDIN_READ", "IO_STDOUT_WRITE"} /\ pedir_io(op, direcciones(i.r, i.s))
        /\ tiene(leer_reg(pcb, i.r), leer_reg(pcb, i.s))
    BY <1>6 DEF ejecutarStdRead, ejecutarStdWrite, pedir_io, ConDirecciones
  <2>2. op \in DeEntradaSalida /\ N = <<>> /\ op \in ConDirecciones
    BY <2>1 DEF t_pedido, DeEntradaSalida, ConDirecciones, ConArchivo
  <2>3. numeros_de(i) = <<>> \o direcciones(i.r, i.s)
    BY <2>2 DEF numeros_de
  <2>4. <<>> \o direcciones(i.r, i.s) = direcciones(i.r, i.s)
    <3>1. hay_instruccion
      BY <1>1, <2>1
    <3>2. \E dirs \in Seq(Nat) : \E n \in Nat : direcciones(i.r, i.s) = <<n>> \o dirs
      <4> DEFINE r == i.r
                 q == i.s
                 ts == mmu_agregar_dirs(leer_reg(pcb, r), leer_reg(pcb, q))
                 p == pcb.pid
      <4>1. p \in Procesos /\ pcb.registros \in [Nombres -> Nat]
            /\ tiene(leer_reg(pcb, r), leer_reg(pcb, q)) /\ pcb.pid = p
        BY <2>1, <3>1, InstruccionDe
      <4> HIDE DEF p, r, q
      <4>2. \E dirs \in Seq(Nat) : /\ Len(ts) \in Nat /\ Len(dirs) = 2 * Len(ts)
                                  /\ direcciones(r, q) = <<Len(ts)>> \o dirs
                                  /\ Traduce(p, ts, dirs)
        BY <4>1, DireccionesDe
      <4> HIDE DEF ts
      <4> QED BY <4>2 DEF r, q
    <3>3. direcciones(i.r, i.s) \in Seq(Nat)
      BY <3>2
    <3> QED BY <3>3, ConcatEmptySeq
  <2> QED BY <1>1, <2>1, <2>2, <2>3, <2>4
<1>7. CASE ejecutarIOFsRead \/ ejecutarIOFsWrite
  <2>1. /\ op \in {"IO_FS_READ", "IO_FS_WRITE"}
        /\ pedir_io(op, puntero_y_tamanio \o direcciones(i.r, i.s))
    BY <1>7 DEF ejecutarIOFsRead, ejecutarIOFsWrite, pedir_io
  <2>2. op \in DeEntradaSalida /\ N = puntero_y_tamanio /\ op \in ConDirecciones
    BY <1>2, <2>1 DEF t_pedido, DeEntradaSalida, ConDirecciones, ConArchivo, puntero_y_tamanio
  <2>3. numeros_de(i) = puntero_y_tamanio \o direcciones(i.r, i.s)
    BY <2>2 DEF numeros_de
  <2> QED BY <1>1, <2>1, <2>2, <2>3
<1> QED BY <1>3, <1>4, <1>5, <1>6, <1>7

(* The instruction makes a request, and its numbers are those of the       *)
(* request.                                                                *)
LEMMA HayPedido ==
  ASSUME Tipos, hay_instruccion, instruccion.code \in DeEntradaSalida,
         instruccion.code \in ConDirecciones =>
           tiene(leer_reg(pcb, instruccion.r), leer_reg(pcb, instruccion.s))
  PROVE  \E o : /\ EsPedido(pcb.pid, avanzar(contexto(pcb)), instruccion, o)
                /\ numeros_de(instruccion) =
                     o.numeros \o IF instruccion.code \in ConDirecciones
                                    THEN <<o.cantidad>> \o o.dirs ELSE <<>>
<1> DEFINE i == instruccion
           op == i.code
           p == pcb.pid
           m == avanzar(contexto(pcb))
           N == t_pedido(m, i).numeros
           ts == mmu_agregar_dirs(leer_reg(pcb, i.r), leer_reg(pcb, i.s))
           nombre == t_pedido(m, i).nombre
<1>1. /\ p \in Procesos /\ pcb.registros \in [Nombres -> Nat] /\ i \in Instruccion
      /\ m.registros = pcb.registros /\ contexto(pcb).registros = pcb.registros
  BY InstruccionDe
<1>2. ASSUME NEW r
      PROVE  /\ leer_reg(m, r) = leer_reg(pcb, r) /\ leer_reg(contexto(pcb), r) = leer_reg(pcb, r)
             /\ leer_reg(pcb, r) \in Nat
  BY <1>1, LeerRegIgual, LeerRegNat
<1>3. i.n \in Nat /\ i.nombre \in STRING
  BY <1>1 DEF Instruccion
<1> HIDE DEF i, m
<1>4. /\ N \in Seq(Nat) /\ Len(N) = cuantos(op)
      /\ N = t_pedido(contexto(pcb), i).numeros
  <2>1. CASE op = "IO_GEN_SLEEP"
    <3>1. N = <<i.n>> /\ t_pedido(contexto(pcb), i).numeros = <<i.n>> /\ cuantos(op) = 1
      BY <2>1 DEF t_pedido, cuantos
    <3> QED BY <1>3, <3>1
  <2>2. CASE op = "IO_FS_TRUNCATE"
    <3>1. /\ N = <<leer_reg(pcb, i.r)>> /\ cuantos(op) = 1
          /\ t_pedido(contexto(pcb), i).numeros = <<leer_reg(pcb, i.r)>>
      BY <1>2, <2>2 DEF t_pedido, cuantos
    <3> QED BY <1>2, <3>1
  <2>3. CASE op \in {"IO_FS_WRITE", "IO_FS_READ"}
    <3>1. /\ N = <<leer_reg(pcb, i.t), leer_reg(pcb, i.s)>> /\ cuantos(op) = 2
          /\ t_pedido(contexto(pcb), i).numeros = <<leer_reg(pcb, i.t), leer_reg(pcb, i.s)>>
      BY <1>2, <2>3 DEF t_pedido, cuantos
    <3> QED BY <1>2, <3>1
  <2>4. CASE op \notin {"IO_GEN_SLEEP", "IO_FS_TRUNCATE", "IO_FS_WRITE", "IO_FS_READ"}
    <3>1. N = <<>> /\ t_pedido(contexto(pcb), i).numeros = <<>> /\ cuantos(op) = 0
      BY <2>4 DEF t_pedido, cuantos
    <3> QED BY <3>1
  <2> QED BY <2>1, <2>2, <2>3, <2>4
<1>5. nombre \in Textos /\ (op \notin ConArchivo => nombre = SinNombre)
  <2>1. nombre = IF op \in ConArchivo THEN i.nombre ELSE SinNombre
    BY DEF t_pedido
  <2> HIDE DEF nombre
  <2> QED BY <1>3, <2>1 DEF Textos
<1>6. \E n \in Nat, dirs \in Seq(Nat) :
        /\ Len(dirs) = 2 * n
        /\ op \notin ConDirecciones => n = 0
        /\ op \in ConDirecciones =>
             n = Len(ts) /\ direcciones(i.r, i.s) = <<n>> \o dirs /\ Traduce(p, ts, dirs)
  <2>1. CASE op \notin ConDirecciones
    <3>1. <<>> \in Seq(Nat) /\ Len(<<>>) = 2 * 0
      OBVIOUS
    <3> QED BY <2>1, <3>1
  <2>2. CASE op \in ConDirecciones
    <3>1. tiene(leer_reg(pcb, i.r), leer_reg(pcb, i.s))
      BY <2>2 DEF i
    <3> DEFINE r == i.r
               s == i.s
    <3>2. tiene(leer_reg(pcb, r), leer_reg(pcb, s)) /\ pcb.pid = p
      BY <3>1
    <3> HIDE DEF r, s, p
    <3>3. LET us == mmu_agregar_dirs(leer_reg(pcb, r), leer_reg(pcb, s))
          IN  \E dirs \in Seq(Nat) : /\ Len(us) \in Nat /\ Len(dirs) = 2 * Len(us)
                                     /\ direcciones(r, s) = <<Len(us)>> \o dirs
                                     /\ Traduce(p, us, dirs)
      BY <1>1, <3>2, DireccionesDe
    <3>4. \E dirs \in Seq(Nat) : /\ Len(ts) \in Nat /\ Len(dirs) = 2 * Len(ts)
                                 /\ direcciones(i.r, i.s) = <<Len(ts)>> \o dirs
                                 /\ Traduce(p, ts, dirs)
      BY <3>3 DEF r, s
    <3> HIDE DEF ts
    <3> QED BY <2>2, <3>4
  <2> QED BY <2>1, <2>2
<1>7. PICK n \in Nat, dirs \in Seq(Nat) :
        /\ Len(dirs) = 2 * n
        /\ op \notin ConDirecciones => n = 0
        /\ op \in ConDirecciones =>
             n = Len(ts) /\ direcciones(i.r, i.s) = <<n>> \o dirs /\ Traduce(p, ts, dirs)
  BY <1>6
<1> DEFINE o == [nombre |-> nombre, numeros |-> N, cantidad |-> n, dirs |-> dirs, buffer |-> <<>>]
<1>8. o.nombre = nombre /\ o.numeros = N /\ o.cantidad = n /\ o.dirs = dirs
  OBVIOUS
<1>9. o \in Operacion
  <2> HIDE DEF N, nombre
  <2> QED BY <1>4, <1>5 DEF Operacion
<1> HIDE DEF o, N, nombre
<1>10. Completa(op, o)
  <2>1. op \in DeEntradaSalida
    BY DEF i
  <2> QED BY <1>4, <1>5, <1>7, <1>8, <1>9, <2>1 DEF Completa
<1>11. EsPedido(p, m, i, o)
  <2>1. op \in ConDirecciones =>
          /\ tiene(leer_reg(pcb, i.r), leer_reg(pcb, i.s))
          /\ o.cantidad = Len(ts) /\ Traduce(p, ts, o.dirs)
    BY <1>7, <1>8 DEF i
  <2>2. leer_reg(m, i.r) = leer_reg(pcb, i.r) /\ leer_reg(m, i.s) = leer_reg(pcb, i.s)
    BY <1>2
  <2> QED BY <1>8, <1>10, <2>1, <2>2 DEF EsPedido, N, nombre
<1>12. numeros_de(i) = o.numeros \o IF op \in ConDirecciones THEN <<o.cantidad>> \o o.dirs ELSE <<>>
  BY <1>4, <1>7, <1>8 DEF numeros_de
<1> QED BY <1>11, <1>12 DEF i, m

(* The packet of an I/O goes out with the request of the instruction, and  *)
(* the context that follows it.                                            *)
LEMMA PedirIoSale ==
  ASSUME Tipos, hay_instruccion, instruccion.code \in DeEntradaSalida,
         pedir_io(instruccion.code, numeros_de(instruccion))
  PROVE  LET m == avanzar(contexto(pcb)) IN
         /\ terminar_instruccion(m)
         /\ \E o : /\ EsPedido(pcb.pid, m, instruccion, o)
                   /\ enviar_y_salir(Paquete("IO", pcb.pid, m,
                        <<"interfaz", instruccion.code>> \o Cuerpo(instruccion.code, o)))
<1> DEFINE i == instruccion
           op == i.code
           m == avanzar(contexto(pcb))
           num == numeros_de(i)
           q == con_contexto("IO", m)
           r == agregar_a_paquete(q, <<"interfaz", op>>)
<1>1. /\ terminar_instruccion(m)
      /\ enviar_y_salir(agregar_operacion(r, op, i.nombre, num))
      /\ op \in ConDirecciones => tiene(leer_reg(pcb, i.r), leer_reg(pcb, i.s))
  BY DEF pedir_io
<1>2. PICK o : /\ EsPedido(pcb.pid, m, i, o)
               /\ num = o.numeros \o IF op \in ConDirecciones
                                       THEN <<o.cantidad>> \o o.dirs ELSE <<>>
  BY <1>1, HayPedido
<1>3. /\ pcb.pid \in Campo /\ m.pc \in Nat /\ m.registros \in [Nombres -> Nat]
  BY InstruccionDe DEF Contexto
<1> DEFINE e == <<"interfaz", op>>
           c == Cuerpo(op, o)
           h == Encabezado(pcb.pid, m)
<1>4. e \in Seq(Campo)
  <2>1. "interfaz" \in Campo /\ op \in Campo
    BY <1>3 DEF Campo
  <2> HIDE DEF op
  <2> QED BY <2>1
<1>5. c \in Seq(Campo)
  BY <1>2, OperacionDesempaquetada DEF EsPedido
<1>6. h \in Seq(Campo)
  BY <1>3, EncabezadoSeq
<1>7. c = (IF op \in ConArchivo THEN <<i.nombre>> ELSE <<>>) \o num
  <2>1. op \in ConArchivo => o.nombre = i.nombre
    BY <1>2 DEF EsPedido, t_pedido
  <2> QED BY <1>2, <2>1 DEF Cuerpo
<1> HIDE DEF num, m, i
<1>8. r = [codigo_operacion |-> "IO", buffer |-> h \o e]
  <2> HIDE DEF e
  <2>1. r = Paquete("IO", pcb.pid, m, e)
    BY <1>3, <1>4, PaqueteDe DEF con_contexto, e
  <2> QED BY <2>1 DEF Paquete
<1> HIDE DEF r, e, c, h
<1>9. agregar_operacion(r, op, i.nombre, num)
        = [codigo_operacion |-> "IO", buffer |-> (h \o e) \o c]
  <2>1. agregar_operacion(r, op, i.nombre, num) = agregar_a_paquete(r, c)
    BY <1>7 DEF agregar_operacion
  <2> QED BY <1>8, <2>1, AgregarDe
<1>10. (h \o e) \o c = h \o (e \o c)
  BY <1>4, <1>5, <1>6, ConcatAssociative
<1>11. agregar_operacion(r, op, i.nombre, num) = Paquete("IO", pcb.pid, m, e \o c)
  BY <1>9, <1>10 DEF Paquete, h
<1> QED BY <1>1, <1>2, <1>11 DEF e, c, m, i

(* What an instruction leaves the memory with: what the other processes    *)
(* have does not change.                                                   *)
SoloDe(p, e) ==
  /\ e \in Espacio
  /\ \A q \in Procesos : \A x \in 0 .. TamProceso - 1 :
       q # p => e[obtener_df(q, x)] = espacio[obtener_df(q, x)]

(* Bytes written in p at consecutive addresses leave the other processes   *)
(* as they were.                                                           *)
LEMMA EscritoSolo ==
  ASSUME NEW p \in Procesos, NEW a \in Nat, NEW m \in Nat, m > 0 => a + m <= TamProceso,
         NEW dato, NEW e, Escrito(e, p, a, m, dato)
  PROVE  SoloDe(p, e)
<1>1. TamProceso \in Nat
  BY TamProcesoDe
<1>2. ASSUME NEW q \in Procesos, NEW x \in 0 .. TamProceso - 1, q # p
      PROVE  e[obtener_df(q, x)] = espacio[obtener_df(q, x)]
  <2>1. obtener_df(q, x) \in 0 .. TAM_MEMORIA - 1
    BY DireccionDe
  <2>2. ASSUME NEW y \in a .. a + m - 1
        PROVE  obtener_df(p, y) # obtener_df(q, x)
    <3>1. y \in 0 .. TamProceso - 1
      BY <1>1
    <3> QED BY <1>2, <3>1, DireccionUnica
  <2> QED BY <2>1, <2>2 DEF Escrito
<1> QED BY <1>2 DEF Escrito, SoloDe

(* An instruction goes on with a context, or leaves with a packet.         *)
PasoSigue ==
  /\ hay_instruccion /\ SoloDe(pcb.pid, espacio')
  /\ \E m \in Contexto : sigue(m)
PasoSale ==
  /\ hay_instruccion
  /\ \E m \in Contexto : terminar_instruccion(m)
  /\ \E q : Saliente(q, programa, pcb.pid) /\ enviar_y_salir(q)

(* execute (cpu_ciclo_instruccion.c) goes on with a context, or leaves the *)
(* cycle with a packet of the instruction; its writes stay in its process. *)
LEMMA EjecutarPasos ==
  ASSUME Tipos, execute
  PROVE  PasoSigue \/ PasoSale
<1> DEFINE p == pcb.pid
           c == contexto(pcb)
<1>1. ASSUME hay_instruccion
      PROVE  /\ p \in Procesos /\ p \in Campo /\ instruccion \in Instruccion
             /\ c \in Contexto /\ pcb.pc \in Nat /\ pcb.registros \in [Nombres -> Nat]
             /\ avanzar(c) \in Contexto
             /\ c.pc = pcb.pc /\ c.registros = pcb.registros
             /\ avanzar(c).pc = pcb.pc + 1
             /\ avanzar(c).pc \in Nat /\ avanzar(c).registros \in [Nombres -> Nat]
  <2>1. pcb.pc + 1 \in Nat
    BY <1>1, InstruccionDe
  <2> QED BY <1>1, <2>1, InstruccionDe
<1>2. espacio \in Espacio /\ SoloDe(p, espacio)
  BY DEF Tipos, SoloDe
<1>3. \A f : Saliente(f, programa, p) <=>
        \E m \in Contexto, e \in Seq(Campo) : \E codigo :
          f = Paquete(codigo, p, m, e) /\ SaleCon(programa, p, m, codigo, e)
  BY DEF Saliente
<1>4. CASE ejecutar_registros
  <2>1. hay_instruccion /\ instruccion.code \in DeRegistros /\ sigue(operar(c, instruccion))
        /\ espacio' = espacio
    BY <1>4 DEF ejecutar_registros
  <2>2. operar(c, instruccion) \in Contexto
    BY <1>1, <2>1, OperarContexto
  <2> QED BY <1>2, <2>1, <2>2 DEF PasoSigue
<1>5. CASE ejecutarMovIn
  <2>1. hay_instruccion /\ espacio' = espacio
    BY <1>5 DEF ejecutarMovIn
  <2>2. \E m \in Contexto : sigue(m)
    BY <1>5, MovInDe
  <2> QED BY <1>2, <2>1, <2>2 DEF PasoSigue
<1>6. CASE ejecutarMovOut
  <2>1. hay_instruccion
    BY <1>6 DEF ejecutarMovOut
  <2> DEFINE dl == leer_reg(pcb, instruccion.r)
             t == tamanio_reg(instruccion.s)
             dato == a_bytes(leer_reg(pcb, instruccion.s), t)
  <2>2. /\ dl \in Nat /\ t \in Nat \ {0} /\ dl + t <= TamProceso
        /\ Escrito(espacio', p, dl, t, dato)
        /\ sigue(c)
    BY <1>6, MovOutDe
  <2> HIDE DEF dl, t, dato
  <2>3. SoloDe(p, espacio')
    BY <1>1, <2>1, <2>2, EscritoSolo
  <2> QED BY <1>1, <2>1, <2>2, <2>3 DEF PasoSigue
<1>7. CASE ejecutarCopyString
  <2>1. hay_instruccion
    BY <1>7 DEF ejecutarCopyString
  <2> DEFINE di == get_reg(pcb, "DI")
             t == instruccion.n
             dato == Lectura(p, get_reg(pcb, "SI"), t)
  <2>2. /\ di \in Nat /\ t \in Nat /\ (t > 0 => di + t <= TamProceso)
        /\ Escrito(espacio', p, di, t, dato)
        /\ sigue(c)
    BY <1>7, CopyStringDe
  <2> HIDE DEF di, t, dato
  <2>3. SoloDe(p, espacio')
    BY <1>1, <2>1, <2>2, EscritoSolo
  <2> QED BY <1>1, <2>1, <2>2, <2>3 DEF PasoSigue
<1>8. ASSUME NEW codigo, codigo \in {"SUCCESS", "OUT_OF_MEMORY"}, hay_instruccion
      PROVE  Saliente(con_contexto(codigo, pcb), programa, p)
  <2>1. con_contexto(codigo, pcb) = Paquete(codigo, p, pcb, <<>>)
    <3>1. <<>> \in Seq(Campo)
      OBVIOUS
    <3> QED BY <1>1, <1>8, <3>1, PaqueteDe DEF con_contexto
  <2>2. Encabezado(p, pcb) = Encabezado(p, c)
    BY <1>1, <1>8 DEF Encabezado
  <2>3. con_contexto(codigo, pcb) = Paquete(codigo, p, c, <<>>)
    BY <2>1, <2>2 DEF Paquete
  <2>4. SaleCon(programa, p, c, codigo, <<>>)
    BY <1>8 DEF SaleCon, Finales
  <2>5. <<>> \in Seq(Campo)
    OBVIOUS
  <2> QED BY <1>1, <1>3, <1>8, <2>3, <2>4, <2>5
<1>9. CASE ejecutarResize
  <2>1. CASE sigue(c) /\ espacio' = espacio
    <3>1. hay_instruccion
      BY <1>9 DEF ejecutarResize
    <3> QED BY <1>1, <1>2, <2>1, <3>1 DEF PasoSigue
  <2>2. CASE enviar_y_salir(con_contexto("OUT_OF_MEMORY", pcb)) /\ terminar_instruccion(c)
    <3>1. hay_instruccion
      BY <1>9 DEF ejecutarResize
    <3> QED BY <1>1, <1>8, <2>2, <3>1 DEF PasoSale
  <2> QED BY <1>9, <2>1, <2>2 DEF ejecutarResize
<1>10. CASE ejecutar_exit
  <2>1. hay_instruccion /\ enviar_y_salir(con_contexto("SUCCESS", pcb)) /\ terminar_instruccion(c)
    BY <1>10 DEF ejecutar_exit
  <2> QED BY <1>1, <1>8, <2>1 DEF PasoSale
<1>11. CASE ejecutar_recurso
  <2> DEFINE m == avanzar(c)
             codigo == motivo_de(instruccion.code)
             e == <<instruccion.nombre>>
             q == agregar_a_paquete(con_contexto(codigo, m), e)
  <2>1. /\ hay_instruccion /\ instruccion.code \in DeRecursos
        /\ enviar_y_salir(q) /\ terminar_instruccion(m)
    BY <1>11 DEF ejecutar_recurso
  <2>2. e \in Seq(Campo) /\ Len(e) = 1
    <3>1. instruccion.nombre \in Campo
      BY <1>1, <2>1 DEF Instruccion, Campo, Textos
    <3> QED BY <3>1
  <2>3. codigo \in {"COP_WAIT", "COP_SIGNAL"}
    BY <2>1 DEF motivo_de, DeRecursos
  <2> HIDE DEF codigo, e, m
  <2>4. q = Paquete(codigo, p, m, e)
    BY <1>1, <2>1, <2>2, PaqueteDe DEF con_contexto, m
  <2>5. SaleCon(programa, p, m, codigo, e)
    BY <2>2, <2>3 DEF SaleCon
  <2>6. m \in Contexto
    BY <1>1, <2>1 DEF m
  <2>7. Saliente(q, programa, p)
    BY <1>3, <2>2, <2>4, <2>5, <2>6
  <2> QED BY <2>1, <2>6, <2>7 DEF PasoSale
<1>12. CASE \/ ejecutarIoGenSleep \/ ejecutarStdRead \/ ejecutarStdWrite \/ ejecutarIOFsCreate
            \/ ejecutarIOFsDelete \/ ejecutarIOFsTruncate \/ ejecutarIOFsRead
            \/ ejecutarIOFsWrite
  <2> DEFINE m == avanzar(c)
             i == instruccion
  <2>1. /\ hay_instruccion /\ i.code \in DeEntradaSalida
        /\ pedir_io(i.code, numeros_de(i))
    BY <1>12, PedirIoDe
  <2>2. /\ terminar_instruccion(m)
        /\ \E o : /\ EsPedido(p, m, i, o)
                  /\ enviar_y_salir(Paquete("IO", p, m,
                                            <<"interfaz", i.code>> \o Cuerpo(i.code, o)))
    BY <2>1, PedirIoSale
  <2>3. PICK o : /\ EsPedido(p, m, i, o)
                 /\ enviar_y_salir(Paquete("IO", p, m, <<"interfaz", i.code>> \o Cuerpo(i.code, o)))
    BY <2>2
  <2>4. programa[p][m.pc] = i
    BY <1>1, <2>1 DEF instruccion
  <2> DEFINE e == <<"interfaz", i.code>> \o Cuerpo(i.code, o)
  <2>5. e \in Seq(Campo)
    <3>1. Cuerpo(i.code, o) \in Seq(Campo)
      BY <2>3, OperacionDesempaquetada DEF EsPedido
    <3>2. "interfaz" \in Campo /\ i.code \in Campo
      BY <2>1 DEF Campo
    <3>3. <<"interfaz", i.code>> \in Seq(Campo)
      BY <3>2
    <3> QED BY <3>1, <3>3, ConcatProperties
  <2>6. SaleCon(programa, p, m, "IO", e)
    BY <2>3, <2>4 DEF SaleCon, Pide, codigo_de
  <2>7. m \in Contexto
    BY <1>1, <2>1
  <2> HIDE DEF e, m, i
  <2>8. Saliente(Paquete("IO", p, m, e), programa, p)
    BY <1>3, <2>5, <2>6, <2>7
  <2>9. enviar_y_salir(Paquete("IO", p, m, e))
    BY <2>3 DEF e
  <2> QED BY <2>1, <2>2, <2>7, <2>8, <2>9 DEF PasoSale
<1> QED BY <1>4, <1>5, <1>6, <1>7, <1>9, <1>10, <1>11, <1>12 DEF execute

-----------------------------------------------------------------------------
(* The invariant is kept by the CPU.                                       *)

(* A process that waits goes on waiting while nobody touches what is its.  *)
LEMMA EnEsperaSigue ==
  ASSUME NEW p \in Procesos, EnEspera(p), programa' = programa, contextos'[p] = contextos[p],
         estado'[p] = estado[p], solicitudes'[p] = solicitudes[p],
         p = ejecutando' /\ espera' = FALSE => buffer' = <<>>
  PROVE  EnEspera(p)'
BY DEF EnEspera, Pide, codigo_de

(* So does what the interface knows of its request. *)
LEMMA EntradaSigue ==
  ASSUME Entrada, programa' = programa, entrada' = entrada,
         entrada # Nadie => /\ contextos'[entrada.pid] = contextos[entrada.pid]
                            /\ solicitudes'[entrada.pid] = solicitudes[entrada.pid]
  PROVE  Entrada'
<1>1. CASE entrada = Nadie
  BY <1>1 DEF Entrada
<1>2. CASE entrada # Nadie
  <2> DEFINE p == entrada.pid
  <2>1. contextos'[p] = contextos[p] /\ solicitudes'[p] = solicitudes[p]
    BY <1>2
  <2>2. /\ entrada \in DeEntrada
        /\ solicitudes[p] # Nadie
        /\ entrada.op = codigo_de(programa, p, contextos[p])
    BY <1>2 DEF Entrada
  <2>3. PICK o, f :
          /\ Pide(programa, p, contextos[p], o)
          /\ solicitudes[p] = Solicitud(p, entrada.op, o)
          /\ entrada.direcciones = o.dirs
          /\ Suma(f, o.dirs, o.cantidad)
          /\ entrada.indice <= o.cantidad
          /\ entrada.op = "IO_FS_READ" => entrada.texto = f[o.cantidad]
          /\ entrada.leidos = menor(f[entrada.indice], entrada.texto)
    BY <1>2 DEF Entrada
  <2>4. entrada' = entrada /\ programa' = programa
    OBVIOUS
  <2> QED BY <2>1, <2>2, <2>3, <2>4 DEF Entrada
<1> QED BY <1>1, <1>2

(* A step of the CPU, which leaves the kernel alone, keeps the requests    *)
(* and the entry in course.                                                *)
LEMMA SinKernel ==
  ASSUME Solicitudes, Entrada, UNCHANGED <<programa, delKernel, entrada>>
  PROVE  Solicitudes' /\ Entrada'
<1>1. /\ programa' = programa /\ contextos' = contextos /\ estado' = estado
      /\ solicitudes' = solicitudes /\ ejecutando' = ejecutando /\ espera' = espera
      /\ buffer' = buffer /\ entrada' = entrada
  BY DEF delKernel
<1>2. ASSUME NEW p \in Procesos, solicitudes'[p] # Nadie
      PROVE  EnEspera(p)'
  <2>1. EnEspera(p)
    BY <1>1, <1>2 DEF Solicitudes
  <2>2. p = ejecutando' /\ espera' = FALSE => buffer' = <<>>
    BY <1>1, <2>1 DEF EnEspera
  <2> QED BY <1>1, <2>1, <2>2, EnEsperaSigue
<1>3. Solicitudes'
  BY <1>2 DEF Solicitudes
<1>4. Entrada'
  BY <1>1, EntradaSigue
<1> QED BY <1>3, <1>4

(* The CPU takes the context that goes to it. *)
LEMMA RecibirContextoInv ==
  ASSUME Inv, RecibirContexto
  PROVE  Inv'
<1>1. /\ linea = "recibe" /\ alCpu # <<>>
      /\ pcb' = buffer_desempaquetar_contexto_ejecucion(Head(alCpu).buffer)
      /\ alCpu' = Tail(alCpu)
      /\ linea' = "ejecuta" /\ salir_ciclo_instruccion' = FALSE
      /\ UNCHANGED <<programa, espacio, delKernel, alKernel, diccionario_interrupciones, entrada>>
  BY DEF RecibirContexto
<1>2. /\ espera = TRUE /\ ejecutando \in Procesos /\ estado[ejecutando] = "EXEC" /\ Ida
  BY <1>1 DEF Inv, Turno, EnCpu, Vuelta
<1> DEFINE p == ejecutando
           m == contextos[p]
           q == Paquete("CONTEXTO_DE_EJECUCION", p, m, <<>>)
<1>3. alCpu = <<q>> /\ alKernel = <<>>
  BY <1>2 DEF Ida
<1>4. p \in Campo /\ m \in Contexto /\ <<>> \in Seq(Campo)
  BY <1>2 DEF Inv, Tipos, Campo
<1>5. buffer_desempaquetar_contexto_ejecucion(q.buffer) = t_pcb(p, m)
  BY <1>4, PaqueteRecibido
<1> HIDE DEF q
<1>6. pcb' = t_pcb(p, m) /\ alCpu' = <<>>
  BY <1>1, <1>3, <1>5
<1>7. /\ programa' = programa /\ espacio' = espacio /\ estado' = estado
      /\ contextos' = contextos /\ solicitudes' = solicitudes /\ ejecutando' = ejecutando
      /\ espera' = espera /\ alKernel' = <<>>
      /\ diccionario_interrupciones' = diccionario_interrupciones
  BY <1>1, <1>3 DEF delKernel
<1>8. Tipos'
  <2>1. pcb' \in [pid : Procesos \cup {Nadie}, pc : Nat, registros : [Nombres -> Nat]]
        /\ pcb'.pid \in Procesos /\ pcb'.pid = p
    BY <1>2, <1>4, <1>6 DEF t_pcb, Contexto
  <2> QED BY <1>1, <1>7, <2>1 DEF Inv, Tipos
<1>9. Turno'
  <2>1. pcb'.pid = ejecutando'
    BY <1>6, <1>7 DEF t_pcb
  <2>2. CpuOcupada'
    BY <1>1 DEF CpuOcupada
  <2> QED BY <1>2, <1>6, <1>7, <2>1, <2>2 DEF Turno, EnCpu
<1>10. Solicitudes' /\ Entrada'
  BY <1>1, SinKernel DEF Inv
<1> QED BY <1>8, <1>9, <1>10 DEF Inv

(* The end of an iteration leaves a context of the same process.           *)
LEMMA TerminarDe ==
  ASSUME Tipos, hay_instruccion, NEW m \in Contexto, terminar_instruccion(m)
  PROVE  /\ linea' = "chequea" /\ pcb'.pid = pcb.pid /\ pcb.pid \in Procesos
         /\ pcb' \in [pid : Procesos \cup {Nadie}, pc : Nat, registros : [Nombres -> Nat]]
<1> DEFINE n == siguiente(m, instruccion)
<1>1. linea' = "chequea" /\ pcb' = t_pcb(pcb.pid, n)
  BY DEF terminar_instruccion
<1>2. n \in Contexto
  BY SiguienteContexto
<1>3. pcb.pid \in Procesos
  BY InstruccionDe
<1> HIDE DEF n
<1> QED BY <1>1, <1>2, <1>3 DEF t_pcb, Contexto

(* An instruction goes on. *)
LEMMA PasoSigueInv ==
  ASSUME Inv, PasoSigue
  PROVE  Inv'
<1>1. PICK m \in Contexto : sigue(m)
  BY DEF PasoSigue
<1>2. hay_instruccion /\ espacio' \in Espacio /\ linea = "ejecuta"
  BY DEF PasoSigue, SoloDe, hay_instruccion
<1>3. /\ terminar_instruccion(m)
      /\ UNCHANGED <<programa, delKernel, alCpu, alKernel, salir_ciclo_instruccion,
                     diccionario_interrupciones, entrada>>
  BY <1>1 DEF sigue
<1>4. /\ linea' = "chequea" /\ pcb'.pid = pcb.pid /\ pcb.pid \in Procesos
      /\ pcb' \in [pid : Procesos \cup {Nadie}, pc : Nat, registros : [Nombres -> Nat]]
  BY <1>2, <1>3, TerminarDe DEF Inv
<1>5. /\ programa' = programa /\ estado' = estado /\ contextos' = contextos
      /\ solicitudes' = solicitudes /\ ejecutando' = ejecutando /\ espera' = espera
      /\ alCpu' = alCpu /\ alKernel' = alKernel
      /\ salir_ciclo_instruccion' = salir_ciclo_instruccion
      /\ diccionario_interrupciones' = diccionario_interrupciones
  BY <1>3 DEF delKernel
<1>6. Tipos'
  BY <1>2, <1>4, <1>5 DEF Inv, Tipos
<1>7. /\ espera = TRUE /\ ejecutando \in Procesos /\ estado[ejecutando] = "EXEC" /\ EnCpu
  BY <1>2 DEF Inv, Turno, Ida, Vuelta, CpuLibre
<1>8. Turno'
  <2>1. EnCpu'
    BY <1>4, <1>5, <1>7 DEF EnCpu, CpuOcupada
  <2> QED BY <1>5, <1>7, <2>1 DEF Turno
<1>9. Solicitudes' /\ Entrada'
  BY <1>3, SinKernel DEF Inv
<1> QED BY <1>6, <1>8, <1>9 DEF Inv

(* An instruction leaves the CPU with a packet. *)
LEMMA PasoSaleInv ==
  ASSUME Inv, PasoSale
  PROVE  Inv'
<1>1. PICK m \in Contexto : terminar_instruccion(m)
  BY DEF PasoSale
<1>2. PICK q : Saliente(q, programa, pcb.pid) /\ enviar_y_salir(q)
  BY DEF PasoSale
<1>3. hay_instruccion /\ linea = "ejecuta"
  BY DEF PasoSale, hay_instruccion
<1>4. /\ alKernel' = Append(alKernel, q) /\ salir_ciclo_instruccion' = TRUE
      /\ UNCHANGED <<programa, espacio, delKernel, alCpu, diccionario_interrupciones, entrada>>
  BY <1>2 DEF enviar_y_salir
<1>5. /\ linea' = "chequea" /\ pcb'.pid = pcb.pid /\ pcb.pid \in Procesos
      /\ pcb' \in [pid : Procesos \cup {Nadie}, pc : Nat, registros : [Nombres -> Nat]]
  BY <1>1, <1>3, TerminarDe DEF Inv
<1>6. /\ programa' = programa /\ espacio' = espacio /\ estado' = estado
      /\ contextos' = contextos /\ solicitudes' = solicitudes /\ ejecutando' = ejecutando
      /\ espera' = espera /\ alCpu' = alCpu
      /\ diccionario_interrupciones' = diccionario_interrupciones
  BY <1>4 DEF delKernel
<1>7. Tipos'
  BY <1>5, <1>6 DEF Inv, Tipos
<1>8. /\ espera = TRUE /\ ejecutando \in Procesos /\ estado[ejecutando] = "EXEC" /\ EnCpu
  BY <1>3 DEF Inv, Turno, Ida, Vuelta, CpuLibre
<1>9. Turno'
  <2>1. alKernel = <<>> /\ alCpu = <<>> /\ pcb.pid = ejecutando
    BY <1>8 DEF EnCpu
  <2>2. alKernel' = <<q>>
    BY <1>4, <2>1
  <2>3. Saliente(q, programa', ejecutando')
    BY <1>2, <1>6, <2>1
  <2>4. CpuLibre'
    BY <1>4, <1>5 DEF CpuLibre
  <2>5. Vuelta'
    BY <1>6, <2>1, <2>2, <2>3, <2>4 DEF Vuelta
  <2> QED BY <1>6, <1>8, <2>5 DEF Turno
<1>10. Solicitudes' /\ Entrada'
  BY <1>4, SinKernel DEF Inv
<1> QED BY <1>7, <1>9, <1>10 DEF Inv

(* After an instruction, the CPU sees whether the process was interrupted. *)
LEMMA CheckInterruptInv ==
  ASSUME Inv, check_interrupt
  PROVE  Inv'
<1> DEFINE t == diccionario_interrupciones[pcb.pid]
           q == con_contexto(t, pcb)
           p == pcb.pid
<1>1. /\ linea = "chequea"
      /\ diccionario_interrupciones' =
           [diccionario_interrupciones EXCEPT ![pcb.pid] = "nada"]
      /\ alKernel' = IF ~salir_ciclo_instruccion /\ t # "nada"
                       THEN Append(alKernel, q) ELSE alKernel
      /\ salir_ciclo_instruccion' = (salir_ciclo_instruccion \/ t # "nada")
      /\ linea' = IF salir_ciclo_instruccion \/ t # "nada" THEN "recibe" ELSE "ejecuta"
      /\ UNCHANGED <<programa, espacio, delKernel, alCpu, pcb, entrada>>
  BY DEF check_interrupt
<1>2. /\ programa' = programa /\ espacio' = espacio /\ estado' = estado
      /\ contextos' = contextos /\ solicitudes' = solicitudes /\ ejecutando' = ejecutando
      /\ espera' = espera /\ alCpu' = alCpu /\ pcb' = pcb
  BY <1>1 DEF delKernel
<1>3. p \in Procesos /\ diccionario_interrupciones \in [Procesos -> {"nada"} \cup Interrupciones]
  BY <1>1 DEF Inv, Tipos
<1>4. diccionario_interrupciones' \in [Procesos -> {"nada"} \cup Interrupciones]
  BY <1>1, <1>3
<1>5. Tipos'
  <2>1. linea' \in {"recibe", "ejecuta", "chequea"}
    BY <1>1
  <2> QED BY <1>2, <1>3, <1>4, <2>1 DEF Inv, Tipos
<1>6. Solicitudes' /\ Entrada'
  BY <1>1, SinKernel DEF Inv
<1>7. Turno'
  <2>1. CASE salir_ciclo_instruccion = TRUE
    <3>1. alKernel' = alKernel /\ linea' = "recibe"
      BY <1>1, <2>1
    <3>2. CpuLibre'
      BY <3>1 DEF CpuLibre
    <3>3. ~EnCpu
      BY <2>1 DEF EnCpu, CpuOcupada
    <3>4. CASE espera = FALSE
      BY <1>2, <3>1, <3>2, <3>4 DEF Inv, Turno
    <3>5. CASE espera = TRUE
      <4>1. ejecutando \in Procesos /\ estado[ejecutando] = "EXEC" /\ (Ida \/ Vuelta)
        BY <3>3, <3>5 DEF Inv, Turno
      <4>2. CASE Ida
        <5>1. Ida'
          BY <1>2, <3>1, <3>2, <4>2 DEF Ida
        <5> QED BY <1>2, <3>5, <4>1, <5>1 DEF Turno
      <4>3. CASE Vuelta
        <5>1. Vuelta'
          BY <1>2, <3>1, <3>2, <4>3 DEF Vuelta
        <5> QED BY <1>2, <3>5, <4>1, <5>1 DEF Turno
      <4> QED BY <4>1, <4>2, <4>3
    <3> QED BY <3>4, <3>5 DEF Inv, Turno
  <2>2. CASE salir_ciclo_instruccion # TRUE
    <3>1. ~CpuLibre
      BY <1>1, <2>2 DEF CpuLibre
    <3>2. espera = TRUE /\ ejecutando \in Procesos /\ estado[ejecutando] = "EXEC" /\ EnCpu
      BY <3>1 DEF Inv, Turno, Ida, Vuelta
    <3>3. alCpu = <<>> /\ alKernel = <<>> /\ pcb.pid = ejecutando
          /\ salir_ciclo_instruccion = FALSE
      BY <3>2 DEF EnCpu, CpuOcupada
    <3>4. CASE t = "nada"
      <4>1. alKernel' = <<>> /\ linea' = "ejecuta" /\ salir_ciclo_instruccion' = FALSE
        BY <1>1, <3>3, <3>4
      <4>2. EnCpu'
        BY <1>2, <3>3, <4>1 DEF EnCpu, CpuOcupada
      <4> QED BY <1>2, <3>2, <4>2 DEF Turno
    <3>5. CASE t # "nada"
      <4>1. alKernel' = <<q>> /\ linea' = "recibe"
        BY <1>1, <3>3, <3>5
      <4> DEFINE c == contexto(pcb)
      <4>2. /\ pcb.pc \in Nat /\ pcb.registros \in [Nombres -> Nat] /\ p \in Campo
            /\ c \in Contexto /\ c.pc = pcb.pc /\ c.registros = pcb.registros
        BY <1>3 DEF Inv, Tipos, contexto, Contexto, Campo
      <4>3. t \in Finales
        <5>1. t \in Interrupciones
          BY <1>3, <3>5
        <5> QED BY <5>1, CicloCPUAssumption DEF Finales
      <4>4. <<>> \in Seq(Campo)
        OBVIOUS
      <4> HIDE DEF t, p
      <4>5. q = Paquete(t, p, pcb, <<>>)
        BY <4>2, <4>4, PaqueteDe DEF con_contexto, p
      <4> HIDE DEF q, c
      <4>6. Encabezado(p, pcb) = Encabezado(p, c)
        BY <4>2 DEF Encabezado
      <4>7. q = Paquete(t, p, c, <<>>)
        BY <4>5, <4>6 DEF Paquete
      <4>8. SaleCon(programa, p, c, t, <<>>)
        BY <4>3 DEF SaleCon
      <4>9. Saliente(q, programa, p)
        BY <4>2, <4>4, <4>7, <4>8 DEF Saliente
      <4>10. Vuelta'
        <5>1. Saliente(q, programa', ejecutando')
          BY <1>2, <3>3, <4>9 DEF p
        <5> QED BY <1>2, <3>3, <4>1, <5>1 DEF Vuelta, CpuLibre
      <4> QED BY <1>2, <3>2, <4>10 DEF Turno
    <3> QED BY <3>4, <3>5
  <2> QED BY <2>1, <2>2
<1> QED BY <1>5, <1>6, <1>7 DEF Inv

(* An interrupt arrives. *)
LEMMA InterrumpirInv ==
  ASSUME Inv, NEW tipo \in Interrupciones, atender_cpu_kernel_interrupt(tipo)
  PROVE  Inv'
<1>1. /\ espera
      /\ diccionario_interrupciones' =
           [diccionario_interrupciones EXCEPT ![ejecutando] = tipo]
      /\ UNCHANGED <<programa, espacio, delKernel, alCpu, alKernel, cpu, entrada>>
  BY DEF atender_cpu_kernel_interrupt
<1>2. /\ programa' = programa /\ espacio' = espacio /\ estado' = estado
      /\ contextos' = contextos /\ solicitudes' = solicitudes /\ ejecutando' = ejecutando
      /\ espera' = espera /\ alCpu' = alCpu /\ alKernel' = alKernel /\ pcb' = pcb
      /\ linea' = linea /\ salir_ciclo_instruccion' = salir_ciclo_instruccion
  BY <1>1 DEF delKernel, cpu
<1>3. Tipos'
  <2>1. diccionario_interrupciones' \in [Procesos -> {"nada"} \cup Interrupciones]
    BY <1>1 DEF Inv, Tipos
  <2> QED BY <1>2, <2>1 DEF Inv, Tipos
<1>4. Turno'
  BY <1>2 DEF Inv, Turno, Ida, EnCpu, Vuelta, CpuLibre, CpuOcupada
<1>5. Solicitudes' /\ Entrada'
  BY <1>1, SinKernel DEF Inv
<1> QED BY <1>3, <1>4, <1>5 DEF Inv

-----------------------------------------------------------------------------
(* The invariant is kept by the kernel.                                    *)

(* Who has a request keeps it, and what is known of it, when the state and *)
(* the context of another process change.                                  *)
LEMMA OtrosSiguen ==
  ASSUME Inv, NEW p \in Procesos, solicitudes[p] = Nadie,
         programa' = programa, entrada' = entrada,
         \A q \in Procesos : q # p => /\ contextos'[q] = contextos[q]
                                      /\ estado'[q] = estado[q]
                                      /\ solicitudes'[q] = solicitudes[q],
         ejecutando' = p \/ espera' = TRUE,
         solicitudes'[p] # Nadie => EnEspera(p)'
  PROVE  Solicitudes' /\ Entrada'
<1>1. ASSUME NEW q \in Procesos, solicitudes'[q] # Nadie
      PROVE  EnEspera(q)'
  <2>1. CASE q = p
    BY <1>1, <2>1
  <2>2. CASE q # p
    <3>1. solicitudes[q] # Nadie
      BY <1>1, <2>2
    <3>2. EnEspera(q)
      BY <3>1 DEF Inv, Solicitudes
    <3>3. q = ejecutando' /\ espera' = FALSE => buffer' = <<>>
      BY <2>2
    <3> QED BY <2>2, <3>2, <3>3, EnEsperaSigue
  <2> QED BY <2>1, <2>2
<1>2. Solicitudes'
  BY <1>1 DEF Solicitudes
<1>3. Entrada'
  <2>1. entrada # Nadie => /\ entrada.pid \in Procesos
                           /\ solicitudes[entrada.pid] # Nadie
    BY DEF Inv, Entrada, DeEntrada
  <2>2. entrada # Nadie => /\ contextos'[entrada.pid] = contextos[entrada.pid]
                           /\ solicitudes'[entrada.pid] = solicitudes[entrada.pid]
    BY <2>1
  <2> QED BY <2>2, EntradaSigue DEF Inv
<1> QED BY <1>2, <1>3

(* The planner sends the context of the PCB, and waits. *)
LEMMA DespacharInv ==
  ASSUME Inv, NEW p \in Procesos, Despachar(p)
  PROVE  Inv'
<1>1. /\ ~espera /\ estado[p] = "READY"
      /\ estado' = [estado EXCEPT ![p] = "EXEC"]
      /\ ejecutando' = p /\ espera' = TRUE
      /\ alCpu' = Append(alCpu, paquete_contexto(p, contextos[p]))
      /\ UNCHANGED <<programa, espacio, contextos, solicitudes, buffer, alKernel, cpu,
                     diccionario_interrupciones, entrada>>
  BY DEF Despachar
<1>2. /\ programa' = programa /\ espacio' = espacio /\ contextos' = contextos
      /\ solicitudes' = solicitudes /\ alKernel' = alKernel /\ pcb' = pcb /\ linea' = linea
      /\ salir_ciclo_instruccion' = salir_ciclo_instruccion
      /\ diccionario_interrupciones' = diccionario_interrupciones /\ entrada' = entrada
  BY <1>1 DEF cpu
<1>3. alCpu = <<>> /\ alKernel = <<>> /\ CpuLibre
  BY <1>1 DEF Inv, Turno
<1>4. Tipos'
  <2>1. estado' \in [Procesos -> Estados]
    BY <1>1 DEF Inv, Tipos, Estados
  <2> QED BY <1>2, <2>1 DEF Inv, Tipos
<1>5. Turno'
  <2>1. estado'[p] = "EXEC"
    BY <1>1 DEF Inv, Tipos
  <2>2. contextos[p] \in Contexto /\ p \in Campo /\ <<>> \in Seq(Campo)
    BY DEF Inv, Tipos, Campo
  <2>3. paquete_contexto(p, contextos[p])
          = Paquete("CONTEXTO_DE_EJECUCION", p, contextos[p], <<>>)
    <3>1. contextos[p].pc \in Nat /\ contextos[p].registros \in [Nombres -> Nat]
      BY <2>2 DEF Contexto
    <3> QED BY <2>2, <3>1, PaqueteDe DEF paquete_contexto
  <2>4. alCpu' = <<Paquete("CONTEXTO_DE_EJECUCION", p, contextos[p], <<>>)>>
    BY <1>1, <1>3, <2>3
  <2>5. Ida'
    BY <1>1, <1>2, <1>3, <2>4 DEF Ida, CpuLibre
  <2> QED BY <1>1, <2>1, <2>5 DEF Turno
<1>6. Solicitudes' /\ Entrada'
  <2>1. solicitudes[p] = Nadie
    BY <1>1 DEF Inv, Solicitudes, EnEspera
  <2>2. \A q \in Procesos : q # p => estado'[q] = estado[q]
    BY <1>1 DEF Inv, Tipos
  <2> QED BY <1>1, <1>2, <2>1, <2>2, OtrosSiguen
<1> QED BY <1>4, <1>5, <1>6 DEF Inv

(* What the planner receives is of the process it waits for. *)
LEMMA RecibidoDe ==
  ASSUME Inv, espera, alKernel # <<>>
  PROVE  /\ ejecutando \in Procesos /\ estado[ejecutando] = "EXEC" /\ espera = TRUE
         /\ solicitudes[ejecutando] = Nadie
         /\ alCpu = <<>> /\ Tail(alKernel) = <<>> /\ CpuLibre
         /\ \E m \in Contexto, e \in Seq(Campo) :
              /\ contexto(recibido) = m /\ recibido = t_pcb(ejecutando, m) /\ resto = e
              /\ SaleCon(programa, ejecutando, m, Head(alKernel).codigo_operacion, e)
<1>1. ejecutando \in Procesos /\ estado[ejecutando] = "EXEC" /\ espera = TRUE /\ Vuelta
  BY DEF Inv, Turno, Ida, EnCpu
<1>2. solicitudes[ejecutando] = Nadie
  BY <1>1 DEF Inv, Solicitudes, EnEspera
<1>3. PICK q : alKernel = <<q>> /\ Saliente(q, programa, ejecutando)
  BY <1>1 DEF Vuelta
<1>4. PICK m, e, codigo :
        /\ m \in Contexto /\ e \in Seq(Campo)
        /\ q = Paquete(codigo, ejecutando, m, e) /\ SaleCon(programa, ejecutando, m, codigo, e)
  BY <1>3 DEF Saliente
<1>5. Head(alKernel) = q /\ Tail(alKernel) = <<>>
  BY <1>3
<1>6. q.codigo_operacion = codigo
  BY <1>4 DEF Paquete
<1>7. ejecutando \in Campo
  BY <1>1 DEF Campo
<1>8. /\ contexto(recibido) = m /\ recibido = t_pcb(ejecutando, m) /\ resto = e
  <2>1. LET b == Paquete(codigo, ejecutando, m, e).buffer
        IN  /\ contexto(buffer_desempaquetar_contexto_ejecucion(b)) = m
            /\ buffer_desempaquetar_contexto_ejecucion(b) = t_pcb(ejecutando, m)
            /\ buffer_actualizar(b, CAMPOS) = e
    BY <1>4, <1>7, PaqueteRecibido
  <2> QED BY <1>4, <1>5, <2>1 DEF recibido, resto
<1>9. CpuLibre /\ alCpu = <<>>
  BY <1>1 DEF Vuelta
<1> QED BY <1>1, <1>2, <1>4, <1>5, <1>6, <1>8, <1>9

(* What changes when the context goes to the PCB. *)
LEMMA GuardarDe ==
  ASSUME Inv, espera, alKernel # <<>>, NEW b, guardar(b)
  PROVE  /\ programa' = programa /\ espacio' = espacio /\ ejecutando' = ejecutando
         /\ pcb' = pcb /\ linea' = linea /\ entrada' = entrada
         /\ salir_ciclo_instruccion' = salir_ciclo_instruccion
         /\ diccionario_interrupciones' = diccionario_interrupciones
         /\ contextos' \in [Procesos -> Contexto] /\ alKernel' = <<>> /\ buffer' = b
         /\ contextos'[ejecutando] = contexto(recibido)
         /\ \A q \in Procesos : q # ejecutando => contextos'[q] = contextos[q]
<1>1. /\ contextos' = [contextos EXCEPT ![ejecutando] = contexto(recibido)]
      /\ buffer' = b
      /\ alKernel' = Tail(alKernel)
      /\ UNCHANGED <<programa, espacio, ejecutando, cpu, diccionario_interrupciones, entrada>>
  BY DEF guardar
<1>2. ejecutando \in Procesos /\ contexto(recibido) \in Contexto /\ Tail(alKernel) = <<>>
  BY RecibidoDe
<1>3. contextos \in [Procesos -> Contexto]
  BY DEF Inv, Tipos
<1> QED BY <1>1, <1>2, <1>3 DEF cpu

(* The planner stops waiting, and the process has no request. *)
LEMMA VolverInv ==
  ASSUME Inv, espera, alKernel # <<>>, NEW b, guardar(b), NEW e \in Estados, pasar_a(e),
         UNCHANGED <<solicitudes, alCpu>>
  PROVE  Inv'
<1> DEFINE p == ejecutando
<1>1. /\ p \in Procesos /\ alCpu = <<>> /\ CpuLibre /\ solicitudes[p] = Nadie
  BY RecibidoDe
<1>2. /\ programa' = programa /\ espacio' = espacio /\ ejecutando' = ejecutando
      /\ pcb' = pcb /\ linea' = linea /\ entrada' = entrada
      /\ salir_ciclo_instruccion' = salir_ciclo_instruccion
      /\ diccionario_interrupciones' = diccionario_interrupciones
      /\ contextos' \in [Procesos -> Contexto] /\ alKernel' = <<>>
      /\ \A q \in Procesos : q # p => contextos'[q] = contextos[q]
  BY GuardarDe
<1>3. espera' = FALSE /\ estado' = [estado EXCEPT ![p] = e]
      /\ solicitudes' = solicitudes /\ alCpu' = alCpu
  BY DEF pasar_a
<1>4. estado' \in [Procesos -> Estados] /\ \A q \in Procesos : q # p => estado'[q] = estado[q]
  BY <1>1, <1>3 DEF Inv, Tipos
<1>5. Tipos'
  BY <1>2, <1>3, <1>4 DEF Inv, Tipos
<1>6. Turno'
  BY <1>1, <1>2, <1>3 DEF Turno, CpuLibre
<1>7. Solicitudes' /\ Entrada'
  BY <1>1, <1>2, <1>3, <1>4, OtrosSiguen
<1> QED BY <1>5, <1>6, <1>7 DEF Inv

(* The process ends, goes back to READY, blocks or goes on. *)
LEMMA ManejarFinInv ==
  ASSUME Inv, ManejarFin
  PROVE  Inv'
<1>1. /\ espera /\ alKernel # <<>> /\ guardar(resto) /\ pasar_a("EXIT")
      /\ UNCHANGED <<solicitudes, alCpu>>
  BY DEF ManejarFin, recibe
<1>2. "EXIT" \in Estados
  BY DEF Estados
<1> QED BY <1>1, <1>2, VolverInv

(* The invariant, when the quantum sends the process back to READY.        *)
LEMMA ManejarQuantumInv ==
  ASSUME Inv, ManejarQuantum
  PROVE  Inv'
<1>1. /\ espera /\ alKernel # <<>> /\ guardar(resto) /\ pasar_a("READY")
      /\ UNCHANGED <<solicitudes, alCpu>>
  BY DEF ManejarQuantum, recibe
<1>2. "READY" \in Estados
  BY DEF Estados
<1> QED BY <1>1, <1>2, VolverInv

(* The invariant, when the kernel answers a WAIT or a SIGNAL.              *)
LEMMA ManejarRecursoInv ==
  ASSUME Inv, ManejarRecurso
  PROVE  Inv'
<1> DEFINE b == buffer_actualizar(resto, 1)
           p == ejecutando
<1>1. espera /\ alKernel # <<>> /\ guardar(b) /\ UNCHANGED solicitudes
  BY DEF ManejarRecurso, recibe
<1>2. "BLOCKED" \in Estados /\ "READY" \in Estados
  BY DEF Estados
<1>3. CASE pasar_a("BLOCKED") /\ UNCHANGED alCpu
  BY <1>1, <1>2, <1>3, VolverInv
<1>4. CASE pasar_a("READY") /\ UNCHANGED alCpu
  BY <1>1, <1>2, <1>4, VolverInv
<1>5. CASE /\ alCpu' = Append(alCpu, paquete_contexto(p, contexto(recibido)))
           /\ UNCHANGED <<estado, espera>>
  <2>1. /\ p \in Procesos /\ alCpu = <<>> /\ CpuLibre /\ solicitudes[p] = Nadie
        /\ espera = TRUE /\ estado[p] = "EXEC" /\ contexto(recibido) \in Contexto
    BY <1>1, RecibidoDe
  <2>2. /\ programa' = programa /\ espacio' = espacio /\ ejecutando' = ejecutando
        /\ pcb' = pcb /\ linea' = linea /\ entrada' = entrada
        /\ salir_ciclo_instruccion' = salir_ciclo_instruccion
        /\ diccionario_interrupciones' = diccionario_interrupciones
        /\ contextos' \in [Procesos -> Contexto] /\ alKernel' = <<>>
        /\ contextos'[p] = contexto(recibido)
        /\ \A q \in Procesos : q # p => contextos'[q] = contextos[q]
    BY <1>1, GuardarDe
  <2>3. estado' = estado /\ espera' = TRUE /\ solicitudes' = solicitudes
    BY <1>1, <1>5, <2>1
  <2>4. Tipos'
    BY <2>2, <2>3 DEF Inv, Tipos
  <2> DEFINE m == contexto(recibido)
  <2>5. paquete_contexto(p, m) = Paquete("CONTEXTO_DE_EJECUCION", p, m, <<>>)
    <3>1. m.pc \in Nat /\ m.registros \in [Nombres -> Nat]
      BY <2>1 DEF Contexto
    <3>2. p \in Campo /\ <<>> \in Seq(Campo)
      BY <2>1 DEF Campo
    <3> QED BY <3>1, <3>2, PaqueteDe DEF paquete_contexto
  <2>6. alCpu' = <<Paquete("CONTEXTO_DE_EJECUCION", p, m, <<>>)>>
    BY <1>5, <2>1, <2>5
  <2>7. alCpu' = <<Paquete("CONTEXTO_DE_EJECUCION", ejecutando', contextos'[ejecutando'], <<>>)>>
    BY <2>2, <2>6
  <2>8. CpuLibre'
    BY <2>1, <2>2 DEF CpuLibre
  <2>9. Turno'
    BY <2>1, <2>2, <2>3, <2>7, <2>8 DEF Turno, Ida
  <2>10. Solicitudes' /\ Entrada'
    BY <2>1, <2>2, <2>3, OtrosSiguen
  <2> QED BY <2>4, <2>9, <2>10 DEF Inv
<1> QED BY <1>3, <1>4, <1>5 DEF ManejarRecurso

(* The request that the planner unpacks is the one that the CPU packed,    *)
(* and it packs the same for the interface.                                *)
LEMMA IoRecibida ==
  ASSUME Inv, recibe({"IO"})
  PROVE  LET p == ejecutando
             op == buffer_desempaquetar(resto, 2)[2]
             o == desempaquetar_operacion(op, buffer_actualizar(resto, 2))
         IN  \E m \in Contexto : \E u :
               /\ contexto(recibido) = m /\ Pide(programa, p, m, u)
               /\ op = codigo_de(programa, p, m) /\ Completa(op, u)
               /\ o = u /\ o.buffer = <<>>
               /\ paquete_solicitud_io(p, op, o) = Solicitud(p, codigo_de(programa, p, m), u)
<1> DEFINE p == ejecutando
           op == buffer_desempaquetar(resto, 2)[2]
           o == desempaquetar_operacion(op, buffer_actualizar(resto, 2))
<1>2. espera /\ alKernel # <<>> /\ Head(alKernel).codigo_operacion = "IO"
  BY DEF recibe
<1>4. PICK m \in Contexto, e \in Seq(Campo) :
        /\ contexto(recibido) = m /\ resto = e
        /\ SaleCon(programa, p, m, "IO", e)
  BY <1>2, RecibidoDe
<1> DEFINE cod == codigo_de(programa, p, m)
<1>5. PICK u : Pide(programa, p, m, u) /\ e = <<"interfaz", cod>> \o Cuerpo(cod, u)
  BY <1>4 DEF SaleCon, Finales
<1>6. Completa(cod, u)
  BY <1>5 DEF Pide, EsPedido, codigo_de
<1>7. Cuerpo(cod, u) \in Seq(Campo) /\ desempaquetar_operacion(cod, Cuerpo(cod, u)) = u
  BY <1>6, OperacionDesempaquetada
<1>8. op = cod /\ buffer_actualizar(resto, 2) = Cuerpo(cod, u)
  <2> DEFINE a == <<"interfaz", cod>>
             b == Cuerpo(cod, u)
  <2>1. cod \in DeEntradaSalida
    BY <1>6 DEF Completa
  <2> HIDE DEF cod
  <2>2. "interfaz" \in Campo /\ cod \in Campo
    BY <2>1 DEF Campo
  <2>3. a \in Seq(Campo) /\ Len(a) = 2 /\ a[2] = cod
    BY <2>2
  <2> HIDE DEF a, b
  <2>4. /\ buffer_actualizar(a \o b, Len(a)) = b
        /\ \A k \in 1 .. Len(a) : buffer_desempaquetar(a \o b, Len(a))[k] = a[k]
    BY <1>7, <2>3, Despues DEF b
  <2>5. resto = a \o b
    BY <1>4, <1>5 DEF a, b
  <2> QED BY <2>3, <2>4, <2>5 DEF b
<1>9. o = u
  BY <1>7, <1>8
<1>10. o.buffer = <<>>
  BY <1>6, <1>9 DEF Completa, Operacion
<1> HIDE DEF o, op, cod
<1>11. paquete_solicitud_io(p, op, o) = Solicitud(p, cod, u)
  <2> DEFINE num == u.numeros \o IF cod \in ConDirecciones THEN <<u.cantidad>> \o u.dirs ELSE <<>>
             b == (IF cod \in ConArchivo THEN <<u.nombre>> ELSE <<>>) \o num
             q == agregar_a_paquete(crear_paquete(cod), <<p>>)
  <2>1. paquete_solicitud_io(p, op, o) = agregar_operacion(q, cod, u.nombre, num)
    BY <1>8, <1>9 DEF paquete_solicitud_io
  <2>2. agregar_operacion(q, cod, u.nombre, num) = agregar_a_paquete(q, b)
    BY DEF agregar_operacion
  <2>3. b = Cuerpo(cod, u)
    BY DEF Cuerpo
  <2> HIDE DEF num, b
  <2>4. q = [codigo_operacion |-> cod, buffer |-> <<>> \o <<p>>]
    BY AgregarDe DEF crear_paquete, crear_buffer
  <2>5. <<>> \o <<p>> = <<p>>
    OBVIOUS
  <2> HIDE DEF q
  <2>6. q = [codigo_operacion |-> cod, buffer |-> <<p>>]
    BY <2>4, <2>5
  <2>7. agregar_a_paquete(q, b) = [codigo_operacion |-> cod, buffer |-> <<p>> \o b]
    BY <2>6, AgregarDe
  <2> QED BY <2>1, <2>2, <2>3, <2>7 DEF Solicitud
<1> QED BY <1>4, <1>5, <1>6, <1>8, <1>9, <1>10, <1>11 DEF cod, op, o

(* So the invariant is kept. *)
LEMMA ManejarIOInv ==
  ASSUME Inv, ManejarIO
  PROVE  Inv'
<1> DEFINE p == ejecutando
           op == buffer_desempaquetar(resto, 2)[2]
           o == desempaquetar_operacion(op, buffer_actualizar(resto, 2))
<1>1. /\ recibe({"IO"}) /\ guardar(o.buffer) /\ pasar_a("BLOCKED")
      /\ solicitudes' = [solicitudes EXCEPT ![p] = paquete_solicitud_io(p, op, o)]
      /\ alCpu' = alCpu
  BY DEF ManejarIO
<1>2. espera /\ alKernel # <<>> /\ Head(alKernel).codigo_operacion = "IO"
  BY <1>1 DEF recibe
<1>3. /\ p \in Procesos /\ alCpu = <<>> /\ CpuLibre /\ solicitudes[p] = Nadie
  BY <1>2, RecibidoDe
<1>4. PICK m, u :
        /\ m \in Contexto /\ contexto(recibido) = m /\ Pide(programa, p, m, u)
        /\ o.buffer = <<>>
        /\ paquete_solicitud_io(p, op, o) = Solicitud(p, codigo_de(programa, p, m), u)
  BY <1>1, IoRecibida
<1> DEFINE cod == codigo_de(programa, p, m)
<1>11. paquete_solicitud_io(p, op, o) = Solicitud(p, cod, u)
  BY <1>4
<1> HIDE DEF o, op, cod
<1>12. /\ programa' = programa /\ espacio' = espacio /\ ejecutando' = ejecutando
       /\ pcb' = pcb /\ linea' = linea /\ entrada' = entrada
       /\ salir_ciclo_instruccion' = salir_ciclo_instruccion
       /\ diccionario_interrupciones' = diccionario_interrupciones
       /\ contextos' \in [Procesos -> Contexto] /\ alKernel' = <<>> /\ buffer' = <<>>
       /\ contextos'[p] = m
       /\ \A q \in Procesos : q # p => contextos'[q] = contextos[q]
  BY <1>1, <1>2, <1>4, GuardarDe
<1>13. /\ espera' = FALSE /\ estado' = [estado EXCEPT ![p] = "BLOCKED"]
       /\ solicitudes' = [solicitudes EXCEPT ![p] = Solicitud(p, cod, u)]
  BY <1>1, <1>11 DEF pasar_a
<1>14. /\ estado' \in [Procesos -> Estados] /\ estado'[p] = "BLOCKED"
       /\ DOMAIN solicitudes' = Procesos /\ solicitudes'[p] = Solicitud(p, cod, u)
       /\ \A q \in Procesos : q # p => estado'[q] = estado[q] /\ solicitudes'[q] = solicitudes[q]
  BY <1>3, <1>13 DEF Inv, Tipos, Estados
<1>15. Tipos'
  BY <1>12, <1>14 DEF Inv, Tipos
<1>16. Turno'
  BY <1>1, <1>3, <1>12, <1>13 DEF Turno, CpuLibre
<1>17. PICK r \in Procesos : r = ejecutando
  BY <1>3
<1>18. EnEspera(r)'
  <2>1. programa' = programa /\ contextos'[r] = m
    BY <1>12, <1>17
  <2>2. Pide(programa', r, contextos'[r], u)
    BY <1>4, <1>17, <2>1
  <2>3. solicitudes'[r] = Solicitud(r, codigo_de(programa', r, contextos'[r]), u)
    BY <1>14, <1>17, <2>1 DEF cod
  <2>4. estado'[r] = "BLOCKED" /\ buffer' = <<>>
    BY <1>12, <1>14, <1>17
  <2> QED BY <2>2, <2>3, <2>4 DEF EnEspera
<1>19. Solicitudes' /\ Entrada'
  <2>1. solicitudes[r] = Nadie /\ ejecutando' = r
    BY <1>3, <1>12, <1>17
  <2>2. \A q \in Procesos : q # r => /\ contextos'[q] = contextos[q]
                                     /\ estado'[q] = estado[q]
                                     /\ solicitudes'[q] = solicitudes[q]
    BY <1>12, <1>14, <1>17
  <2> QED BY <1>12, <1>18, <2>1, <2>2, OtrosSiguen
<1> QED BY <1>15, <1>16, <1>19 DEF Inv

-----------------------------------------------------------------------------
(* The invariant is kept by the interfaces.                                *)

(* The bytes of a request are those of all its pieces. *)
LEMMA BytesDePedido ==
  ASSUME NEW o, o.cantidad \in Nat, o.dirs \in Seq(Nat), 2 * o.cantidad <= Len(o.dirs)
  PROVE  \E f : Suma(f, o.dirs, o.cantidad) /\ bytes_de(o) = f[o.cantidad]
<1> DEFINE n == o.cantidad
           dirs == o.dirs
           ant == [k \in 1 .. n |-> k - 1]
           g == [k \in 1 .. n |-> [x \in Nat |-> x + dirs[2 * k]]]
           Es(f) == f = [k \in 0 .. n |-> IF k = 0 THEN 0 ELSE f[k - 1] + o.dirs[2 * k]]
<1>1. n \in Nat /\ \A k \in 1 .. n : dirs[2 * k] \in Nat
  <2>1. \A k \in 1 .. n : 2 * k \in 1 .. Len(dirs)
    OBVIOUS
  <2> QED BY <2>1, ElementOfSeq
<1>2. Pasos(n, Nat, 0, ant, g)
  <2> HIDE DEF n, dirs
  <2> QED BY <1>1 DEF Pasos
<1>3. PICK f : Recursiva(f, n, Nat, 0, ant, g)
  <2> HIDE DEF n, ant, g
  <2> QED BY <1>2, HayRecursiva
<1>4. Es(f)
  <2> HIDE DEF n
  <2>1. f \in [0 .. n -> Nat] /\ f[0] = 0
    BY <1>3 DEF Recursiva
  <2>2. ASSUME NEW k \in 1 .. n
        PROVE  f[k] = f[k - 1] + dirs[2 * k]
    <3>1. f[k] = g[k][f[ant[k]]] /\ ant[k] = k - 1
      BY <1>3 DEF Recursiva
    <3>2. f[k - 1] \in Nat
      BY <1>1, <2>1
    <3> QED BY <3>1, <3>2
  <2>3. \A k \in 0 .. n : f[k] = IF k = 0 THEN 0 ELSE f[k - 1] + dirs[2 * k]
    BY <1>1, <2>1, <2>2
  <2> QED BY <2>1, <2>3
<1> DEFINE suma == CHOOSE d : Es(d)
<1>5. Es(suma)
  <2> HIDE DEF Es
  <2> QED BY <1>4
<1>6. bytes_de(o) = suma[n]
  BY DEF bytes_de
<1> HIDE DEF suma
<1> DEFINE Malos == {k \in 0 .. n : suma[k] \notin Nat}
<1>7. ASSUME Malos # {} PROVE FALSE
  <2>4. Malos \in SUBSET Nat
    BY <1>1
  <2>1. PICK k \in Malos : \A j \in Malos : k <= j
    <3> HIDE DEF Malos
    <3> QED BY <1>7, <2>4, HayPrimero
  <2>2. k # 0
    BY <1>5
  <2>3. k - 1 \in 0 .. n /\ suma[k - 1] \in Nat
    BY <1>1, <2>1, <2>2
  <2>5. suma[k] = suma[k - 1] + dirs[2 * k]
    BY <1>5, <2>2
  <2> HIDE DEF n, dirs
  <2>6. k \in 1 .. n
    BY <1>1, <2>2
  <2> QED BY <1>1, <2>3, <2>5, <2>6
<1>8. suma = [k \in 0 .. n |-> IF k = 0 THEN 0 ELSE suma[k - 1] + dirs[2 * k]]
  BY <1>5
<1> HIDE DEF n, dirs
<1>9. Suma(suma, dirs, n)
  <2>1. suma \in [0 .. n -> Nat]
    BY <1>7, <1>8
  <2>2. suma[0] = 0
    BY <1>1, <1>8
  <2>3. \A k \in 1 .. n : suma[k] = suma[k - 1] + dirs[2 * k]
    BY <1>1, <1>8
  <2> QED BY <2>1, <2>2, <2>3 DEF Suma
<1> QED BY <1>6, <1>9 DEF n, dirs

(* The first pieces have no more bytes than all of them. *)
LEMMA SumaCrece ==
  ASSUME NEW f, NEW dirs \in Seq(Nat), NEW n \in Nat, Len(dirs) = 2 * n, Suma(f, dirs, n)
  PROVE  \A k \in 0 .. n : f[k] \in Nat /\ f[k] <= f[n]
<1>1. \A k \in 1 .. n : dirs[2 * k] \in Nat
  <2>1. \A k \in 1 .. n : 2 * k \in 1 .. Len(dirs)
    OBVIOUS
  <2> QED BY <2>1, ElementOfSeq
<1>2. \A k \in 0 .. n : f[k] \in Nat
  BY DEF Suma
<1> DEFINE Malos == {j \in 0 .. n : ~(f[n - j] <= f[n])}
<1>3. ASSUME Malos # {} PROVE FALSE
  <2>1. Malos \in SUBSET Nat
    OBVIOUS
  <2>2. PICK j \in Malos : \A i \in Malos : j <= i
    <3> HIDE DEF Malos
    <3> QED BY <1>3, <2>1, HayPrimero
  <2>3. j # 0
    BY <1>2
  <2>4. j - 1 \in 0 .. n /\ f[n - (j - 1)] <= f[n]
    BY <2>2, <2>3
  <2> DEFINE k == n - (j - 1)
  <2>5. k \in 1 .. n /\ k - 1 = n - j /\ k - 1 \in 0 .. n /\ n \in 0 .. n /\ k \in 0 .. n
    BY <2>3
  <2>6. f[k] <= f[n] /\ ~(f[k - 1] <= f[n])
    BY <2>2, <2>4, <2>5
  <2> HIDE DEF k
  <2>7. f[k] = f[k - 1] + dirs[2 * k] /\ dirs[2 * k] \in Nat
    BY <1>1, <2>5 DEF Suma
  <2> QED BY <1>2, <2>5, <2>6, <2>7
<1>4. ASSUME NEW k \in 0 .. n PROVE f[k] <= f[n]
  <2>1. n - k \in 0 .. n /\ n - (n - k) = k
    OBVIOUS
  <2> QED BY <1>3, <2>1
<1> QED BY <1>2, <1>4

(* The bytes of the first pieces are one number. *)
LEMMA SumaUnica ==
  ASSUME NEW f, NEW g, NEW dirs, NEW m \in Nat, NEW n \in Nat, m <= n,
         Suma(f, dirs, n), Suma(g, dirs, m)
  PROVE  g[m] = f[m]
<1> DEFINE Malos == {k \in 0 .. m : g[k] # f[k]}
<1>1. ASSUME Malos # {} PROVE FALSE
  <2>1. Malos \in SUBSET Nat
    OBVIOUS
  <2>2. PICK k \in Malos : \A j \in Malos : k <= j
    <3> HIDE DEF Malos
    <3> QED BY <1>1, <2>1, HayPrimero
  <2>3. k # 0
    BY DEF Suma
  <2>4. k - 1 \in 0 .. m /\ g[k - 1] = f[k - 1]
    BY <2>2, <2>3
  <2>5. k \in 1 .. m /\ k \in 1 .. n
    BY <2>3
  <2> QED BY <2>4, <2>5 DEF Suma
<1> QED BY <1>1

(* What an interface unpacks is what the kernel packed. *)
LEMMA SolicitudDe ==
  ASSUME NEW p \in Procesos, NEW op, NEW o, Completa(op, o), solicitudes[p] = Solicitud(p, op, o)
  PROVE  /\ solicitudes[p].codigo_operacion = op
         /\ buffer_desempaquetar(solicitudes[p].buffer, 1)[1] = p
         /\ solicitud(p) = o
<1> DEFINE a == <<p>>
           b == Cuerpo(op, o)
<1>1. b \in Seq(Campo) /\ desempaquetar_operacion(op, b) = o
  BY OperacionDesempaquetada
<1>2. a \in Seq(Campo) /\ Len(a) = 1 /\ a[1] = p
  <2>1. p \in Campo
    BY DEF Campo
  <2> QED BY <2>1
<1>3. solicitudes[p].codigo_operacion = op /\ solicitudes[p].buffer = a \o b
  BY DEF Solicitud
<1> HIDE DEF a, b
<1>4. /\ buffer_actualizar(a \o b, Len(a)) = b
      /\ \A k \in 1 .. Len(a) : buffer_desempaquetar(a \o b, Len(a))[k] = a[k]
  BY <1>1, <1>2, Despues
<1>5. buffer_actualizar(a \o b, 1) = b /\ buffer_desempaquetar(a \o b, 1)[1] = p
  BY <1>2, <1>4
<1> QED BY <1>1, <1>3, <1>5 DEF solicitud

(* What the kernel and the interface have of a request that waits.         *)
LEMMA PedidoDe ==
  ASSUME Inv, NEW p \in Procesos, solicitudes[p] # Nadie
  PROVE  /\ estado[p] = "BLOCKED"
         /\ Pide(programa, p, contextos[p], solicitud(p))
         /\ solicitudes[p] = Solicitud(p, codigo_de(programa, p, contextos[p]), solicitud(p))
         /\ solicitudes[p].codigo_operacion = codigo_de(programa, p, contextos[p])
         /\ buffer_desempaquetar(solicitudes[p].buffer, 1)[1] = p
         /\ Completa(codigo_de(programa, p, contextos[p]), solicitud(p))
<1> DEFINE op == codigo_de(programa, p, contextos[p])
<1>1. EnEspera(p)
  BY DEF Inv, Solicitudes
<1>2. PICK o : Pide(programa, p, contextos[p], o) /\ solicitudes[p] = Solicitud(p, op, o)
  BY <1>1 DEF EnEspera
<1>3. Completa(op, o)
  BY <1>2 DEF Pide, EsPedido, codigo_de
<1>4. estado[p] = "BLOCKED"
  BY <1>1 DEF EnEspera
<1> HIDE DEF op
<1>5. /\ solicitudes[p].codigo_operacion = op
      /\ buffer_desempaquetar(solicitudes[p].buffer, 1)[1] = p
      /\ solicitud(p) = o
  BY <1>2, <1>3, SolicitudDe
<1> QED BY <1>2, <1>3, <1>4, <1>5 DEF op

(* Somebody gives back what a process waits for. *)
LEMMA DesbloquearInv ==
  ASSUME Inv, NEW p \in Procesos, Desbloquear(p)
  PROVE  Inv'
<1>1. /\ estado[p] = "BLOCKED" /\ solicitudes[p] = Nadie
      /\ estado' = [estado EXCEPT ![p] = "READY"]
      /\ UNCHANGED <<programa, espacio, contextos, solicitudes, ejecutando, espera, buffer,
                     alCpu, alKernel, cpu, diccionario_interrupciones, entrada>>
  BY DEF Desbloquear
<1>2. /\ programa' = programa /\ espacio' = espacio /\ contextos' = contextos
      /\ solicitudes' = solicitudes /\ ejecutando' = ejecutando /\ espera' = espera
      /\ buffer' = buffer /\ alCpu' = alCpu /\ alKernel' = alKernel /\ pcb' = pcb
      /\ linea' = linea /\ salir_ciclo_instruccion' = salir_ciclo_instruccion
      /\ diccionario_interrupciones' = diccionario_interrupciones /\ entrada' = entrada
  BY <1>1 DEF cpu
<1>3. estado' \in [Procesos -> Estados] /\ \A q \in Procesos : q # p => estado'[q] = estado[q]
  BY <1>1 DEF Inv, Tipos, Estados
<1>4. Tipos'
  BY <1>2, <1>3 DEF Inv, Tipos
<1>5. Turno'
  <2>1. espera = TRUE => ejecutando \in Procesos /\ ejecutando # p
    BY <1>1 DEF Inv, Turno
  <2> QED BY <1>2, <1>3, <2>1 DEF Inv, Turno, Ida, EnCpu, Vuelta, CpuLibre, CpuOcupada
<1>6. ASSUME NEW q \in Procesos, solicitudes'[q] # Nadie
      PROVE  EnEspera(q)'
  <2>1. q # p
    BY <1>1, <1>2, <1>6
  <2>2. EnEspera(q)
    BY <1>2, <1>6 DEF Inv, Solicitudes
  <2>3. q = ejecutando' /\ espera' = FALSE => buffer' = <<>>
    BY <1>2, <2>2 DEF EnEspera
  <2> QED BY <1>2, <1>3, <2>1, <2>2, <2>3, EnEsperaSigue
<1>7. Solicitudes' /\ Entrada'
  BY <1>2, <1>6, EntradaSigue DEF Inv, Solicitudes
<1> QED BY <1>4, <1>5, <1>7 DEF Inv

(* A request goes, and the process is no longer blocked. *)
LEMMA SinSolicitudInv ==
  ASSUME Inv, NEW p \in Procesos, solicitudes[p] # Nadie,
         NEW e \in {"READY", "EXIT"}, estado' = [estado EXCEPT ![p] = e],
         solicitudes' = [solicitudes EXCEPT ![p] = Nadie],
         UNCHANGED <<programa, espacio, contextos, ejecutando, espera, buffer, alCpu, alKernel,
                     cpu, diccionario_interrupciones>>,
         \/ entrada' = Nadie
         \/ entrada' = entrada /\ (entrada # Nadie => entrada.pid # p)
  PROVE  Inv'
<1>2. /\ programa' = programa /\ espacio' = espacio /\ contextos' = contextos
      /\ ejecutando' = ejecutando /\ espera' = espera
      /\ buffer' = buffer /\ alCpu' = alCpu /\ alKernel' = alKernel /\ pcb' = pcb
      /\ linea' = linea /\ salir_ciclo_instruccion' = salir_ciclo_instruccion
      /\ diccionario_interrupciones' = diccionario_interrupciones
  BY DEF cpu
<1>3. /\ estado' \in [Procesos -> Estados] /\ DOMAIN solicitudes' = Procesos
      /\ solicitudes'[p] = Nadie
      /\ \A q \in Procesos : q # p => estado'[q] = estado[q] /\ solicitudes'[q] = solicitudes[q]
  BY DEF Inv, Tipos, Estados
<1>4. Tipos'
  BY <1>2, <1>3 DEF Inv, Tipos
<1>5. Turno'
  <2>1. estado[p] = "BLOCKED"
    BY PedidoDe
  <2>2. espera = TRUE => ejecutando \in Procesos /\ ejecutando # p
    BY <2>1 DEF Inv, Turno
  <2> QED BY <1>2, <1>3, <2>2 DEF Inv, Turno, Ida, EnCpu, Vuelta, CpuLibre, CpuOcupada
<1>6. ASSUME NEW q \in Procesos, solicitudes'[q] # Nadie
      PROVE  EnEspera(q)'
  <2>1. q # p
    BY <1>3, <1>6
  <2>2. EnEspera(q)
    BY <1>3, <1>6, <2>1 DEF Inv, Solicitudes
  <2>3. q = ejecutando' /\ espera' = FALSE => buffer' = <<>>
    BY <1>2, <2>2 DEF EnEspera
  <2> QED BY <1>2, <1>3, <2>1, <2>2, <2>3, EnEsperaSigue
<1>7. Entrada'
  <2>1. CASE entrada' = Nadie
    BY <2>1 DEF Entrada
  <2>2. CASE entrada' = entrada /\ (entrada # Nadie => entrada.pid # p)
    <3>1. entrada # Nadie => entrada.pid \in Procesos
      BY DEF Inv, Entrada, DeEntrada
    <3>2. entrada # Nadie => /\ contextos'[entrada.pid] = contextos[entrada.pid]
                             /\ solicitudes'[entrada.pid] = solicitudes[entrada.pid]
      BY <1>2, <1>3, <2>2, <3>1
    <3> QED BY <1>2, <2>2, <3>2, EntradaSigue DEF Inv
  <2> QED BY <2>1, <2>2
<1>8. Solicitudes'
  BY <1>6 DEF Solicitudes
<1> QED BY <1>4, <1>5, <1>7, <1>8 DEF Inv

(* An interface ends, and the process goes back to READY. *)
LEMMA TerminarIoInv ==
  ASSUME Inv, NEW p \in Procesos, solicitudes[p] # Nadie, terminar_io(p),
         \/ entrada' = Nadie
         \/ entrada' = entrada /\ (entrada # Nadie => entrada.pid # p)
  PROVE  Inv'
BY SinSolicitudInv DEF terminar_io

(* An interface dies, and the process ends. *)
LEMMA InterfazCaidaInv ==
  ASSUME Inv, NEW p \in Procesos, InterfazCaida(p)
  PROVE  Inv'
<1>1. \/ entrada' = Nadie
      \/ entrada' = entrada /\ (entrada # Nadie => entrada.pid # p)
  BY DEF InterfazCaida
<1> QED BY <1>1, SinSolicitudInv DEF InterfazCaida

(* What the interface works on is the request of its process. *)
LEMMA EntradaDe ==
  ASSUME Inv, entrada # Nadie
  PROVE  /\ entrada \in DeEntrada /\ entrada.pid \in Procesos
         /\ solicitudes[entrada.pid] # Nadie
         /\ solicitudes[entrada.pid].codigo_operacion = entrada.op
         /\ entrada.op = codigo_de(programa, entrada.pid, contextos[entrada.pid])
         /\ LET o == solicitud(entrada.pid) IN
            /\ Completa(entrada.op, o) /\ o.cantidad \in Nat /\ o.dirs \in Seq(Nat)
            /\ Len(o.dirs) = 2 * o.cantidad /\ entrada.direcciones = o.dirs
            /\ solicitudes[entrada.pid] = Solicitud(entrada.pid, entrada.op, o)
            /\ entrada.indice \in 0 .. o.cantidad
            /\ \E f : /\ Suma(f, o.dirs, o.cantidad)
                      /\ entrada.op = "IO_FS_READ" => entrada.texto = f[o.cantidad]
                      /\ entrada.leidos = menor(f[entrada.indice], entrada.texto)
<1> DEFINE p == entrada.pid
           op == entrada.op
           s == solicitud(p)
<1>1. /\ entrada \in DeEntrada /\ p \in Procesos /\ solicitudes[p] # Nadie
      /\ op = codigo_de(programa, p, contextos[p])
      /\ entrada.indice \in Nat
  BY DEF Inv, Entrada, DeEntrada
<1>2. PICK o, f : /\ Pide(programa, p, contextos[p], o)
                  /\ solicitudes[p] = Solicitud(p, op, o)
                  /\ entrada.direcciones = o.dirs
                  /\ Suma(f, o.dirs, o.cantidad)
                  /\ entrada.indice <= o.cantidad
                  /\ op = "IO_FS_READ" => entrada.texto = f[o.cantidad]
                  /\ entrada.leidos = menor(f[entrada.indice], entrada.texto)
  BY DEF Inv, Entrada
<1>3. Completa(op, o)
  BY <1>1, <1>2 DEF Pide, EsPedido, codigo_de
<1>4. s = o /\ solicitudes[p].codigo_operacion = op
  BY <1>1, <1>2, <1>3, SolicitudDe
<1>5. o.cantidad \in Nat /\ o.dirs \in Seq(Nat) /\ Len(o.dirs) = 2 * o.cantidad
  BY <1>3 DEF Completa, Operacion
<1>6. entrada.indice \in 0 .. o.cantidad
  BY <1>1, <1>2, <1>5
<1> HIDE DEF s, p, op
<1>7. /\ Completa(op, s) /\ s.cantidad \in Nat /\ s.dirs \in Seq(Nat)
      /\ Len(s.dirs) = 2 * s.cantidad /\ entrada.direcciones = s.dirs
      /\ solicitudes[p] = Solicitud(p, op, s)
      /\ entrada.indice \in 0 .. s.cantidad
      /\ Suma(f, s.dirs, s.cantidad)
      /\ op = "IO_FS_READ" => entrada.texto = f[s.cantidad]
      /\ entrada.leidos = menor(f[entrada.indice], entrada.texto)
  BY <1>2, <1>3, <1>4, <1>5, <1>6
<1> QED BY <1>1, <1>4, <1>7 DEF s, p, op

(* A request that waits has all its parts. *)
LEMMA InvPedidoCompleto ==
  ASSUME Inv
  PROVE  PedidoCompleto
<1> SUFFICES ASSUME NEW p \in Procesos, solicitudes[p] # Nadie
             PROVE  LET o == solicitud(p)
                    IN  /\ Basura \notin Range(o.dirs) /\ Basura \notin Range(o.numeros)
                        /\ o.cantidad # Basura /\ o.nombre # Basura
                        /\ o.buffer = crear_buffer
                        /\ p = ejecutando /\ ~espera => buffer = crear_buffer
  BY DEF PedidoCompleto
<1> DEFINE o == solicitud(p)
<1>1. Completa(codigo_de(programa, p, contextos[p]), o)
  BY PedidoDe
<1>2. EnEspera(p)
  BY DEF Inv, Solicitudes
<1>3. p = ejecutando /\ ~espera => buffer = <<>>
  BY <1>2 DEF EnEspera, Inv, Turno
<1>4. Basura \notin Nat /\ Basura \notin Textos
  BY CicloCPUAssumption DEF Textos
<1> HIDE DEF o
<1>5. /\ o.nombre \in Textos /\ o.numeros \in Seq(Nat) /\ o.cantidad \in Nat
      /\ o.dirs \in Seq(Nat) /\ o.buffer = <<>>
  BY <1>1 DEF Completa, Operacion
<1>6. ASSUME NEW s \in Seq(Nat) PROVE Basura \notin Range(s)
  BY <1>4, ElementOfSeq DEF Range
<1> QED BY <1>3, <1>4, <1>5, <1>6 DEF crear_buffer, o

(* The invariant, when an interface that wrote in memory ends its request. *)
LEMMA FinEntradaInv ==
  ASSUME Inv, FinEntrada
  PROVE  Inv'
<1>1. PICK p : p = entrada.pid
  OBVIOUS
<1>2. entrada # Nadie /\ terminar_io(p) /\ entrada' = Nadie
  BY <1>1 DEF FinEntrada, terminar_io
<1>3. p \in Procesos /\ solicitudes[p] # Nadie
  BY <1>1, <1>2, EntradaDe
<1> QED BY <1>2, <1>3, TerminarIoInv

(* The invariant, when the other interfaces end a request.                 *)
LEMMA FinIOInv ==
  ASSUME Inv, NEW p \in Procesos, FinIO(p)
  PROVE  Inv'
<1>1. /\ solicitudes[p] # Nadie
      /\ solicitudes[p].codigo_operacion \notin {"IO_STDIN_READ", "IO_FS_READ"}
      /\ terminar_io(p) /\ entrada' = entrada
  BY DEF FinIO
<1>2. entrada # Nadie => entrada.pid # p
  <2>1. entrada # Nadie => solicitudes[entrada.pid].codigo_operacion = entrada.op
                           /\ entrada \in DeEntrada
    BY EntradaDe
  <2>2. entrada \in DeEntrada => entrada.op \in {"IO_STDIN_READ", "IO_FS_READ"}
    BY DEF DeEntrada
  <2> QED BY <1>1, <2>1, <2>2
<1> QED BY <1>1, <1>2, TerminarIoInv

(* The interface that writes takes a request, and has written nothing.     *)
LEMMA AtenderEntradaInv ==
  ASSUME Inv, NEW p \in Procesos, AtenderEntrada(p)
  PROVE  Inv'
<1> DEFINE o == solicitud(p)
           op == solicitudes[p].codigo_operacion
<1>1. /\ entrada = Nadie /\ solicitudes[p] # Nadie
      /\ entrada'.op \in {"IO_STDIN_READ", "IO_FS_READ"}
      /\ UNCHANGED <<programa, espacio, delKernel, alCpu, alKernel, cpu,
                     diccionario_interrupciones>>
  BY DEF AtenderEntrada
<1>2. PICK n \in 0 .. bytes_de(o) + 1 :
        /\ op = "IO_STDIN_READ" \/ n = bytes_de(o)
        /\ entrada' = [pid |-> buffer_desempaquetar(solicitudes[p].buffer, 1)[1], op |-> op,
                       direcciones |-> o.dirs, texto |-> n, leidos |-> 0, indice |-> 0]
  BY DEF AtenderEntrada
<1>3. /\ buffer_desempaquetar(solicitudes[p].buffer, 1)[1] = p
      /\ op = codigo_de(programa, p, contextos[p])
      /\ Pide(programa, p, contextos[p], o)
      /\ solicitudes[p] = Solicitud(p, op, o)
      /\ Completa(op, o)
  BY <1>1, PedidoDe
<1> HIDE DEF o, op
<1>4. o.cantidad \in Nat /\ o.dirs \in Seq(Nat) /\ Len(o.dirs) = 2 * o.cantidad
  BY <1>3 DEF Completa, Operacion
<1>5. PICK f : Suma(f, o.dirs, o.cantidad) /\ bytes_de(o) = f[o.cantidad]
  BY <1>4, BytesDePedido
<1>6. f[o.cantidad] \in Nat /\ f[0] = 0
  BY <1>4, <1>5 DEF Suma
<1>7. entrada' = [pid |-> p, op |-> op, direcciones |-> o.dirs, texto |-> n, leidos |-> 0,
                  indice |-> 0]
  BY <1>2, <1>3
<1>8. n \in Nat /\ (op = "IO_FS_READ" => n = f[o.cantidad])
  BY <1>2, <1>5, <1>6
<1>9. op \in {"IO_STDIN_READ", "IO_FS_READ"}
  BY <1>1, <1>7
<1>10. entrada' \in DeEntrada
  BY <1>4, <1>7, <1>8, <1>9 DEF DeEntrada
<1>11. /\ programa' = programa /\ espacio' = espacio /\ estado' = estado
       /\ contextos' = contextos /\ solicitudes' = solicitudes /\ ejecutando' = ejecutando
       /\ espera' = espera /\ buffer' = buffer /\ alCpu' = alCpu /\ alKernel' = alKernel
       /\ pcb' = pcb /\ linea' = linea
       /\ salir_ciclo_instruccion' = salir_ciclo_instruccion
       /\ diccionario_interrupciones' = diccionario_interrupciones
  BY <1>1 DEF delKernel, cpu
<1>12. Entrada'
  <2>1. /\ entrada'.pid = p /\ entrada'.op = op /\ entrada'.direcciones = o.dirs
        /\ entrada'.texto = n /\ entrada'.leidos = 0 /\ entrada'.indice = 0
    BY <1>7
  <2>2. menor(f[0], n) = 0
    BY <1>6, <1>8 DEF menor
  <2>3. op = codigo_de(programa', p, contextos'[p])
    BY <1>3, <1>11
  <2>4. Pide(programa', p, contextos'[p], o) /\ solicitudes'[p] = Solicitud(p, op, o)
    BY <1>3, <1>11
  <2>5. solicitudes'[p] # Nadie
    BY <1>1, <1>11
  <2>6. 0 <= o.cantidad
    BY <1>4
  <2> QED BY <1>5, <1>8, <1>10, <2>1, <2>2, <2>3, <2>4, <2>5, <2>6 DEF Entrada
<1>13. Tipos'
  BY <1>11 DEF Inv, Tipos
<1>14. Turno'
  BY <1>11 DEF Inv, Turno, Ida, EnCpu, Vuelta, CpuLibre, CpuOcupada
<1>15. Solicitudes'
  BY <1>11 DEF Inv, Solicitudes, EnEspera
<1> QED BY <1>12, <1>13, <1>14, <1>15 DEF Inv

(* There is another piece, and n bytes of the text for it. *)
Pieza(n) ==
  /\ 2 * entrada.indice < Len(entrada.direcciones)
  /\ \/ /\ entrada.op = "IO_STDIN_READ" /\ entrada.leidos < entrada.texto
        /\ n = menor(entrada.texto - entrada.leidos, bytes_pedidos)
     \/ entrada.op = "IO_FS_READ" /\ n = bytes_pedidos

(* The next piece of the request, and how many bytes of it are written.    *)
LEMMA SiguientePieza ==
  ASSUME Inv, entrada # Nadie, NEW n, enviar_escritura(n),
         Pieza(n)
  PROVE  LET o == solicitud(entrada.pid)
             i == entrada.indice + 1
         IN  /\ i \in 1 .. o.cantidad
             /\ direccion_fisica = o.dirs[2 * i - 1] /\ direccion_fisica \in Nat
             /\ bytes_pedidos = o.dirs[2 * i] /\ bytes_pedidos \in Nat
             /\ entrada' = [entrada EXCEPT !.leidos = @ + n, !.indice = @ + 1]
             /\ \E f : /\ Suma(f, o.dirs, o.cantidad)
                       /\ entrada.op = "IO_FS_READ" => entrada.texto = f[o.cantidad]
                       /\ f[i] = f[i - 1] + bytes_pedidos /\ f[i] \in Nat /\ f[i - 1] \in Nat
                       /\ entrada.leidos = f[i - 1] /\ f[i - 1] <= entrada.texto
                       /\ n \in Nat /\ n <= bytes_pedidos
                       /\ entrada.leidos + n = menor(f[i], entrada.texto)
<1> DEFINE o == solicitud(entrada.pid)
           i == entrada.indice + 1
           t == entrada.texto
           l == entrada.leidos
           c == o.cantidad
<1>1. /\ entrada \in DeEntrada
      /\ Completa(entrada.op, o) /\ c \in Nat /\ o.dirs \in Seq(Nat)
      /\ Len(o.dirs) = 2 * c /\ entrada.direcciones = o.dirs
      /\ entrada.indice \in 0 .. c
  BY EntradaDe
<1>2. PICK f : /\ Suma(f, o.dirs, c)
               /\ entrada.op = "IO_FS_READ" => t = f[c]
               /\ l = menor(f[entrada.indice], t)
  BY EntradaDe
<1>3. t \in Nat /\ l \in Nat
  BY <1>1 DEF DeEntrada
<1>4. entrada' = [entrada EXCEPT !.leidos = @ + n, !.indice = @ + 1]
  BY DEF enviar_escritura
<1> DEFINE dirs == o.dirs
           j == entrada.indice
<1>5. direccion_fisica = dirs[2 * j + 1] /\ bytes_pedidos = dirs[2 * j + 2]
  BY <1>1 DEF direccion_fisica, bytes_pedidos
<1>6. 2 * j < Len(entrada.direcciones) => j # c
  BY <1>1
<1> HIDE DEF dirs, o, c, t, l, j
<1>7. Suma(f, dirs, c) /\ dirs \in Seq(Nat) /\ Len(dirs) = 2 * c /\ j \in 0 .. c
      /\ l = menor(f[j], t)
  BY <1>1, <1>2 DEF dirs, c, j
<1>8. \A k \in 0 .. c : f[k] \in Nat /\ f[k] <= f[c]
  BY <1>1, <1>7, SumaCrece
<1>9. j # c
  BY <1>6 DEF Pieza, j
<1>10. /\ i = j + 1 /\ i \in 1 .. c /\ i - 1 = j /\ 2 * j + 1 = 2 * i - 1 /\ 2 * j + 2 = 2 * i
       /\ 2 * i - 1 \in 1 .. Len(dirs) /\ 2 * i \in 1 .. Len(dirs)
  <2>1. i = j + 1
    BY DEF j
  <2> HIDE DEF i
  <2> QED BY <1>1, <1>7, <1>9, <2>1
<1>11. /\ direccion_fisica = dirs[2 * i - 1] /\ bytes_pedidos = dirs[2 * i]
       /\ direccion_fisica \in Nat /\ bytes_pedidos \in Nat
  <2> HIDE DEF i
  <2>1. dirs[2 * i - 1] \in Nat /\ dirs[2 * i] \in Nat
    BY <1>7, <1>10, ElementOfSeq
  <2>2. direccion_fisica = dirs[2 * i - 1] /\ bytes_pedidos = dirs[2 * i]
    BY <1>5, <1>10
  <2> QED BY <2>1, <2>2
<1> DEFINE b == bytes_pedidos
<1>12. f[i] = f[i - 1] + b /\ f[i] \in Nat /\ f[i - 1] \in Nat /\ f[i] <= f[c]
       /\ f[i - 1] <= f[c] /\ l = menor(f[i - 1], t)
  <2> HIDE DEF i
  <2>1. f[i] = f[i - 1] + dirs[2 * i]
    BY <1>7, <1>10 DEF Suma
  <2>2. i \in 0 .. c /\ i - 1 \in 0 .. c
    <3>1. i \in 1 .. c
      BY <1>10
    <3>2. c \in Nat
      BY <1>1 DEF c
    <3> QED BY <3>1, <3>2
  <2> QED BY <1>7, <1>8, <1>10, <1>11, <2>1, <2>2
<1> HIDE DEF i, b
<1>13. /\ l = f[i - 1] /\ f[i - 1] <= t /\ n \in Nat /\ n <= b
       /\ l + n = menor(f[i], t)
  <2>1. CASE entrada.op = "IO_STDIN_READ" /\ entrada.leidos < entrada.texto
             /\ n = menor(entrada.texto - entrada.leidos, bytes_pedidos)
    <3>1. l < t /\ n = menor(t - l, b) /\ b \in Nat
      BY <1>11, <2>1 DEF l, t, b
    <3> QED BY <1>3, <1>12, <3>1 DEF menor
  <2>2. CASE entrada.op = "IO_FS_READ" /\ n = bytes_pedidos
    <3>1. t = f[c] /\ n = b /\ b \in Nat
      BY <1>2, <1>11, <2>2 DEF b
    <3> QED BY <1>3, <1>12, <3>1 DEF menor
  <2> QED BY <2>1, <2>2 DEF Pieza
<1>14. entrada.leidos = l /\ entrada.texto = t
  BY DEF l, t
<1>15. \E g : /\ Suma(g, dirs, c)
              /\ entrada.op = "IO_FS_READ" => t = g[c]
              /\ g[i] = g[i - 1] + b /\ g[i] \in Nat /\ g[i - 1] \in Nat
              /\ l = g[i - 1] /\ g[i - 1] <= t
              /\ n \in Nat /\ n <= b
              /\ l + n = menor(g[i], t)
  BY <1>2, <1>7, <1>12, <1>13
<1> QED BY <1>4, <1>10, <1>11, <1>15 DEF o, i, t, l, c, b, dirs

(* What the memory holds after a piece: what was announced of it. *)
LEMMA EscrituraDe ==
  ASSUME espacio \in Espacio, direccion_fisica \in Nat, bytes_pedidos \in Nat, NEW n \in Nat,
         enviar_escritura(n)
  PROVE  /\ espacio' \in Espacio
         /\ \A x \in 0 .. TAM_MEMORIA - 1 :
              espacio'[x] = IF x \in direccion_fisica .. direccion_fisica + bytes_pedidos - 1
                              THEN IF x - direccion_fisica + 1 <= n THEN LETRA ELSE RESTO
                              ELSE espacio[x]
<1> DEFINE df == direccion_fisica
           b == bytes_pedidos
           d == [k \in 1 .. b |-> IF k <= n THEN LETRA ELSE RESTO]
<1>1. espacio' = escribir(espacio, df, d)
  BY DEF enviar_escritura
<1>2. LETRA \in Bytes /\ RESTO \in Bytes
  BY RegistrosAssumption DEF LETRA, RESTO, Bytes
<1> DEFINE e == espacio'
<1> HIDE DEF df, b, e
<1>3. df \in Nat /\ b \in Nat
  BY DEF df, b
<1>4. d \in Seq(Bytes) /\ Len(d) = b /\ \A k \in 1 .. b : d[k] = IF k <= n THEN LETRA ELSE RESTO
  BY <1>2, <1>3
<1> HIDE DEF d
<1>5. /\ escribir(espacio, df, d) \in Espacio
      /\ \A x \in 0 .. TAM_MEMORIA - 1 :
           escribir(espacio, df, d)[x] = IF x \in df .. df + Len(d) - 1
                                           THEN d[x - df + 1] ELSE espacio[x]
  BY <1>3, <1>4, EscribirDe
<1>6. e = escribir(espacio, df, d)
  BY <1>1 DEF e
<1>7. ASSUME NEW x \in 0 .. TAM_MEMORIA - 1
      PROVE  e[x] = IF x \in df .. df + b - 1
                      THEN IF x - df + 1 <= n THEN LETRA ELSE RESTO ELSE espacio[x]
  <2>1. x \in df .. df + b - 1 => x - df + 1 \in 1 .. b
    BY <1>3
  <2> QED BY <1>4, <1>5, <1>6, <2>1
<1> QED BY <1>5, <1>6, <1>7 DEF df, b, e

(* A piece is written. *)
LEMMA EscrituraInv ==
  ASSUME Inv, interfaz_stdin \/ interfaz_fs_read
  PROVE  Inv'
<1>1. PICK n : /\ entrada # Nadie /\ enviar_escritura(n)
               /\ Pieza(n)
  BY DEF interfaz_stdin, interfaz_fs_read, Pieza
<1> DEFINE o == solicitud(entrada.pid)
           i == entrada.indice + 1
           p == entrada.pid
<1>2. /\ i \in 1 .. o.cantidad
      /\ direccion_fisica \in Nat /\ bytes_pedidos \in Nat
      /\ entrada' = [entrada EXCEPT !.leidos = @ + n, !.indice = @ + 1]
      /\ \E f : /\ Suma(f, o.dirs, o.cantidad)
                /\ entrada.op = "IO_FS_READ" => entrada.texto = f[o.cantidad]
                /\ n \in Nat
                /\ entrada.leidos + n = menor(f[i], entrada.texto)
  BY <1>1, SiguientePieza
<1>3. /\ entrada \in DeEntrada /\ p \in Procesos
      /\ solicitudes[p] # Nadie /\ solicitudes[p].codigo_operacion = entrada.op
      /\ entrada.op = codigo_de(programa, p, contextos[p])
      /\ entrada.direcciones = o.dirs /\ o.cantidad \in Nat
  BY <1>1, EntradaDe
<1>4. Pide(programa, p, contextos[p], o) /\ solicitudes[p] = Solicitud(p, entrada.op, o)
  BY <1>3, PedidoDe
<1>5. /\ programa' = programa /\ estado' = estado
      /\ contextos' = contextos /\ solicitudes' = solicitudes /\ ejecutando' = ejecutando
      /\ espera' = espera /\ buffer' = buffer /\ alCpu' = alCpu /\ alKernel' = alKernel
      /\ pcb' = pcb /\ linea' = linea
      /\ salir_ciclo_instruccion' = salir_ciclo_instruccion
      /\ diccionario_interrupciones' = diccionario_interrupciones
  BY <1>1 DEF enviar_escritura, delKernel, cpu
<1>6. espacio' \in Espacio
  <2>1. espacio \in Espacio /\ n \in Nat
    BY <1>2 DEF Inv, Tipos
  <2> QED BY <1>1, <1>2, <2>1, EscrituraDe
<1>7. Tipos'
  BY <1>5, <1>6 DEF Inv, Tipos
<1>8. Turno'
  BY <1>5 DEF Inv, Turno, Ida, EnCpu, Vuelta, CpuLibre, CpuOcupada
<1>9. Solicitudes'
  BY <1>5 DEF Inv, Solicitudes, EnEspera
<1>10. /\ entrada' = [entrada EXCEPT !.leidos = entrada.leidos + n, !.indice = i]
       /\ i \in Nat /\ i <= o.cantidad /\ entrada.leidos + n \in Nat
  <2>1. i \in Nat /\ i <= o.cantidad
    BY <1>2, <1>3
  <2>2. entrada.leidos \in Nat
    BY <1>3 DEF DeEntrada
  <2> QED BY <1>2, <2>1, <2>2
<1> HIDE DEF o, i
<1>11. PICK f : /\ Suma(f, o.dirs, o.cantidad)
                /\ entrada.op = "IO_FS_READ" => entrada.texto = f[o.cantidad]
                /\ entrada.leidos + n = menor(f[i], entrada.texto)
  BY <1>2
<1>12. /\ entrada' \in DeEntrada
       /\ entrada'.pid = p /\ entrada'.op = entrada.op
       /\ entrada'.direcciones = entrada.direcciones /\ entrada'.texto = entrada.texto
       /\ entrada'.leidos = entrada.leidos + n /\ entrada'.indice = i
  BY <1>3, <1>10 DEF DeEntrada
<1>13. Entrada'
  <2> DEFINE u == entrada'
  <2>1. /\ u \in DeEntrada /\ u.pid = p /\ u.op = entrada.op /\ u.direcciones = o.dirs
        /\ u.texto = entrada.texto /\ u.leidos = menor(f[i], entrada.texto) /\ u.indice = i
    BY <1>3, <1>11, <1>12
  <2>2. /\ solicitudes'[p] # Nadie /\ entrada.op = codigo_de(programa', p, contextos'[p])
        /\ Pide(programa', p, contextos'[p], o)
        /\ solicitudes'[p] = Solicitud(p, entrada.op, o)
    BY <1>3, <1>4, <1>5
  <2> HIDE DEF p
  <2> QED BY <1>10, <1>11, <2>1, <2>2 DEF Entrada
<1> QED BY <1>7, <1>8, <1>9, <1>13 DEF Inv

-----------------------------------------------------------------------------
(* The theorems.                                                           *)

(* The invariant holds at the start.                                       *)
LEMMA InitInv ==
  ASSUME Init
  PROVE  Inv
<1> USE DEF Init
<1>1. espacio \in Espacio
  BY CicloCPUAssumption DEF Espacio, Bytes
<1>2. inicializarPCB \in Contexto
  BY DEF inicializarPCB, Contexto, Nombres
<1>3. pcb \in [pid : Procesos \cup {Nadie}, pc : Nat, registros : [Nombres -> Nat]]
  BY <1>2 DEF t_pcb, Contexto
<1>4. Tipos
  BY <1>1, <1>2, <1>3 DEF Tipos, Estados
<1>5. Turno /\ Solicitudes /\ Entrada
  BY DEF Turno, CpuLibre, Solicitudes, Entrada
<1> QED BY <1>4, <1>5 DEF Inv

(* Every step keeps the invariant.                                         *)
LEMMA NextInv ==
  ASSUME Inv, [Next]_vars
  PROVE  Inv'
<1>1. CASE RecibirContexto
  BY <1>1, RecibirContextoInv
<1>2. CASE execute
  <2>1. PasoSigue \/ PasoSale
    BY <1>2, EjecutarPasos DEF Inv
  <2> QED BY <2>1, PasoSigueInv, PasoSaleInv
<1>3. CASE check_interrupt
  BY <1>3, CheckInterruptInv
<1>4. CASE \E tipo \in Interrupciones : atender_cpu_kernel_interrupt(tipo)
  BY <1>4, InterrumpirInv
<1>5. CASE ManejarFin
  BY <1>5, ManejarFinInv
<1>6. CASE ManejarQuantum
  BY <1>6, ManejarQuantumInv
<1>7. CASE ManejarRecurso
  BY <1>7, ManejarRecursoInv
<1>8. CASE ManejarIO
  BY <1>8, ManejarIOInv
<1>9. CASE interfaz_stdin \/ interfaz_fs_read
  BY <1>9, EscrituraInv
<1>10. CASE FinEntrada
  BY <1>10, FinEntradaInv
<1>11. ASSUME NEW p \in Procesos, Despachar(p) \/ Desbloquear(p) \/ AtenderEntrada(p)
                                   \/ FinIO(p) \/ InterfazCaida(p)
       PROVE  Inv'
  BY <1>11, DespacharInv, DesbloquearInv, AtenderEntradaInv, FinIOInv, InterfazCaidaInv
<1>12. CASE UNCHANGED vars
  <2>1. /\ programa' = programa /\ espacio' = espacio /\ estado' = estado
        /\ contextos' = contextos /\ solicitudes' = solicitudes /\ ejecutando' = ejecutando
        /\ espera' = espera /\ buffer' = buffer /\ alCpu' = alCpu /\ alKernel' = alKernel
        /\ pcb' = pcb /\ linea' = linea
        /\ salir_ciclo_instruccion' = salir_ciclo_instruccion
        /\ diccionario_interrupciones' = diccionario_interrupciones /\ entrada' = entrada
    BY <1>12 DEF vars, delKernel, cpu
  <2>2. Tipos'
    BY <2>1 DEF Inv, Tipos
  <2>3. Turno'
    BY <2>1 DEF Inv, Turno, Ida, EnCpu, Vuelta, CpuLibre, CpuOcupada
  <2>4. Solicitudes' /\ Entrada'
    BY <1>12, SinKernel DEF Inv, vars
  <2> QED BY <2>2, <2>3, <2>4 DEF Inv
<1> QED BY <1>1, <1>2, <1>3, <1>4, <1>5, <1>6, <1>7, <1>8, <1>9, <1>10, <1>11, <1>12 DEF Next

(* The invariant: where the context of the turn is, and that each request  *)
(* is that of the last instruction of its process.                         *)
THEOREM SiempreInv == Spec => []Inv
<1>1. Init => Inv
  BY InitInv
<1>2. Inv /\ [Next]_vars => Inv'
  BY NextInv
<1> QED BY <1>1, <1>2, PTL DEF Spec

(* No part of a request is lost or left over between the CPU, the kernel   *)
(* and the interface (agregar_a_paquete and buffer_desempaquetar).         *)
THEOREM SiemprePedidoCompleto == Spec => []PedidoCompleto
<1>1. Inv => PedidoCompleto
  BY InvPedidoCompleto
<1> QED BY <1>1, SiempreInv, PTL

-----------------------------------------------------------------------------
(* What the interfaces write.                                              *)

(* The access of the last instruction of p. *)
ultima(p) == programa[p][contextos[p].pc]
base_de(p) == leer_reg(contextos[p], ultima(p).r)
tamanio_de(p) == leer_reg(contextos[p], ultima(p).s)
trozos_de(p) == mmu_agregar_dirs(base_de(p), tamanio_de(p))

(* The request that p waits for has the pieces of that access. *)
Acceso(p) ==
  /\ base_de(p) \in Nat /\ tamanio_de(p) \in Nat
  /\ tamanio_de(p) > 0 => base_de(p) + tamanio_de(p) <= TamProceso
  /\ Corta(trozos_de(p), base_de(p), base_de(p), base_de(p) + tamanio_de(p),
           offset(base_de(p)), offset(base_de(p)))
  /\ solicitud(p).cantidad = Len(trozos_de(p))
  /\ Traduce(p, trozos_de(p), solicitud(p).dirs)

(* The request of a process that waits for an interface with addresses     *)
(* covers the bytes of its last instruction.                               *)
LEMMA AccesoDe ==
  ASSUME Inv, NEW p \in Procesos, solicitudes[p] # Nadie,
         solicitudes[p].codigo_operacion \in ConDirecciones
  PROVE  Acceso(p)
<1> DEFINE m == contextos[p]
           i == ultima(p)
           dl == base_de(p)
           t == tamanio_de(p)
<1>1. /\ Pide(programa, p, contextos[p], solicitud(p))
      /\ solicitudes[p].codigo_operacion = codigo_de(programa, p, contextos[p])
  BY PedidoDe
<1>2. EsPedido(p, m, i, solicitud(p)) /\ i.code \in ConDirecciones
  BY <1>1 DEF Pide, codigo_de, ultima
<1>3. dl \in Nat /\ t \in Nat
  <2>1. m.registros \in [Nombres -> Nat]
    BY DEF Inv, Tipos, Contexto
  <2> QED BY <2>1, LeerRegNat DEF base_de, tamanio_de
<1>4. tiene(dl, t) /\ solicitud(p).cantidad = Len(trozos_de(p))
      /\ Traduce(p, trozos_de(p), solicitud(p).dirs)
  BY <1>2 DEF EsPedido, base_de, tamanio_de, trozos_de
<1> HIDE DEF dl, t
<1>5. Corta(mmu_agregar_dirs(dl, t), dl, dl, dl + t, offset(dl), offset(dl))
  <2>1. offset(dl) \in 0 .. tamanio_pagina - 1
    BY <1>3, OffsetDe
  <2> QED BY <1>3, <2>1, TrozosCortan DEF mmu_agregar_dirs
<1> QED BY <1>3, <1>4, <1>5 DEF Acceso, tiene, trozos_de, dl, t

(* A piece of an access. *)
LEMMA TrozoDe ==
  ASSUME NEW p \in Procesos, Acceso(p), NEW k \in 1 .. Len(trozos_de(p))
  PROVE  /\ Len(trozos_de(p)) \in Nat
         /\ trozos_de(p)[k].dl \in Nat /\ trozos_de(p)[k].bytes \in Nat \ {0}
         /\ base_de(p) <= trozos_de(p)[k].dl
         /\ trozos_de(p)[k].dl + trozos_de(p)[k].bytes <= base_de(p) + tamanio_de(p)
         /\ trozos_de(p)[k].dl \in 0 .. TamProceso - 1
         /\ trozos_de(p)[k].dl + trozos_de(p)[k].bytes <= TamProceso
         /\ k = 1 => trozos_de(p)[k].dl = base_de(p)
         /\ trozos_de(p)[k].dl + trozos_de(p)[k].bytes
              = IF k = Len(trozos_de(p)) THEN base_de(p) + tamanio_de(p) ELSE trozos_de(p)[k + 1].dl
<1> DEFINE ts == trozos_de(p)
           a == base_de(p)
           t == tamanio_de(p)
<1>1. /\ a \in Nat /\ t \in Nat /\ (t > 0 => a + t <= TamProceso)
      /\ Corta(ts, a, a, a + t, offset(a), offset(a))
  BY DEF Acceso
<1> HIDE DEF ts, a, t
<1>2. ts \in Seq(Trozo) /\ k \in 1 .. Len(ts) /\ Len(ts) \in Nat
  BY <1>1, LenProperties DEF Corta, ts
<1>3. ts[k] \in Trozo
  BY <1>2, ElementOfSeq
<1>4. ts[k].dl \in Nat /\ ts[k].bytes \in Nat \ {0}
  BY <1>3 DEF Trozo
<1>5. /\ a <= ts[k].dl /\ ts[k].dl + ts[k].bytes <= a + t
      /\ ts[k].dl + ts[k].bytes = IF k = Len(ts) THEN a + t ELSE ts[k + 1].dl
  BY <1>1, <1>2 DEF Corta
<1>6. ts # <<>>
  BY <1>2
<1>7. k = 1 => ts[k].dl = a
  BY <1>1, <1>6 DEF Corta
<1>8. TamProceso \in Nat
  BY TamProcesoDe
<1>9. ts[k].dl \in 0 .. TamProceso - 1 /\ ts[k].dl + ts[k].bytes <= TamProceso
  <2>1. t > 0
    BY <1>1, <1>4, <1>5
  <2> QED BY <1>1, <1>4, <1>5, <1>8, <2>1
<1> QED BY <1>2, <1>4, <1>5, <1>7, <1>9 DEF ts, a, t

(* The bytes of the first pieces are what goes before the next one.        *)
LEMMA SumaDe ==
  ASSUME NEW p \in Procesos, Acceso(p), NEW f, NEW dirs,
         Traduce(p, trozos_de(p), dirs), Suma(f, dirs, Len(trozos_de(p)))
  PROVE  /\ \A k \in 1 .. Len(trozos_de(p)) : f[k - 1] = trozos_de(p)[k].dl - base_de(p)
         /\ f[Len(trozos_de(p))] = tamanio_de(p)
<1> DEFINE ts == trozos_de(p)
           a == base_de(p)
           t == tamanio_de(p)
           n == Len(ts)
<1>1. a \in Nat /\ t \in Nat /\ n \in Nat /\ (n = 0 <=> t = 0)
  <2>1. a \in Nat /\ t \in Nat /\ ts \in Seq(Trozo) /\ (ts = <<>> <=> a = a + t)
    BY DEF Acceso, Corta
  <2>2. n \in Nat /\ (n = 0 <=> ts = <<>>)
    BY <2>1, LenProperties, EmptySeq
  <2> HIDE DEF ts, n, a, t
  <2> QED BY <2>1, <2>2
<1>2. ASSUME NEW k \in 1 .. n
      PROVE  /\ ts[k].dl \in Nat /\ ts[k].bytes \in Nat /\ (k = 1 => ts[k].dl = a)
             /\ ts[k].dl + ts[k].bytes = IF k = n THEN a + t ELSE ts[k + 1].dl
  BY TrozoDe
<1>3. f[0] = 0 /\ \A k \in 1 .. n : f[k] = f[k - 1] + ts[k].bytes
  <2>1. ASSUME NEW k \in 1 .. n PROVE f[k] = f[k - 1] + ts[k].bytes
    <3>1. f[k] = f[k - 1] + dirs[2 * k]
      BY DEF Suma
    <3>2. dirs[2 * k] = ts[k].bytes
      BY DEF Traduce
    <3> QED BY <3>1, <3>2
  <2> QED BY <2>1 DEF Suma
<1> HIDE DEF ts, a, t, n
<1> DEFINE Malos == {k \in 1 .. n : f[k - 1] # ts[k].dl - a}
<1>4. ASSUME Malos # {} PROVE FALSE
  <2>1. Malos \in SUBSET Nat
    BY <1>1
  <2>2. PICK k \in Malos : \A j \in Malos : k <= j
    <3> HIDE DEF Malos
    <3> QED BY <1>4, <2>1, HayPrimero
  <2>3. k # 1
    <3>1. CASE k = 1
      <4>1. ts[1].dl = a /\ f[1 - 1] = 0
        BY <1>2, <1>3, <3>1
      <4> QED BY <1>1, <2>2, <3>1, <4>1
    <3> QED BY <3>1
  <2> DEFINE j == k - 1
  <2>4. j \in 1 .. n /\ j # n /\ j + 1 = k /\ j < k
    BY <1>1, <2>3
  <2>5. f[j - 1] = ts[j].dl - a
    BY <2>2, <2>4
  <2>6. f[j] = f[j - 1] + ts[j].bytes /\ ts[j].dl + ts[j].bytes = ts[k].dl
        /\ ts[j].dl \in Nat /\ ts[j].bytes \in Nat
    <3> HIDE DEF j
    <3> QED BY <1>2, <1>3, <2>4
  <2>7. f[j] = ts[k].dl - a
    <3> HIDE DEF j, Malos
    <3>1. a \in Nat
      BY <1>1
    <3> QED BY <2>5, <2>6, <3>1
  <2> QED BY <2>2, <2>7
<1>5. \A k \in 1 .. n : f[k - 1] = ts[k].dl - a
  BY <1>4
<1>6. f[n] = t
  <2>1. CASE n = 0
    BY <1>1, <1>3, <2>1
  <2>2. CASE n # 0
    <3>1. n \in 1 .. n
      BY <1>1, <2>2
    <3>2. f[n] = f[n - 1] + ts[n].bytes /\ ts[n].dl + ts[n].bytes = a + t
          /\ f[n - 1] = ts[n].dl - a /\ ts[n].dl \in Nat /\ ts[n].bytes \in Nat
      BY <1>2, <1>3, <1>5, <3>1
    <3> QED BY <1>1, <3>2
  <2> QED BY <2>1, <2>2
<1> QED BY <1>5, <1>6 DEF ts, a, t, n

(* The request, as its process made it. *)
LEMMA PedidoDeAcceso ==
  ASSUME NEW p \in Procesos, Acceso(p), solicitud(p).dirs \in Seq(Nat),
         Len(solicitud(p).dirs) = 2 * solicitud(p).cantidad
  PROVE  /\ bytes_de(solicitud(p)) = tamanio_de(p)
         /\ solicitud(p).cantidad \in Nat
         /\ solicitud(p).cantidad = 0 <=> tamanio_de(p) = 0
         /\ solicitud(p).cantidad # 0 =>
              base_de(p) = CHOOSE dl \in 0 .. TamProceso - 1 : Fisica[p][dl] = solicitud(p).dirs[1]
<1> DEFINE o == solicitud(p)
           ts == trozos_de(p)
           n == Len(ts)
<1>1. o.cantidad = n /\ Traduce(p, ts, o.dirs) /\ n \in Nat /\ (n = 0 <=> tamanio_de(p) = 0)
  <2> DEFINE a == base_de(p)
             t == tamanio_de(p)
  <2>1. /\ a \in Nat /\ t \in Nat /\ ts \in Seq(Trozo) /\ (ts = <<>> <=> a = a + t)
        /\ o.cantidad = n /\ Traduce(p, ts, o.dirs)
    BY DEF Acceso, Corta
  <2> HIDE DEF ts, a, t, o
  <2>2. n \in Nat /\ (n = 0 <=> ts = <<>>)
    BY <2>1, LenProperties, EmptySeq
  <2> HIDE DEF n
  <2>3. n = 0 <=> t = 0
    BY <2>1, <2>2
  <2> QED BY <2>1, <2>2, <2>3 DEF t
<1>2. bytes_de(o) = tamanio_de(p)
  <2>1. o.cantidad \in Nat /\ o.dirs \in Seq(Nat) /\ Len(o.dirs) = 2 * o.cantidad
    BY <1>1
  <2>2. PICK f : Suma(f, o.dirs, o.cantidad) /\ bytes_de(o) = f[o.cantidad]
    <3> HIDE DEF o
    <3> QED BY <2>1, BytesDePedido
  <2>3. Traduce(p, trozos_de(p), o.dirs) /\ Suma(f, o.dirs, Len(trozos_de(p)))
    BY <1>1, <2>2
  <2> HIDE DEF o
  <2> QED BY <1>1, <2>2, <2>3, SumaDe
<1>3. ASSUME o.cantidad # 0
      PROVE  base_de(p) = CHOOSE dl \in 0 .. TamProceso - 1 : Fisica[p][dl] = o.dirs[1]
  <2> DEFINE a == base_de(p)
  <2>1. 1 \in 1 .. n
    BY <1>1, <1>3
  <2>2. o.dirs[2 * 1 - 1] = obtener_df(p, ts[1].dl)
    <3> HIDE DEF n
    <3>1. 1 \in 1 .. Len(ts)
      BY <2>1 DEF n
    <3> HIDE DEF ts, o
    <3> QED BY <1>1, <3>1 DEF Traduce
  <2>3. ts[1].dl = a /\ a \in 0 .. TamProceso - 1
    BY <2>1, TrozoDe
  <2> HIDE DEF a, n, ts, o
  <2>4. o.dirs[1] = obtener_df(p, a)
    BY <2>2, <2>3
  <2>5. \A dl \in 0 .. TamProceso - 1 : Fisica[p][dl] = obtener_df(p, dl)
    BY DEF Fisica
  <2>6. \A dl \in 0 .. TamProceso - 1 : Fisica[p][dl] = o.dirs[1] <=> dl = a
    BY <2>3, <2>4, <2>5, DireccionUnica
  <2> QED BY <2>3, <2>6 DEF a
<1> QED BY <1>1, <1>2, <1>3 DEF o

(* The bytes that an interface writes are of its process. *)
LEMMA LugarDeEntrada ==
  ASSUME Inv, entrada # Nadie
  PROVE  /\ Acceso(entrada.pid) /\ entrada.leidos \in Nat /\ entrada.leidos <= entrada.texto
         /\ entrada.leidos <= tamanio_de(entrada.pid)
         /\ \A k \in 0 .. entrada.leidos - 1 : base_de(entrada.pid) + k \in 0 .. TamProceso - 1
<1> DEFINE p == entrada.pid
           o == solicitud(p)
           l == entrada.leidos
           x == entrada.texto
           t == tamanio_de(p)
           a == base_de(p)
<1>1. /\ entrada \in DeEntrada /\ p \in Procesos /\ solicitudes[p] # Nadie
      /\ solicitudes[p].codigo_operacion = entrada.op
  BY EntradaDe
<1>2. Acceso(p)
  <2>1. entrada.op \in ConDirecciones
    BY <1>1 DEF DeEntrada, ConDirecciones
  <2> QED BY <1>1, <2>1, AccesoDe
<1>3. PICK f : /\ Suma(f, o.dirs, o.cantidad)
               /\ l = menor(f[entrada.indice], x)
               /\ entrada.indice \in 0 .. o.cantidad
               /\ o.cantidad \in Nat /\ o.dirs \in Seq(Nat) /\ Len(o.dirs) = 2 * o.cantidad
  BY EntradaDe
<1>4. l \in Nat /\ x \in Nat
  BY <1>1 DEF DeEntrada
<1>5. o.cantidad = Len(trozos_de(p)) /\ Traduce(p, trozos_de(p), o.dirs)
  BY <1>2 DEF Acceso
<1> HIDE DEF o, p
<1>6. f[o.cantidad] = t
  BY <1>1, <1>2, <1>3, <1>5, SumaDe
<1>7. a \in Nat /\ t \in Nat /\ (t > 0 => a + t <= TamProceso) /\ TamProceso \in Nat
  BY <1>1, <1>2, TamProcesoDe DEF Acceso
<1>8. f[entrada.indice] \in Nat /\ f[entrada.indice] <= t
  BY <1>3, <1>6, SumaCrece
<1> HIDE DEF a, t, x, l
<1>9. l <= x /\ l <= t
  BY <1>3, <1>4, <1>6, <1>7, <1>8 DEF menor
<1>10. \A k \in 0 .. l - 1 : a + k \in 0 .. TamProceso - 1
  BY <1>4, <1>7, <1>9
<1> QED BY <1>2, <1>4, <1>9, <1>10 DEF p, a, t, x, l

(* No piece of a request that an interface writes goes past the end of a   *)
(* page.  The code lets some do (mmu_agregar_dirs_tamanio_paquete).        *)
SinCruces ==
  \A p \in Procesos :
    solicitudes[p] # Nadie /\ solicitudes[p].codigo_operacion \in {"IO_STDIN_READ", "IO_FS_READ"} =>
      LET o == solicitud(p) IN
      \A k \in 1 .. o.cantidad : offset(o.dirs[2 * k - 1]) + o.dirs[2 * k] <= tamanio_pagina

(* The accesses the code cuts well: those that start a page, and those     *)
(* that end in the page after the one they start in.                       *)
Cabe(dl, t) == offset(dl) = 0 \/ t <= 2 * tamanio_pagina - offset(dl)

AccesosCaben ==
  \A p \in Procesos :
    solicitudes[p] # Nadie /\ solicitudes[p].codigo_operacion \in {"IO_STDIN_READ", "IO_FS_READ"} =>
      Cabe(base_de(p), tamanio_de(p))

(* None of their pieces goes past the end of a page.                       *)
LEMMA TrozosSinCruce ==
  ASSUME NEW dl \in Nat, NEW t \in Nat, Cabe(dl, t),
         NEW k \in 1 .. Len(mmu_agregar_dirs(dl, t))
  PROVE  EnPagina(mmu_agregar_dirs(dl, t)[k])
<1> DEFINE ts == mmu_agregar_dirs(dl, t)
           o == offset(dl)
           q == obtener_pagina(dl)
           fin == dl + t
<1>1. /\ o \in 0 .. tamanio_pagina - 1 /\ q \in Nat /\ dl = q * tamanio_pagina + o
      /\ tamanio_pagina \in Nat /\ q * tamanio_pagina \in Nat /\ fin \in Nat
  <2>1. o \in 0 .. tamanio_pagina - 1 /\ q \in Nat /\ dl = q * tamanio_pagina + o
    BY OffsetDe
  <2>2. tamanio_pagina \in Nat /\ fin \in Nat
    BY FragmentosAssumption
  <2> HIDE DEF o, q, fin
  <2> QED BY <2>1, <2>2
<1>2. CASE o = 0
  <2>1. ts = copy_string(dl, t)
    BY <1>2 DEF mmu_agregar_dirs, copy_string
  <2>2. Cubre(ts, dl, fin)
    BY <2>1, CopyStringCubre
  <2> HIDE DEF ts, fin
  <2>3. EnPagina(ts[k])
    BY <2>2 DEF Cubre, ts
  <2> QED BY <2>3 DEF ts
<1>3. CASE o # 0
  <2>1. Corta(ts, dl, dl, fin, o, o)
    <3> HIDE DEF o
    <3>1. Corta(trozos(dl, o, o, t), dl, dl, dl + t, o, o)
      BY <1>1, TrozosCortan
    <3> QED BY <3>1 DEF mmu_agregar_dirs, o
  <2>2. t <= 2 * tamanio_pagina - o
    BY <1>3 DEF Cabe
  <2>3. k \in 1 .. Len(ts)
    OBVIOUS
  <2> HIDE DEF ts, o, q, fin
  <2>4. Len(ts) \in Nat /\ \A j \in 1 .. Len(ts) : ts[j] \in Trozo
    BY <2>1, LenProperties, ElementOfSeq DEF Corta
  <2>5. \A j \in 1 .. Len(ts) :
          /\ ts[j].dl \in Nat /\ ts[j].bytes \in Nat \ {0} /\ dl <= ts[j].dl
          /\ ts[j].dl + ts[j].bytes <= fin
          /\ ts[j].bytes = menor(tamanio_pagina - o, fin - ts[j].dl)
          /\ ts[j].dl + ts[j].bytes = IF j = Len(ts) THEN fin ELSE ts[j + 1].dl
    <3> TAKE j \in 1 .. Len(ts)
    <3>1. ts[j].dl \in Nat /\ ts[j].bytes \in Nat \ {0}
      BY <2>4 DEF Trozo
    <3> QED BY <2>1, <3>1 DEF Corta, BytesDe
  <2>6. ts[1].dl = dl
    BY <2>1, <2>3, <2>4 DEF Corta
  <2> DEFINE x == ts[k].dl
             b == ts[k].bytes
             r == x - dl - (tamanio_pagina - o)
  <2>7. x \in Nat /\ b \in Nat \ {0} /\ x + b <= fin /\ b = menor(tamanio_pagina - o, fin - x)
    BY <2>3, <2>5
  <2>8. CASE k = 1
    <3>1. x = dl
      BY <2>6, <2>8
    <3> HIDE DEF x, b
    <3>2. o + b <= tamanio_pagina
      BY <1>1, <2>7 DEF menor
    <3> QED BY <3>1, <3>2 DEF EnPagina, x, b, o, ts
  <2>9. CASE k # 1
    <3> DEFINE y == ts[k - 1].dl
               c == ts[k - 1].bytes
    <3>1. k - 1 \in 1 .. Len(ts) /\ k - 1 # Len(ts) /\ (k - 1) + 1 = k
      BY <2>3, <2>4, <2>9
    <3>2. y \in Nat /\ c \in Nat /\ dl <= y /\ c = menor(tamanio_pagina - o, fin - y) /\ y + c = x
      BY <2>5, <3>1
    <3> HIDE DEF x, y, c, b
    <3>3. dl + (tamanio_pagina - o) <= x
      BY <1>1, <2>7, <3>2 DEF menor
    <3> DEFINE d == q * tamanio_pagina
    <3>4. d \in Nat /\ dl = d + o
      BY <1>1
    <3>5. (q + 1) * tamanio_pagina = d + tamanio_pagina
      BY <1>1
    <3> HIDE DEF d
    <3>6. r \in 0 .. tamanio_pagina - 1 /\ r + b <= tamanio_pagina
      BY <1>1, <2>2, <2>7, <3>3 DEF fin
    <3>7. x = (q + 1) * tamanio_pagina + r
      BY <1>1, <2>7, <3>4, <3>5
    <3> HIDE DEF r
    <3>8. offset(x) = r
      <4>1. q + 1 \in Nat
        BY <1>1
      <4>2. offset((q + 1) * tamanio_pagina + r) = r
        BY <3>6, <4>1, PaginaDe
      <4> QED BY <3>7, <4>2
    <3> QED BY <3>6, <3>8 DEF EnPagina, x, b, ts
  <2> QED BY <2>8, <2>9
<1> QED BY <1>2, <1>3

(* So no piece of a request crosses a page when its access is one of them. *)
LEMMA CabenNoCruzan ==
  ASSUME Inv, AccesosCaben
  PROVE  SinCruces
<1> SUFFICES ASSUME NEW p \in Procesos, solicitudes[p] # Nadie,
                    solicitudes[p].codigo_operacion \in {"IO_STDIN_READ", "IO_FS_READ"},
                    NEW k \in 1 .. solicitud(p).cantidad
             PROVE  offset(solicitud(p).dirs[2 * k - 1]) + solicitud(p).dirs[2 * k]
                      <= tamanio_pagina
  BY DEF SinCruces
<1> DEFINE ts == trozos_de(p)
<1>1. Acceso(p)
  BY AccesoDe DEF ConDirecciones
<1>2. Cabe(base_de(p), tamanio_de(p))
  BY DEF AccesosCaben
<1>3. /\ k \in 1 .. Len(ts) /\ Traduce(p, ts, solicitud(p).dirs)
      /\ base_de(p) \in Nat /\ tamanio_de(p) \in Nat
  BY <1>1 DEF Acceso
<1>4. EnPagina(ts[k])
  BY <1>2, <1>3, TrozosSinCruce DEF trozos_de
<1> HIDE DEF ts
<1>5. /\ solicitud(p).dirs[2 * k - 1] = obtener_df(p, ts[k].dl)
      /\ solicitud(p).dirs[2 * k] = ts[k].bytes
  BY <1>3 DEF Traduce
<1>6. ts[k].dl \in 0 .. TamProceso - 1
  BY <1>1, <1>3, TrozoDe DEF ts
<1>7. offset(obtener_df(p, ts[k].dl)) = offset(ts[k].dl)
  BY <1>6, DireccionDe
<1> QED BY <1>4, <1>5, <1>7 DEF EnPagina

(* The bytes of the piece that is written are those that follow the ones   *)
(* already written.                                                        *)
LEMMA PiezaEscrita ==
  ASSUME Inv, SinCruces, entrada # Nadie, NEW n, enviar_escritura(n),
         Pieza(n)
  PROVE  LET a == base_de(entrada.pid) + entrada.leidos
         IN  /\ n \in Nat /\ n <= bytes_pedidos /\ bytes_pedidos \in Nat /\ direccion_fisica \in Nat
             /\ base_de(entrada.pid) \in Nat /\ entrada.leidos \in Nat
             /\ a + bytes_pedidos <= base_de(entrada.pid) + tamanio_de(entrada.pid)
             /\ \A j \in 0 .. bytes_pedidos - 1 :
                  /\ a + j \in 0 .. TamProceso - 1
                  /\ obtener_df(entrada.pid, a + j) = direccion_fisica + j
             /\ entrada'.leidos = entrada.leidos + n
             /\ entrada'.pid = entrada.pid
<1> DEFINE p == entrada.pid
           o == solicitud(p)
           i == entrada.indice + 1
           ts == trozos_de(p)
           b == bytes_pedidos
           df == direccion_fisica
           l == entrada.leidos
           a == base_de(p) + l
<1>1. /\ i \in 1 .. o.cantidad
      /\ df = o.dirs[2 * i - 1] /\ df \in Nat /\ b = o.dirs[2 * i] /\ b \in Nat
      /\ entrada' = [entrada EXCEPT !.leidos = @ + n, !.indice = @ + 1]
      /\ \E f : /\ Suma(f, o.dirs, o.cantidad) /\ l = f[i - 1]
                /\ n \in Nat /\ n <= b
  BY SiguientePieza
<1>2. /\ entrada \in DeEntrada /\ p \in Procesos /\ solicitudes[p] # Nadie
      /\ solicitudes[p].codigo_operacion = entrada.op
  BY EntradaDe
<1>3. entrada.op \in {"IO_STDIN_READ", "IO_FS_READ"}
  BY <1>2 DEF DeEntrada
<1>4. Acceso(p)
  BY LugarDeEntrada
<1>5. entrada'.leidos = l + n /\ entrada'.pid = p
  BY <1>1, <1>2 DEF DeEntrada
<1>6. o.cantidad = Len(ts) /\ Traduce(p, ts, o.dirs)
  BY <1>4 DEF Acceso
<1>7. offset(df) + b <= tamanio_pagina
  BY <1>1, <1>2, <1>3 DEF SinCruces
<1>8. n \in Nat /\ n <= b
  BY <1>1
<1> HIDE DEF i, o, p, df, b, l
<1>9. i \in 1 .. Len(ts) /\ df = obtener_df(p, ts[i].dl) /\ b = ts[i].bytes
  <2>1. i \in 1 .. Len(ts)
    BY <1>1, <1>6
  <2> HIDE DEF ts
  <2>2. o.dirs[2 * i - 1] = obtener_df(p, ts[i].dl) /\ o.dirs[2 * i] = ts[i].bytes
    BY <1>6, <2>1 DEF Traduce
  <2> QED BY <1>1, <2>1, <2>2
<1>10. l = ts[i].dl - base_de(p)
  <2>1. PICK f : Suma(f, o.dirs, o.cantidad) /\ l = f[i - 1]
    BY <1>1
  <2>2. Suma(f, o.dirs, Len(trozos_de(p))) /\ Traduce(p, trozos_de(p), o.dirs)
    BY <1>6, <2>1
  <2> QED BY <1>2, <1>4, <1>9, <2>1, <2>2, SumaDe
<1>11. /\ ts[i].dl \in Nat /\ ts[i].bytes \in Nat \ {0} /\ ts[i].dl \in 0 .. TamProceso - 1
       /\ ts[i].dl + ts[i].bytes <= TamProceso
       /\ ts[i].dl + ts[i].bytes <= base_de(p) + tamanio_de(p)
  BY <1>2, <1>4, <1>9, TrozoDe
<1>12. base_de(p) \in Nat
  BY <1>4 DEF Acceso
<1> DEFINE x == ts[i].dl
<1>13. x + b <= base_de(p) + tamanio_de(p) /\ l \in Nat
  <2>1. l \in Nat
    BY <1>2 DEF DeEntrada, l
  <2> QED BY <1>9, <1>11, <2>1
<1>14. /\ x = a /\ x \in Nat /\ x \in 0 .. TamProceso - 1 /\ x + b <= TamProceso
       /\ df = obtener_df(p, x)
  <2> DEFINE c == base_de(p)
  <2>1. x \in Nat /\ x \in 0 .. TamProceso - 1 /\ x + b <= TamProceso
        /\ df = obtener_df(p, x) /\ l = x - c /\ c \in Nat
    BY <1>9, <1>10, <1>11, <1>12
  <2> HIDE DEF x, c
  <2>2. x = c + l
    BY <2>1
  <2> QED BY <2>1, <2>2 DEF c
<1> HIDE DEF x, a
<1>15. ASSUME NEW j \in 0 .. b - 1
       PROVE  a + j \in 0 .. TamProceso - 1 /\ obtener_df(p, a + j) = df + j
  <2>1. TamProceso \in Nat
    BY <1>2, TamProcesoDe
  <2>2. a + j \in 0 .. TamProceso - 1
    <3>1. b \in Nat /\ x \in Nat /\ x + b <= TamProceso /\ x = a
      BY <1>1, <1>14
    <3> QED BY <2>1, <3>1
  <2>3. offset(x) = offset(df)
    BY <1>2, <1>14, DireccionDe
  <2>4. offset(x) + j < tamanio_pagina /\ j \in Nat
    <3>1. offset(x) \in 0 .. tamanio_pagina - 1
      BY <1>14, OffsetDe
    <3>2. tamanio_pagina \in Nat
      BY FragmentosAssumption
    <3> QED BY <1>1, <1>7, <2>3, <3>1, <3>2
  <2>5. obtener_df(p, x + j) = obtener_df(p, x) + j
    BY <1>2, <1>14, <2>4, EnLaPagina
  <2> QED BY <1>14, <2>2, <2>5
<1> QED BY <1>1, <1>5, <1>8, <1>12, <1>13, <1>14, <1>15 DEF p, df, b, l, a

(* The bytes written so far are in the memory of the process. *)
Escrita ==
  entrada # Nadie =>
    \A k \in 0 .. entrada.leidos - 1 :
      espacio[obtener_df(entrada.pid, base_de(entrada.pid) + k)] = LETRA

(* What a step does to what the interface works on: nothing, when it is of *)
(* the CPU or of the kernel, for the process of the turn is another one.   *)
Ajeno ==
  /\ entrada' = entrada /\ programa' = programa
  /\ entrada # Nadie => /\ contextos'[entrada.pid] = contextos[entrada.pid]
                        /\ \/ espacio' = espacio
                           \/ \E q \in Procesos : q # entrada.pid /\ SoloDe(q, espacio')

(* What a step may do to an entry in course: nothing, end it, start it     *)
(* with nothing read, or take its next piece.                              *)
LEMMA PasosDeEntrada ==
  ASSUME Inv, [Next]_vars
  PROVE  \/ Ajeno
         \/ entrada' = Nadie
         \/ entrada = Nadie /\ entrada'.leidos = 0
         \/ interfaz_stdin \/ interfaz_fs_read
<1> DEFINE p == entrada.pid
<1>1. entrada # Nadie => p \in Procesos /\ estado[p] = "BLOCKED"
  <2>1. entrada # Nadie => p \in Procesos /\ solicitudes[p] # Nadie
    BY EntradaDe
  <2> HIDE DEF p
  <2> QED BY <2>1, PedidoDe
<1>2. ASSUME UNCHANGED <<programa, espacio, contextos, entrada>>
      PROVE  Ajeno
  BY <1>1, <1>2 DEF Ajeno
<1>3. CASE RecibirContexto
  BY <1>2, <1>3 DEF RecibirContexto, delKernel
<1>4. CASE execute
  <2>1. PasoSigue \/ PasoSale
    BY <1>4, EjecutarPasos DEF Inv
  <2>2. CASE PasoSigue
    <3>1. SoloDe(pcb.pid, espacio') /\ entrada' = entrada /\ programa' = programa
          /\ contextos' = contextos
      BY <2>2 DEF PasoSigue, sigue, delKernel
    <3>2. linea = "ejecuta" /\ pcb.pid \in Procesos
      BY <2>2 DEF PasoSigue, hay_instruccion, Inv, Tipos
    <3>3. estado[pcb.pid] = "EXEC"
      BY <3>2 DEF Inv, Turno, Ida, Vuelta, CpuLibre, EnCpu
    <3>4. entrada # Nadie => pcb.pid # p
      BY <1>1, <3>3
    <3> QED BY <3>1, <3>2, <3>4 DEF Ajeno
  <2>3. CASE PasoSale
    BY <1>2, <2>3 DEF PasoSale, enviar_y_salir, delKernel
  <2> QED BY <2>1, <2>2, <2>3
<1>5. CASE check_interrupt
  BY <1>2, <1>5 DEF check_interrupt, delKernel
<1>6. CASE \E tipo \in Interrupciones : atender_cpu_kernel_interrupt(tipo)
  BY <1>2, <1>6 DEF atender_cpu_kernel_interrupt, delKernel
<1>7. ASSUME espera, alKernel # <<>>, NEW b, guardar(b)
      PROVE  Ajeno
  <2>1. entrada' = entrada /\ programa' = programa /\ espacio' = espacio
        /\ \A q \in Procesos : q # ejecutando => contextos'[q] = contextos[q]
    BY <1>7, GuardarDe
  <2>2. estado[ejecutando] = "EXEC"
    BY <1>7, RecibidoDe
  <2>3. entrada # Nadie => p # ejecutando
    BY <1>1, <2>2
  <2> QED BY <1>1, <2>1, <2>3 DEF Ajeno
<1>8. CASE ManejarFin
  BY <1>7, <1>8 DEF ManejarFin, recibe
<1>9. CASE ManejarQuantum
  BY <1>7, <1>9 DEF ManejarQuantum, recibe
<1>10. CASE ManejarRecurso
  BY <1>7, <1>10 DEF ManejarRecurso, recibe
<1>11. CASE ManejarIO
  BY <1>7, <1>11 DEF ManejarIO, recibe
<1>12. CASE FinEntrada
  BY <1>12 DEF FinEntrada
<1>13. ASSUME NEW q \in Procesos, Despachar(q) \/ Desbloquear(q) \/ FinIO(q)
       PROVE  Ajeno
  BY <1>2, <1>13 DEF Despachar, Desbloquear, FinIO, terminar_io
<1>14. ASSUME NEW q \in Procesos, AtenderEntrada(q)
       PROVE  entrada = Nadie /\ entrada'.leidos = 0
  BY <1>14 DEF AtenderEntrada
<1>15. ASSUME NEW q \in Procesos, InterfazCaida(q)
       PROVE  Ajeno \/ entrada' = Nadie
  BY <1>2, <1>15 DEF InterfazCaida
<1>16. CASE UNCHANGED vars
  BY <1>2, <1>16 DEF vars, delKernel
<1> QED BY <1>3, <1>4, <1>5, <1>6, <1>8, <1>9, <1>10, <1>11, <1>12, <1>13, <1>14, <1>15, <1>16
        DEF Next

(* Without crossed pieces, what an entry has written stays written.        *)
LEMMA EscritaSigue ==
  ASSUME Inv, Escrita, SinCruces, [Next]_vars
  PROVE  Escrita'
<1>1. CASE Ajeno
  <2>1. CASE entrada = Nadie
    BY <1>1, <2>1 DEF Ajeno, Escrita
  <2>2. CASE entrada # Nadie
    <3> DEFINE p == entrada.pid
               a == base_de(p)
               l == entrada.leidos
    <3>1. p \in Procesos /\ \A k \in 0 .. l - 1 : a + k \in 0 .. TamProceso - 1
      BY <2>2, EntradaDe, LugarDeEntrada
    <3>2. /\ entrada' = entrada
          /\ programa' = programa /\ contextos'[p] = contextos[p]
          /\ \/ espacio' = espacio
             \/ \E q \in Procesos : q # p /\ SoloDe(q, espacio')
      BY <1>1, <2>2 DEF Ajeno
    <3>3. leer_reg(contextos'[p], programa'[p][contextos'[p].pc].r) = a
      BY <3>2 DEF base_de, ultima
    <3> DEFINE e == espacio'
    <3>4. ASSUME NEW k \in 0 .. l - 1
          PROVE  e[obtener_df(p, a + k)] = LETRA
      <4> DEFINE x == a + k
      <4>1. espacio[obtener_df(p, x)] = LETRA
        BY <2>2 DEF Escrita
      <4>2. x \in 0 .. TamProceso - 1
        BY <3>1
      <4> HIDE DEF x, a, p, l
      <4>3. e[obtener_df(p, x)] = espacio[obtener_df(p, x)]
        BY <3>1, <3>2, <4>2 DEF SoloDe
      <4> QED BY <4>1, <4>3 DEF x
    <3>5. entrada' # Nadie /\ entrada'.pid = p /\ entrada'.leidos = l
      BY <2>2, <3>2
    <3> HIDE DEF l, p, a, e
    <3>6. \A k \in 0 .. l - 1 : e[obtener_df(p, leer_reg(contextos'[p],
                                     programa'[p][contextos'[p].pc].r) + k)] = LETRA
      BY <3>3, <3>4
    <3> QED BY <3>5, <3>6 DEF Escrita, base_de, ultima, e
  <2> QED BY <2>1, <2>2
<1>2. CASE entrada' = Nadie
  BY <1>2 DEF Escrita
<1>3. CASE entrada = Nadie /\ entrada'.leidos = 0
  BY <1>3 DEF Escrita
<1>4. CASE interfaz_stdin \/ interfaz_fs_read
  <2>1. PICK n : /\ entrada # Nadie /\ enviar_escritura(n)
                 /\ Pieza(n)
    BY <1>4 DEF interfaz_stdin, interfaz_fs_read, Pieza
  <2> DEFINE p == entrada.pid
             l == entrada.leidos
             c == base_de(p)
             a == c + l
             b == bytes_pedidos
             df == direccion_fisica
             e == espacio'
  <2>2. /\ n \in Nat /\ n <= b /\ b \in Nat /\ df \in Nat /\ c \in Nat
        /\ \A j \in 0 .. b - 1 : a + j \in 0 .. TamProceso - 1 /\ obtener_df(p, a + j) = df + j
        /\ entrada'.leidos = l + n /\ entrada'.pid = p
    BY <2>1, PiezaEscrita
  <2>3. /\ p \in Procesos /\ l \in Nat
        /\ \A k \in 0 .. l - 1 : c + k \in 0 .. TamProceso - 1
    BY <2>1, EntradaDe, LugarDeEntrada
  <2>4. \A x \in 0 .. TAM_MEMORIA - 1 :
          e[x] = IF x \in df .. df + b - 1
                   THEN IF x - df + 1 <= n THEN LETRA ELSE RESTO ELSE espacio[x]
    <3>1. espacio \in Espacio
      BY DEF Inv, Tipos
    <3> QED BY <2>1, <2>2, <3>1, EscrituraDe
  <2>5. programa' = programa /\ contextos' = contextos
    BY <2>1 DEF enviar_escritura, delKernel
  <2>6. leer_reg(contextos'[p], programa'[p][contextos'[p].pc].r) = c
    BY <2>5 DEF base_de, ultima
  <2>7. \A k \in 0 .. l - 1 : espacio[obtener_df(p, c + k)] = LETRA
    BY <2>1 DEF Escrita
  <2> HIDE DEF p, l, c, b, df, e
  <2>8. ASSUME NEW k \in 0 .. (l + n) - 1
        PROVE  e[obtener_df(p, c + k)] = LETRA
    <3>1. CASE l <= k
      <4> DEFINE j == k - l
      <4>1. j \in 0 .. b - 1 /\ c + k = a + j /\ j + 1 <= n /\ j \in Nat
        BY <2>2, <2>3, <3>1
      <4> HIDE DEF j, a
      <4>2. a + j \in 0 .. TamProceso - 1 /\ obtener_df(p, a + j) = df + j
        BY <2>2, <4>1
      <4>3. obtener_df(p, a + j) \in 0 .. TAM_MEMORIA - 1
        BY <2>3, <4>2, DireccionDe
      <4>4. df + j \in df .. df + b - 1 /\ df + j - df + 1 <= n
        BY <2>2, <4>1
      <4>5. e[df + j] = LETRA
        <5> DEFINE x == df + j
        <5>1. x \in 0 .. TAM_MEMORIA - 1
          BY <4>2, <4>3
        <5>2. x \in df .. df + b - 1 /\ x - df + 1 <= n
          BY <2>2, <4>1
        <5> HIDE DEF x
        <5>3. e[x] = LETRA
          BY <2>4, <5>1, <5>2
        <5> QED BY <5>3 DEF x
      <4> QED BY <4>1, <4>2, <4>5
    <3>2. CASE k < l
      <4> DEFINE x == c + k
      <4>1. k \in 0 .. l - 1
        BY <2>3, <3>2
      <4>2. x \in 0 .. TamProceso - 1 /\ espacio[obtener_df(p, x)] = LETRA
        BY <2>3, <2>7, <4>1
      <4>3. x < a /\ x \in Nat /\ a \in Nat
        BY <2>2, <2>3, <4>1
      <4> HIDE DEF x, a
      <4>4. obtener_df(p, x) \in 0 .. TAM_MEMORIA - 1
        BY <2>3, <4>2, DireccionDe
      <4>5. obtener_df(p, x) \notin df .. df + b - 1
        <5> SUFFICES ASSUME obtener_df(p, x) \in df .. df + b - 1 PROVE FALSE
          OBVIOUS
        <5> DEFINE j == obtener_df(p, x) - df
        <5>1. j \in 0 .. b - 1 /\ obtener_df(p, x) = df + j
          BY <2>2, <4>4
        <5> HIDE DEF j
        <5>2. a + j \in 0 .. TamProceso - 1 /\ obtener_df(p, a + j) = df + j
          BY <2>2, <5>1
        <5>3. x = a + j
          BY <2>3, <4>2, <5>1, <5>2, DireccionUnica
        <5> QED BY <2>2, <4>3, <5>1, <5>3
      <4>6. e[obtener_df(p, x)] = LETRA
        BY <2>4, <4>2, <4>4, <4>5
      <4> QED BY <4>6 DEF x
    <3> QED BY <2>3, <3>1, <3>2
  <2>9. \A k \in 0 .. (l + n) - 1 :
          e[obtener_df(p, leer_reg(contextos'[p], programa'[p][contextos'[p].pc].r) + k)] = LETRA
    BY <2>6, <2>8
  <2>10. entrada'.leidos = l + n /\ entrada'.pid = p
    BY <2>2
  <2> QED BY <2>9, <2>10 DEF Escrita, base_de, ultima, e
<1> QED BY <1>1, <1>2, <1>3, <1>4, PasosDeEntrada

(* What the run checks, from where the bytes are. *)
LEMMA InvTextoEntero ==
  ASSUME Inv, Escrita
  PROVE  TextoEntero
<1> SUFFICES ASSUME entrada # Nadie
             PROVE  /\ entrada.leidos = menor(entrada.texto, bytes_enviados)
                    /\ \A k \in 0 .. entrada.leidos - 1 :
                         espacio[obtener_df(entrada.pid, pedido_de(entrada.pid).base + k)] = LETRA
  BY DEF TextoEntero
<1> DEFINE p == entrada.pid
           o == solicitud(p)
           l == entrada.leidos
<1>1. /\ p \in Procesos /\ solicitudes[p] # Nadie
      /\ o.cantidad \in Nat /\ o.dirs \in Seq(Nat) /\ Len(o.dirs) = 2 * o.cantidad
  BY EntradaDe
<1>2. Acceso(p) /\ l <= entrada.texto /\ l \in Nat /\ l <= tamanio_de(p)
  BY LugarDeEntrada
<1>3. ASSUME NEW k \in 0 .. l - 1
      PROVE  pedido_de(p).base = base_de(p)
  <2>1. tamanio_de(p) \in Nat
    BY <1>2 DEF Acceso
  <2>2. tamanio_de(p) # 0
    <3> HIDE DEF l, p
    <3> QED BY <1>2, <1>3, <2>1
  <2> HIDE DEF p
  <2>3. o.cantidad # 0
        /\ base_de(p) = CHOOSE dl \in 0 .. TamProceso - 1 : Fisica[p][dl] = o.dirs[1]
    BY <1>1, <1>2, <2>2, PedidoDeAcceso
  <2>4. pedido_de(p).base = IF o.cantidad = 0 THEN 0
                            ELSE CHOOSE dl \in 0 .. TamProceso - 1 : Fisica[p][dl] = o.dirs[1]
    BY <1>1 DEF pedido_de
  <2> QED BY <2>3, <2>4
<1>4. \A k \in 0 .. l - 1 : espacio[obtener_df(p, base_de(p) + k)] = LETRA
  BY DEF Escrita
<1>5. l = menor(entrada.texto, bytes_enviados)
  <2> DEFINE i == entrada.indice
             u == [cantidad |-> i, dirs |-> entrada.direcciones]
             c == o.cantidad
  <2>1. PICK f : Suma(f, o.dirs, c) /\ l = menor(f[i], entrada.texto)
    BY EntradaDe
  <2>2. i \in 0 .. c /\ entrada.direcciones = o.dirs /\ entrada.texto \in Nat
    BY EntradaDe DEF DeEntrada
  <2>3. bytes_enviados = bytes_de(u) /\ u.cantidad = i /\ u.dirs = o.dirs
    BY <2>2 DEF bytes_enviados
  <2> HIDE DEF i, u, c, l
  <2>4. i \in Nat /\ i <= c /\ c \in Nat /\ 2 * i <= Len(o.dirs)
    BY <1>1, <2>2 DEF c
  <2>5. PICK g : Suma(g, u.dirs, u.cantidad) /\ bytes_de(u) = g[u.cantidad]
    BY <1>1, <2>3, <2>4, BytesDePedido
  <2>6. g[i] = f[i] /\ f[i] \in Nat
    <3>1. Suma(g, o.dirs, i)
      BY <2>3, <2>5
    <3>2. g[i] = f[i]
      <4> HIDE DEF Suma, o
      <4> QED BY <2>1, <2>4, <3>1, SumaUnica
    <3>3. f \in [0 .. c -> Nat] /\ i \in 0 .. c
      BY <2>1, <2>4 DEF Suma
    <3> QED BY <3>2, <3>3
  <2> QED BY <2>1, <2>2, <2>3, <2>5, <2>6 DEF menor
<1> QED BY <1>3, <1>4, <1>5

(* Of the pieces an interface wrote, what the text has is its beginning,   *)
(* where the process asked for it and with nothing skipped, while no piece *)
(* crosses a page (interfaz_stdin and interfaz_fs_read, with               *)
(* mmu_agregar_dirs_tamanio_paquete).                                      *)
THEOREM SiempreTextoEntero == Spec /\ []SinCruces => []TextoEntero
<1>1. Init => Escrita
  BY DEF Init, Escrita
<1>2. Inv /\ Escrita /\ SinCruces /\ [Next]_vars => Escrita'
  BY EscritaSigue
<1>3. Inv /\ Escrita => TextoEntero
  BY InvTextoEntero
<1> QED BY <1>1, <1>2, <1>3, SiempreInv, PTL DEF Spec

(* The condition is about the programs: it holds while no access of an     *)
(* interface that does not start a page goes past the second one           *)
(* (mmu_agregar_dirs_tamanio_paquete keeps the offset of the first).       *)
THEOREM SinCrucesSiCaben == Spec /\ []AccesosCaben => []SinCruces
<1>1. Inv /\ AccesosCaben => SinCruces
  BY CabenNoCruzan
<1> QED BY <1>1, SiempreInv, PTL

-----------------------------------------------------------------------------
(* The machine of each process.                                            *)

(* The registers and their instructions are those of the machine.          *)
LEMMA MismosRegistros ==
  /\ \A m, r : Maq!leer_reg(m, r) = leer_reg(m, r)
  /\ \A m, r : Maq!get_reg(m, r) = get_reg(m, r)
  /\ \A r : Maq!tamanio_reg(r) = tamanio_reg(r)
  /\ \A m, r, v : Maq!escribir_reg(m, r, v) = escribir_reg(m, r, v)
<1> USE DEF Maq!Chicos, Chicos, Maq!Grandes, Grandes, Maq!es_reg_chico, es_reg_chico,
            Maq!get_reg, get_reg
<1>1. \A m, r : Maq!get_reg(m, r) = get_reg(m, r)
  OBVIOUS
<1>2. \A m, r : Maq!leer_reg(m, r) = leer_reg(m, r)
  BY DEF Maq!leer_reg, leer_reg, Maq!get_reg_chico, get_reg_chico, Maq!get_reg_grande,
         get_reg_grande
<1>3. \A r : Maq!tamanio_reg(r) = tamanio_reg(r)
  BY DEF Maq!tamanio_reg, tamanio_reg
<1>4. \A m, r, v : Maq!escribir_reg(m, r, v) = escribir_reg(m, r, v)
  BY DEF Maq!escribir_reg, escribir_reg, Maq!set_reg_chico, set_reg_chico, Maq!set_reg_grande,
         set_reg_grande, Maq!set_reg, set_reg, Maq!set_pc, set_pc, Maq!GRANDE, GRANDE,
         Maq!Indices, Indices
<1> QED BY <1>1, <1>2, <1>3, <1>4

(* The operators of the abstract machine are those of the CPU: the bytes,  *)
(* the operations and the reasons to leave.                                *)
LEMMA MismasInstrucciones ==
  /\ \A v, n : Maq!a_bytes(v, n) = a_bytes(v, n)
  /\ \A b : Maq!de_bytes(b) = de_bytes(b)
  /\ \A m, i : Maq!operar(m, i) = operar(m, i)
  /\ \A m, i : Maq!siguiente(m, i) = siguiente(m, i)
  /\ \A c : Maq!motivo_de(c) = motivo_de(c)
  /\ Maq!DeRegistros = DeRegistros /\ Maq!DeRecursos = DeRecursos
  /\ Maq!DeEntradaSalida = DeEntradaSalida /\ Maq!inicializarPCB = inicializarPCB
<1>1. \A v, n : Maq!a_bytes(v, n) = a_bytes(v, n)
  BY DEF Maq!a_bytes, a_bytes
<1>2. \A b : Maq!de_bytes(b) = de_bytes(b)
  BY DEF Maq!de_bytes, de_bytes
<1>3. \A m, v : Maq!set_pc(m, v) = set_pc(m, v)
  BY DEF Maq!set_pc, set_pc
<1>4. ASSUME NEW m, NEW i PROVE Maq!operar(m, i) = operar(m, i)
  <2>1. Maq!ejecutarSet(m, i) = ejecutarSet(m, i)
    BY MismosRegistros DEF Maq!ejecutarSet, ejecutarSet
  <2>2. Maq!ejecutarSum(m, i) = ejecutarSum(m, i)
    BY MismosRegistros DEF Maq!ejecutarSum, ejecutarSum
  <2>3. Maq!ejecutarSub(m, i) = ejecutarSub(m, i)
    BY MismosRegistros DEF Maq!ejecutarSub, ejecutarSub
  <2>4. Maq!ejecutarJnz(m, i) = ejecutarJnz(m, i)
    BY <1>3, MismosRegistros DEF Maq!ejecutarJnz, ejecutarJnz, Maq!GRANDE, GRANDE
  <2> QED BY <2>1, <2>2, <2>3, <2>4 DEF Maq!operar, operar
<1>5. \A m, i : Maq!siguiente(m, i) = siguiente(m, i)
  BY <1>3 DEF Maq!siguiente, siguiente, Maq!avanzar, avanzar, Maq!GRANDE, GRANDE
<1>6. \A c : Maq!motivo_de(c) = motivo_de(c)
  BY DEF Maq!motivo_de, motivo_de
<1>7. /\ Maq!DeRegistros = DeRegistros /\ Maq!DeRecursos = DeRecursos
      /\ Maq!DeEntradaSalida = DeEntradaSalida
  BY DEF Maq!DeRegistros, DeRegistros, Maq!DeRecursos, DeRecursos, Maq!DeEntradaSalida,
         DeEntradaSalida, Maq!ConDirecciones, ConDirecciones, Maq!ConArchivo, ConArchivo
<1>8. Maq!inicializarPCB = inicializarPCB
  BY DEF Maq!inicializarPCB, inicializarPCB, Maq!Chicos, Chicos, Maq!Grandes, Grandes,
         Maq!Indices, Indices
<1> QED BY <1>1, <1>2, <1>4, <1>5, <1>6, <1>7, <1>8

(* The requests of the abstract machine are those of the CPU.              *)
LEMMA MismoPedido ==
  \A m, i : Maq!t_pedido(m, i) = t_pedido(m, i)
<1>1. Maq!ConDirecciones = ConDirecciones /\ Maq!ConArchivo = ConArchivo
      /\ Maq!SinNombre = SinNombre
  BY DEF Maq!ConDirecciones, ConDirecciones, Maq!ConArchivo, ConArchivo, Maq!SinNombre, SinNombre
<1> QED BY <1>1, MismosRegistros DEF Maq!t_pedido, t_pedido

(* The memory of a process, and its state when it is not in the CPU. *)
memoria_de(p) == [dl \in 0 .. TamProceso - 1 |-> espacio[Fisica[p][dl]]]
fuera(e) == CASE e = "BLOCKED" -> "bloqueado" [] e = "EXIT" -> "fin" [] OTHER -> "activo"
llamada(codigo) ==
  IF codigo \in {"INTERRUPT_QUANTUM", "INTERRUPT_USER"} THEN "activo" ELSE codigo

(* What the machine of p is, wherever its context is. *)
Visto(p) ==
  /\ p # ejecutando \/ espera = FALSE =>
       contexto_de(p) = contextos[p] /\ estado_de(p) = fuera(estado[p])
  /\ p = ejecutando /\ espera = TRUE =>
       /\ Ida => contexto_de(p) = contextos[p] /\ estado_de(p) = "activo"
       /\ EnCpu => contexto_de(p) = contexto(pcb) /\ estado_de(p) = "activo"
       /\ Vuelta => /\ contexto_de(p) = contexto(recibido)
                    /\ estado_de(p) = llamada(Head(alKernel).codigo_operacion)

Vistos == \A p \in Procesos : Visto(p)

(* The invariant places the context and the situation of every process.    *)
LEMMA VistoDe ==
  Inv => Vistos
<1> SUFFICES ASSUME Inv, NEW p \in Procesos PROVE Visto(p)
  BY DEF Vistos
<1>1. CASE p # ejecutando \/ espera = FALSE
  <2>1. estado_de(p) = fuera(estado[p])
    BY <1>1 DEF estado_de, fuera
  <2>2. ~(pcb.pid = p /\ linea # "recibe" /\ ~salir_ciclo_instruccion)
    BY <1>1 DEF Inv, Turno, Ida, EnCpu, Vuelta, CpuLibre
  <2>3. contexto_de(p) = contextos[p]
    BY <1>1, <2>2 DEF contexto_de
  <2> QED BY <1>1, <2>1, <2>3 DEF Visto
<1>2. CASE p = ejecutando /\ espera = TRUE
  <2>1. estado[p] = "EXEC"
    BY <1>2 DEF Inv, Turno
  <2>2. fuera("EXEC") = "activo"
    BY DEF fuera
  <2>3. ASSUME alKernel = <<>> PROVE estado_de(p) = "activo"
    <3>1. estado_de(p) = fuera(estado[p])
      BY <2>3 DEF estado_de, fuera
    <3> QED BY <2>1, <2>2, <3>1
  <2>4. ASSUME Ida PROVE contexto_de(p) = contextos[p] /\ estado_de(p) = "activo"
    BY <2>3, <2>4 DEF Ida, CpuLibre, contexto_de
  <2>5. ASSUME EnCpu PROVE contexto_de(p) = contexto(pcb) /\ estado_de(p) = "activo"
    BY <1>2, <2>3, <2>5 DEF EnCpu, CpuOcupada, contexto_de
  <2>6. ASSUME Vuelta
        PROVE  /\ contexto_de(p) = contexto(recibido)
               /\ estado_de(p) = llamada(Head(alKernel).codigo_operacion)
    <3>1. alKernel # <<>>
      BY <2>6 DEF Vuelta
    <3>2. contexto_de(p) = contexto(recibido)
      BY <1>2, <3>1 DEF contexto_de
    <3>3. CASE Head(alKernel).codigo_operacion \in {"INTERRUPT_QUANTUM", "INTERRUPT_USER"}
      <4>1. estado_de(p) = fuera(estado[p])
        BY <3>3 DEF estado_de, fuera
      <4> QED BY <2>1, <2>2, <3>2, <3>3, <4>1 DEF llamada
    <3>4. CASE Head(alKernel).codigo_operacion \notin {"INTERRUPT_QUANTUM", "INTERRUPT_USER"}
      BY <1>2, <3>1, <3>2, <3>4 DEF estado_de, llamada
    <3> QED BY <3>3, <3>4
  <2> QED BY <1>2, <2>4, <2>5, <2>6 DEF Visto
<1>3. espera = TRUE \/ espera = FALSE
  BY DEF Inv, Turno
<1> QED BY <1>1, <1>2, <1>3

(* The request of a process that waits is that of its last instruction.    *)
PedidosVistos ==
  \A p \in Procesos : solicitudes[p] # Nadie =>
    pedido_de(p) = t_pedido(contextos[p], ultima(p))

(* What the kernel keeps of a request is what the instruction asked for.   *)
LEMMA PedidoVisto ==
  Inv => PedidosVistos
<1> SUFFICES ASSUME Inv, NEW p \in Procesos, solicitudes[p] # Nadie
             PROVE  pedido_de(p) = t_pedido(contextos[p], ultima(p))
  BY DEF PedidosVistos
<1> DEFINE o == solicitud(p)
           m == contextos[p]
           i == ultima(p)
           op == i.code
           t == tamanio_de(p)
           a == base_de(p)
<1>1. /\ Pide(programa, p, m, o) /\ solicitudes[p].codigo_operacion = codigo_de(programa, p, m)
  BY PedidoDe
<1>2. EsPedido(p, m, i, o) /\ solicitudes[p].codigo_operacion = op
  BY <1>1 DEF Pide, codigo_de, ultima
<1>3. Completa(op, o) /\ o.nombre = t_pedido(m, i).nombre /\ o.numeros = t_pedido(m, i).numeros
  BY <1>2 DEF EsPedido
<1>4. o.cantidad \in Nat /\ o.dirs \in Seq(Nat) /\ Len(o.dirs) = 2 * o.cantidad
  BY <1>3 DEF Completa, Operacion
<1> DEFINE base == IF o.cantidad = 0 THEN 0
                   ELSE CHOOSE dl \in 0 .. TamProceso - 1 : Fisica[p][dl] = o.dirs[1]
<1>5. pedido_de(p) = [code |-> op, nombre |-> o.nombre, numeros |-> o.numeros, base |-> base,
                      tamanio |-> bytes_de(o)]
  BY <1>2 DEF pedido_de
<1>6. base = t_pedido(m, i).base /\ bytes_de(o) = t_pedido(m, i).tamanio
  <2>1. CASE op \in ConDirecciones
    <3>1. Acceso(p)
      BY <1>2, <2>1, AccesoDe
    <3>2. t_pedido(m, i).base = (IF t > 0 THEN a ELSE 0) /\ t_pedido(m, i).tamanio = t
      BY <2>1 DEF t_pedido, tamanio_de, base_de
    <3>3. t \in Nat
      BY <3>1 DEF Acceso
    <3>4. /\ bytes_de(o) = t /\ (o.cantidad = 0 <=> t = 0)
          /\ o.cantidad # 0 =>
               a = CHOOSE dl \in 0 .. TamProceso - 1 : Fisica[p][dl] = o.dirs[1]
      BY <1>4, <3>1, PedidoDeAcceso
    <3> HIDE DEF t, a, o, m, i
    <3>5. CASE t = 0
      BY <3>2, <3>4, <3>5
    <3>6. CASE t # 0
      <4>1. t > 0
        BY <3>3, <3>6
      <4> QED BY <3>2, <3>4, <3>6, <4>1
    <3> QED BY <3>5, <3>6
  <2>2. CASE op \notin ConDirecciones
    <3>1. o.cantidad = 0
      BY <1>3, <2>2 DEF Completa
    <3>2. t_pedido(m, i).base = 0 /\ t_pedido(m, i).tamanio = 0
      BY <2>2 DEF t_pedido
    <3>3. bytes_de(o) = 0
      <4> HIDE DEF o
      <4>1. PICK f : Suma(f, o.dirs, o.cantidad) /\ bytes_de(o) = f[o.cantidad]
        BY <1>4, BytesDePedido
      <4> QED BY <3>1, <4>1 DEF Suma
    <3> QED BY <3>1, <3>2, <3>3
  <2> QED BY <2>1, <2>2
<1> HIDE DEF o, base, m, i
<1>7. t_pedido(m, i) = [code |-> op, nombre |-> t_pedido(m, i).nombre,
                        numeros |-> t_pedido(m, i).numeros, base |-> t_pedido(m, i).base,
                        tamanio |-> t_pedido(m, i).tamanio]
  BY DEF t_pedido
<1>8. pedido_de(p) = t_pedido(m, i)
  BY <1>3, <1>5, <1>6, <1>7
<1> QED BY <1>8 DEF m, i

-----------------------------------------------------------------------------
(* A step that only changes what is of p changes one machine.              *)

maquinas == [p \in Procesos |-> contexto_de(p)]
memorias == [p \in Procesos |-> memoria_de(p)]
situaciones == [p \in Procesos |-> estado_de(p)]
pedidos == [p \in Procesos |-> pedido_de(p)]

Iguales(p) ==
  /\ contexto_de(p)' = contexto_de(p) /\ estado_de(p)' = estado_de(p)
  /\ memoria_de(p)' = memoria_de(p) /\ pedido_de(p)' = pedido_de(p)
Otros(p) == programa' = programa /\ \A q \in Procesos : q # p => Iguales(q)

(* A function on the processes that changes at p only.                     *)
LEMMA SoloEn ==
  ASSUME NEW f, NEW g, NEW p \in Procesos, DOMAIN f = Procesos, DOMAIN g = Procesos,
         f = [q \in Procesos |-> f[q]], g = [q \in Procesos |-> g[q]],
         \A q \in Procesos : q # p => g[q] = f[q]
  PROVE  /\ \A x : g[p] = x => g = [f EXCEPT ![p] = x]
         /\ g[p] = f[p] => g = f
OBVIOUS

(* The four functions of the machines, after such a step.                  *)
LEMMA CambiaUna ==
  ASSUME NEW p \in Procesos, Otros(p)
  PROVE  /\ \A x : contexto_de(p)' = x => maquinas' = [maquinas EXCEPT ![p] = x]
         /\ \A x : memoria_de(p)' = x => memorias' = [memorias EXCEPT ![p] = x]
         /\ \A x : estado_de(p)' = x => situaciones' = [situaciones EXCEPT ![p] = x]
         /\ \A x : pedido_de(p)' = x => pedidos' = [pedidos EXCEPT ![p] = x]
         /\ contexto_de(p)' = contexto_de(p) => maquinas' = maquinas
         /\ memoria_de(p)' = memoria_de(p) => memorias' = memorias
         /\ estado_de(p)' = estado_de(p) => situaciones' = situaciones
         /\ pedido_de(p)' = pedido_de(p) => pedidos' = pedidos
<1>1. \A q \in Procesos : q # p => Iguales(q)
  BY DEF Otros
<1>2. /\ \A x : contexto_de(p)' = x => maquinas' = [maquinas EXCEPT ![p] = x]
      /\ contexto_de(p)' = contexto_de(p) => maquinas' = maquinas
  BY <1>1, SoloEn DEF Iguales, maquinas
<1>3. /\ \A x : memoria_de(p)' = x => memorias' = [memorias EXCEPT ![p] = x]
      /\ memoria_de(p)' = memoria_de(p) => memorias' = memorias
  BY <1>1, SoloEn DEF Iguales, memorias
<1>4. /\ \A x : estado_de(p)' = x => situaciones' = [situaciones EXCEPT ![p] = x]
      /\ estado_de(p)' = estado_de(p) => situaciones' = situaciones
  BY <1>1, SoloEn DEF Iguales, situaciones
<1>5. /\ \A x : pedido_de(p)' = x => pedidos' = [pedidos EXCEPT ![p] = x]
      /\ pedido_de(p)' = pedido_de(p) => pedidos' = pedidos
  BY <1>1, SoloEn DEF Iguales, pedidos
<1> QED BY <1>2, <1>3, <1>4, <1>5

(* A step that changes nothing of any process. *)
LEMMA NadaCambia ==
  ASSUME programa' = programa, \A p \in Procesos : Iguales(p)
  PROVE  UNCHANGED Maq!vars
<1>1. /\ maquinas' = maquinas /\ memorias' = memorias
      /\ situaciones' = situaciones /\ pedidos' = pedidos
  BY DEF Iguales, maquinas, memorias, situaciones, pedidos
<1> QED BY <1>1 DEF Maq!vars, maquinas, memorias, situaciones, pedidos, memoria_de

(* The instruction of p. *)
de_turno(p) == programa[p][contexto_de(p).pc + 1]
Puede(p) == estado_de(p) = "activo" /\ contexto_de(p).pc < Len(programa[p])

(* A process that may go on can do the action of its instruction in the    *)
(* abstract machine.                                                       *)
LEMMA MaqPuede ==
  ASSUME NEW p \in Procesos, Puede(p), NEW codes, de_turno(p).code \in codes
  PROVE  /\ Maq!puede(p, codes) /\ Maq!instruccion(p) = de_turno(p)
         /\ maquinas[p] = contexto_de(p) /\ memorias[p] = memoria_de(p)
         /\ situaciones[p] = estado_de(p) /\ pedidos[p] = pedido_de(p)
BY DEF Puede, de_turno, Maq!puede, Maq!instruccion, maquinas, memorias, situaciones, pedidos

(* The machine of p goes on. *)
LEMMA MaqSeguir ==
  ASSUME NEW p \in Procesos, Otros(p), NEW m,
         contexto_de(p)' = siguiente(m, de_turno(p))
  PROVE  Maq!seguir(p, m)
<1>1. Maq!instruccion(p) = de_turno(p)
  BY DEF de_turno, Maq!instruccion
<1>2. maquinas' = [maquinas EXCEPT ![p] = siguiente(m, de_turno(p))]
  BY CambiaUna
<1>3. Maq!siguiente(m, de_turno(p)) = siguiente(m, de_turno(p))
  BY MismasInstrucciones
<1> QED BY <1>1, <1>2, <1>3 DEF Maq!seguir, maquinas

(* An instruction of the program of p, in its machine: what each action of *)
(* Maquina says, in terms of where the context and the memory are.         *)
LEMMA EsCalcular ==
  ASSUME NEW p \in Procesos, Otros(p), Puede(p), de_turno(p).code \in DeRegistros,
         contexto_de(p)' = siguiente(operar(contexto_de(p), de_turno(p)), de_turno(p)),
         memoria_de(p)' = memoria_de(p), estado_de(p)' = estado_de(p),
         pedido_de(p)' = pedido_de(p)
  PROVE  Maq!Calcular(p)
<1>1. /\ Maq!puede(p, Maq!DeRegistros) /\ Maq!instruccion(p) = de_turno(p)
      /\ maquinas[p] = contexto_de(p)
      /\ Maq!operar(contexto_de(p), de_turno(p)) = operar(contexto_de(p), de_turno(p))
  BY MaqPuede, MismasInstrucciones
<1>2. Maq!seguir(p, operar(contexto_de(p), de_turno(p)))
  BY MaqSeguir
<1>3. programa' = programa /\ memorias' = memorias /\ situaciones' = situaciones
      /\ pedidos' = pedidos
  BY CambiaUna DEF Otros
<1> QED BY <1>1, <1>2, <1>3 DEF Maq!Calcular, maquinas, memorias, situaciones, pedidos, memoria_de

(* What the machine of p has from an address is what the memory has where  *)
(* its pages are.                                                          *)
LEMMA MaqLeer ==
  ASSUME NEW p \in Procesos, NEW a \in Nat, NEW n \in Nat, n > 0 => a + n <= TamProceso
  PROVE  Maq!leer(p, a, n) = Lectura(p, a, n)
<1>1. ASSUME NEW k \in 1 .. n
      PROVE  memoria_de(p)[a + k - 1] = espacio[obtener_df(p, a + k - 1)]
  <2>1. TamProceso \in Nat
    BY TamProcesoDe
  <2>2. a + k - 1 \in 0 .. TamProceso - 1
    BY <2>1
  <2> QED BY <2>2 DEF memoria_de, Fisica
<1>2. Maq!leer(p, a, n) = [k \in 1 .. n |-> memoria_de(p)[a + k - 1]]
  BY DEF Maq!leer, memoria_de
<1> QED BY <1>1, <1>2 DEF Lectura

(* A MOV_IN of the CPU is a MovIn of the machine.                          *)
LEMMA EsMovIn ==
  ASSUME NEW p \in Procesos, Otros(p), Puede(p), de_turno(p).code = "MOV_IN",
         NEW a \in Nat, NEW n \in Nat, n > 0 => a + n <= TamProceso,
         a = leer_reg(contexto_de(p), de_turno(p).s), n = tamanio_reg(de_turno(p).r),
         contexto_de(p)' = siguiente(escribir_reg(contexto_de(p), de_turno(p).r,
                                                  de_bytes(Lectura(p, a, n))), de_turno(p)),
         memoria_de(p)' = memoria_de(p), estado_de(p)' = estado_de(p),
         pedido_de(p)' = pedido_de(p)
  PROVE  Maq!MovIn(p)
<1> DEFINE i == de_turno(p)
           c == contexto_de(p)
           m == escribir_reg(c, i.r, de_bytes(Lectura(p, a, n)))
<1>1. /\ Maq!puede(p, {"MOV_IN"}) /\ Maq!instruccion(p) = i /\ maquinas[p] = c
  BY MaqPuede
<1>2. Maq!seguir(p, m)
  BY MaqSeguir
<1>3. programa' = programa /\ memorias' = memorias /\ situaciones' = situaciones
      /\ pedidos' = pedidos
  BY CambiaUna DEF Otros
<1>4. /\ Maq!leer_reg(c, i.s) = a /\ Maq!tamanio_reg(i.r) = n
      /\ Maq!leer(p, a, n) = Lectura(p, a, n)
      /\ Maq!de_bytes(Lectura(p, a, n)) = de_bytes(Lectura(p, a, n))
      /\ Maq!escribir_reg(c, i.r, de_bytes(Lectura(p, a, n))) = m
  BY MaqLeer, MismosRegistros, MismasInstrucciones
<1> HIDE DEF i, c, m
<1> QED BY <1>1, <1>2, <1>3, <1>4
        DEF Maq!MovIn, maquinas, memorias, situaciones, pedidos, memoria_de

(* What is written where the pages of p are is written in its machine.     *)
LEMMA MaqEscrita ==
  ASSUME NEW p \in Procesos, Otros(p), NEW a \in Nat, NEW n \in Nat,
         n > 0 => a + n <= TamProceso, NEW dato, Len(dato) = n,
         Escrito(espacio', p, a, n, dato)
  PROVE  memorias' = Maq!escrita(p, a, dato)
<1>1. TamProceso \in Nat
  BY TamProcesoDe
<1> DEFINE M == [x \in DOMAIN memoria_de(p) |->
                   IF x \in a .. a + Len(dato) - 1 THEN dato[x - a + 1] ELSE memoria_de(p)[x]]
<1>2. ASSUME NEW x \in 0 .. TamProceso - 1
      PROVE  espacio'[Fisica[p][x]]
               = IF x \in a .. a + n - 1 THEN dato[x - a + 1] ELSE espacio[Fisica[p][x]]
  <2>1. Fisica[p][x] = obtener_df(p, x) /\ obtener_df(p, x) \in 0 .. TAM_MEMORIA - 1
    BY DireccionDe DEF Fisica
  <2>2. CASE x \in a .. a + n - 1
    BY <2>1, <2>2 DEF Escrito
  <2>3. CASE x \notin a .. a + n - 1
    <3>1. ASSUME NEW y \in a .. a + n - 1 PROVE obtener_df(p, y) # obtener_df(p, x)
      <4>1. y \in 0 .. TamProceso - 1
        BY <1>1
      <4> QED BY <2>3, <4>1, DireccionUnica
    <3> QED BY <2>1, <2>3, <3>1 DEF Escrito
  <2> QED BY <2>2, <2>3
<1>3. Fisica' = Fisica /\ TamProceso' = TamProceso
  BY DEF Fisica, TamProceso, obtener_df, obtener_pagina, obtener_offset
<1>4. memoria_de(p)' = M
  BY <1>2, <1>3 DEF memoria_de
<1>5. memorias' = [memorias EXCEPT ![p] = M]
  BY <1>4, CambiaUna
<1>6. memorias[p] = memoria_de(p)
  BY DEF memorias
<1> QED BY <1>5, <1>6 DEF Maq!escrita, memorias, memoria_de

(* A MOV_OUT of the CPU is a MovOut of the machine.                        *)
LEMMA EsMovOut ==
  ASSUME NEW p \in Procesos, Otros(p), Puede(p), de_turno(p).code = "MOV_OUT",
         NEW a \in Nat, NEW n \in Nat, n > 0 => a + n <= TamProceso, NEW dato, Len(dato) = n,
         a = leer_reg(contexto_de(p), de_turno(p).r),
         dato = a_bytes(leer_reg(contexto_de(p), de_turno(p).s), tamanio_reg(de_turno(p).s)),
         Escrito(espacio', p, a, n, dato),
         contexto_de(p)' = siguiente(contexto_de(p), de_turno(p)),
         estado_de(p)' = estado_de(p), pedido_de(p)' = pedido_de(p)
  PROVE  Maq!MovOut(p)
<1> DEFINE i == de_turno(p)
           c == contexto_de(p)
<1>1. /\ Maq!puede(p, {"MOV_OUT"}) /\ Maq!instruccion(p) = i /\ maquinas[p] = c
  BY MaqPuede
<1>2. Maq!seguir(p, c)
  BY MaqSeguir
<1>3. programa' = programa /\ situaciones' = situaciones /\ pedidos' = pedidos
  BY CambiaUna DEF Otros
<1>4. memorias' = Maq!escrita(p, a, dato)
  BY MaqEscrita
<1>5. /\ Maq!leer_reg(c, i.r) = a
      /\ Maq!a_bytes(Maq!leer_reg(c, i.s), Maq!tamanio_reg(i.s)) = dato
  BY MismosRegistros, MismasInstrucciones
<1> HIDE DEF i, c
<1> QED BY <1>1, <1>2, <1>3, <1>4, <1>5
        DEF Maq!MovOut, maquinas, memorias, situaciones, pedidos, memoria_de

(* A COPY_STRING of the CPU is a CopyString of the machine.                *)
LEMMA EsCopyString ==
  ASSUME NEW p \in Procesos, Otros(p), Puede(p), de_turno(p).code = "COPY_STRING",
         NEW si \in Nat, NEW di \in Nat, NEW n \in Nat,
         n > 0 => si + n <= TamProceso /\ di + n <= TamProceso,
         si = get_reg(contexto_de(p), "SI"), di = get_reg(contexto_de(p), "DI"),
         n = de_turno(p).n, Len(Lectura(p, si, n)) = n,
         Escrito(espacio', p, di, n, Lectura(p, si, n)),
         contexto_de(p)' = siguiente(contexto_de(p), de_turno(p)),
         estado_de(p)' = estado_de(p), pedido_de(p)' = pedido_de(p)
  PROVE  Maq!CopyString(p)
<1> DEFINE i == de_turno(p)
           c == contexto_de(p)
           dato == Lectura(p, si, n)
<1>1. /\ Maq!puede(p, {"COPY_STRING"}) /\ Maq!instruccion(p) = i /\ maquinas[p] = c
  BY MaqPuede
<1>2. Maq!seguir(p, c)
  BY MaqSeguir
<1>3. programa' = programa /\ situaciones' = situaciones /\ pedidos' = pedidos
  BY CambiaUna DEF Otros
<1>4. Maq!leer(p, si, n) = dato
  BY MaqLeer
<1>5. Maq!get_reg(c, "SI") = si /\ Maq!get_reg(c, "DI") = di
  BY MismosRegistros
<1>6. Len(dato) = n /\ Escrito(espacio', p, di, n, dato)
  OBVIOUS
<1>7. i.n = n
  OBVIOUS
<1> HIDE DEF i, c, dato
<1>8. memorias' = Maq!escrita(p, di, dato)
  BY <1>6, MaqEscrita
<1> QED BY <1>1, <1>2, <1>3, <1>4, <1>5, <1>7, <1>8
        DEF Maq!CopyString, maquinas, memorias, situaciones, pedidos, memoria_de

(* A RESIZE of the CPU is a Resize of the machine, granted or out of       *)
(* memory.                                                                 *)
LEMMA EsResize ==
  ASSUME NEW p \in Procesos, Otros(p), Puede(p), de_turno(p).code = "RESIZE",
         \/ /\ contexto_de(p)' = siguiente(contexto_de(p), de_turno(p))
            /\ estado_de(p)' = estado_de(p)
         \/ contexto_de(p)' = contexto_de(p) /\ estado_de(p)' = "OUT_OF_MEMORY",
         memoria_de(p)' = memoria_de(p), pedido_de(p)' = pedido_de(p)
  PROVE  Maq!Resize(p)
<1>1. Maq!puede(p, {"RESIZE"}) /\ maquinas[p] = contexto_de(p)
  BY MaqPuede
<1>2. programa' = programa /\ memorias' = memorias /\ pedidos' = pedidos
  BY CambiaUna DEF Otros
<1>3. \/ Maq!seguir(p, contexto_de(p)) /\ situaciones' = situaciones
      \/ /\ situaciones' = [situaciones EXCEPT ![p] = "OUT_OF_MEMORY"]
         /\ maquinas' = maquinas
  BY CambiaUna, MaqSeguir
<1> QED BY <1>1, <1>2, <1>3 DEF Maq!Resize, maquinas, memorias, situaciones, pedidos, memoria_de

(* An EXIT of the CPU is a Salir of the machine.                           *)
LEMMA EsSalir ==
  ASSUME NEW p \in Procesos, Otros(p), Puede(p), de_turno(p).code = "EXIT",
         contexto_de(p)' = contexto_de(p), estado_de(p)' = "SUCCESS",
         memoria_de(p)' = memoria_de(p), pedido_de(p)' = pedido_de(p)
  PROVE  Maq!Salir(p)
<1>1. Maq!puede(p, {"EXIT"})
  BY MaqPuede
<1>2. /\ programa' = programa /\ memorias' = memorias /\ pedidos' = pedidos
      /\ maquinas' = maquinas /\ situaciones' = [situaciones EXCEPT ![p] = "SUCCESS"]
  BY CambiaUna DEF Otros
<1> QED BY <1>1, <1>2 DEF Maq!Salir, maquinas, memorias, situaciones, pedidos, memoria_de

(* A call to the kernel is a Llamar of the machine.                        *)
LEMMA EsLlamar ==
  ASSUME NEW p \in Procesos, Otros(p), Puede(p),
         de_turno(p).code \in DeRecursos \cup DeEntradaSalida,
         contexto_de(p)' = siguiente(contexto_de(p), de_turno(p)),
         estado_de(p)' = motivo_de(de_turno(p).code),
         memoria_de(p)' = memoria_de(p), pedido_de(p)' = pedido_de(p)
  PROVE  Maq!Llamar(p)
<1> DEFINE e == motivo_de(de_turno(p).code)
<1>1. /\ Maq!puede(p, Maq!DeRecursos \cup Maq!DeEntradaSalida)
      /\ Maq!instruccion(p) = de_turno(p) /\ maquinas[p] = contexto_de(p)
      /\ Maq!motivo_de(de_turno(p).code) = e
  BY MaqPuede, MismasInstrucciones
<1>2. Maq!seguir(p, contexto_de(p))
  BY MaqSeguir
<1> HIDE DEF e
<1>3. /\ programa' = programa /\ memorias' = memorias /\ pedidos' = pedidos
      /\ situaciones' = [situaciones EXCEPT ![p] = e]
  BY CambiaUna DEF Otros, e
<1> QED BY <1>1, <1>2, <1>3 DEF Maq!Llamar, maquinas, memorias, situaciones, pedidos, memoria_de

-----------------------------------------------------------------------------
(* The steps of the CPU.                                                   *)

(* The sizes and the addresses of a process do not change.                 *)
LEMMA Constantes == Fisica' = Fisica /\ TamProceso' = TamProceso
BY DEF Fisica, TamProceso, obtener_df, obtener_pagina, obtener_offset

(* The request of a process is in its packet, its memory where its pages   *)
(* are.                                                                    *)
LEMMA PedidoIgual ==
  ASSUME NEW p \in Procesos, solicitudes'[p] = solicitudes[p]
  PROVE  pedido_de(p)' = pedido_de(p)
<1>1. solicitud(p)' = solicitud(p)
  BY DEF solicitud
<1>2. bytes_de(solicitud(p))' = bytes_de(solicitud(p))
  BY <1>1 DEF bytes_de
<1> QED BY <1>1, <1>2, Constantes DEF pedido_de

(* The memory of p is the same when another process writes, or nobody      *)
(* does.                                                                   *)
LEMMA MemoriaIgual ==
  ASSUME NEW p \in Procesos,
         espacio' = espacio \/ \E q \in Procesos : q # p /\ SoloDe(q, espacio')
  PROVE  memoria_de(p)' = memoria_de(p)
<1>1. ASSUME NEW x \in 0 .. TamProceso - 1
      PROVE  espacio'[Fisica[p][x]] = espacio[Fisica[p][x]]
  <2>1. Fisica[p][x] = obtener_df(p, x)
    BY DEF Fisica
  <2> QED BY <2>1 DEF SoloDe
<1> QED BY <1>1, Constantes DEF memoria_de

(* What can be seen of a process that is not of the turn.                  *)
LEMMA OtroIgual ==
  ASSUME NEW p \in Procesos, Visto(p), Visto(p)',
         p # ejecutando \/ espera = FALSE, p # ejecutando' \/ espera' = FALSE,
         contextos'[p] = contextos[p], estado'[p] = estado[p], solicitudes'[p] = solicitudes[p],
         espacio' = espacio \/ \E q \in Procesos : q # p /\ SoloDe(q, espacio')
  PROVE  Iguales(p)
<1>1. contexto_de(p) = contextos[p] /\ estado_de(p) = fuera(estado[p])
  BY DEF Visto
<1>2. contexto_de(p)' = contextos'[p] /\ estado_de(p)' = fuera(estado'[p])
  BY DEF Visto
<1>3. pedido_de(p)' = pedido_de(p) /\ memoria_de(p)' = memoria_de(p)
  BY PedidoIgual, MemoriaIgual
<1> QED BY <1>1, <1>2, <1>3 DEF Iguales

(* The CPU works for the process of the turn. *)
LEMMA CpuDe ==
  ASSUME Inv, hay_instruccion
  PROVE  /\ ejecutando = pcb.pid /\ pcb.pid \in Procesos /\ espera = TRUE /\ EnCpu
         /\ solicitudes[pcb.pid] = Nadie /\ linea = "ejecuta"
         /\ Puede(pcb.pid) /\ de_turno(pcb.pid) = instruccion
         /\ contexto_de(pcb.pid) = contexto(pcb) /\ estado_de(pcb.pid) = "activo"
<1>1. linea = "ejecuta" /\ pcb.pc < Len(programa[pcb.pid])
  BY DEF hay_instruccion
<1>2. /\ espera = TRUE /\ ejecutando \in Procesos /\ estado[ejecutando] = "EXEC" /\ EnCpu
      /\ ejecutando = pcb.pid
  BY <1>1 DEF Inv, Turno, Ida, Vuelta, CpuLibre, EnCpu
<1>3. contexto_de(pcb.pid) = contexto(pcb) /\ estado_de(pcb.pid) = "activo"
  BY <1>2, VistoDe DEF Visto, Vistos
<1>4. solicitudes[pcb.pid] = Nadie
  BY <1>2 DEF Inv, Solicitudes, EnEspera
<1>5. contexto(pcb).pc = pcb.pc
  BY DEF contexto
<1> QED BY <1>1, <1>2, <1>3, <1>4, <1>5 DEF Puede, de_turno, instruccion

(* After an instruction that goes on, the context is still in the CPU.     *)
LEMMA SigueVisto ==
  ASSUME Inv, hay_instruccion, NEW m \in Contexto, sigue(m), SoloDe(pcb.pid, espacio'),
         NEW p \in Procesos, p = pcb.pid
  PROVE  /\ Otros(p) /\ contexto_de(p)' = siguiente(m, de_turno(p))
         /\ estado_de(p)' = estado_de(p) /\ pedido_de(p)' = pedido_de(p)
<1>1. Inv'
  BY PasoSigueInv DEF PasoSigue
<1>2. \A q \in Procesos : Visto(q)
  BY VistoDe DEF Vistos
<1>3. \A q \in Procesos : Visto(q)'
  <2>1. Vistos'
    BY <1>1, VistoDe, PTL
  <2> QED BY <2>1 DEF Vistos
<1>4. /\ ejecutando = p /\ espera = TRUE /\ EnCpu /\ linea = "ejecuta"
      /\ de_turno(p) = instruccion /\ estado_de(p) = "activo"
  BY CpuDe
<1>5. /\ programa' = programa /\ contextos' = contextos /\ estado' = estado
      /\ solicitudes' = solicitudes /\ ejecutando' = ejecutando /\ espera' = espera
      /\ alCpu' = alCpu /\ alKernel' = alKernel
      /\ salir_ciclo_instruccion' = salir_ciclo_instruccion
      /\ linea' = "chequea" /\ pcb' = t_pcb(pcb.pid, siguiente(m, instruccion))
  BY DEF sigue, terminar_instruccion, delKernel
<1> DEFINE n == siguiente(m, instruccion)
<1>6. n \in Contexto
  BY SiguienteContexto
<1> HIDE DEF n
<1>7. contexto(t_pcb(pcb.pid, n)) = n
  BY <1>6 DEF contexto, t_pcb, Contexto
<1>8. pcb' = t_pcb(p, n) /\ pcb'.pid = p
  BY <1>5 DEF n, t_pcb
<1>9. EnCpu'
  BY <1>4, <1>5, <1>8 DEF EnCpu, CpuOcupada
<1>10. contexto_de(p)' = contexto(pcb') /\ estado_de(p)' = "activo"
  <2>1. Visto(p)'
    BY <1>3
  <2> QED BY <1>4, <1>5, <1>9, <2>1 DEF Visto
<1>11. contexto_de(p)' = n
  BY <1>7, <1>8, <1>10
<1>12. Otros(p)
  <2>1. ASSUME NEW q \in Procesos, q # p PROVE Iguales(q)
    BY <1>2, <1>3, <1>4, <1>5, <2>1, OtroIgual
  <2> QED BY <1>5, <2>1 DEF Otros
<1>13. pedido_de(p)' = pedido_de(p)
  BY <1>5, PedidoIgual
<1> QED BY <1>4, <1>10, <1>11, <1>12, <1>13 DEF n

(* After one that leaves, it is in the packet, as the packet has it.       *)
LEMMA SaleVisto ==
  ASSUME Inv, hay_instruccion, NEW m \in Contexto, NEW e \in Seq(Campo), NEW codigo,
         SaleCon(programa, pcb.pid, m, codigo, e),
         enviar_y_salir(Paquete(codigo, pcb.pid, m, e)),
         \E n \in Contexto : terminar_instruccion(n),
         NEW p \in Procesos, p = pcb.pid
  PROVE  /\ Otros(p) /\ contexto_de(p)' = m /\ estado_de(p)' = llamada(codigo)
         /\ memoria_de(p)' = memoria_de(p) /\ pedido_de(p)' = pedido_de(p)
<1> DEFINE q == Paquete(codigo, p, m, e)
<1>0. Saliente(q, programa, p)
  BY DEF Saliente
<1>1. Inv'
  BY <1>0, PasoSaleInv DEF PasoSale
<1>2. \A r \in Procesos : Visto(r)
  BY VistoDe DEF Vistos
<1>3. \A r \in Procesos : Visto(r)'
  <2>1. Vistos'
    BY <1>1, VistoDe, PTL
  <2> QED BY <2>1 DEF Vistos
<1>4. ejecutando = p /\ espera = TRUE /\ EnCpu
  BY CpuDe
<1>5. /\ programa' = programa /\ espacio' = espacio /\ contextos' = contextos
      /\ estado' = estado /\ solicitudes' = solicitudes /\ ejecutando' = ejecutando
      /\ espera' = espera /\ alCpu' = alCpu /\ alKernel' = Append(alKernel, q)
      /\ salir_ciclo_instruccion' = TRUE /\ linea' = "chequea"
  BY DEF enviar_y_salir, terminar_instruccion, delKernel
<1>6. alKernel' = <<q>> /\ alCpu' = <<>>
  BY <1>4, <1>5 DEF EnCpu
<1>7. Vuelta'
  <2>1. CpuLibre'
    BY <1>5 DEF CpuLibre
  <2>2. Saliente(q, programa', ejecutando')
    BY <1>0, <1>4, <1>5
  <2> QED BY <1>6, <2>1, <2>2 DEF Vuelta
<1>8. contexto_de(p)' = contexto(recibido)' /\ estado_de(p)' = llamada(q.codigo_operacion)
  <2>1. Visto(p)'
    BY <1>3
  <2>2. Head(alKernel)' = q
    BY <1>6
  <2> QED BY <1>4, <1>5, <1>7, <2>1, <2>2 DEF Visto, llamada
<1>9. contexto(recibido)' = m
  <2>1. p \in Campo
    BY DEF Campo
  <2>2. contexto(buffer_desempaquetar_contexto_ejecucion(q.buffer)) = m
    BY <2>1, PaqueteRecibido
  <2>3. Head(alKernel)' = q
    BY <1>6
  <2>4. recibido' = buffer_desempaquetar_contexto_ejecucion(q.buffer)
    BY <2>3 DEF recibido
  <2> QED BY <2>2, <2>4 DEF contexto
<1>10. q.codigo_operacion = codigo
  BY DEF Paquete
<1>11. Otros(p)
  <2>1. ASSUME NEW r \in Procesos, r # p PROVE Iguales(r)
    BY <1>2, <1>3, <1>4, <1>5, <2>1, OtroIgual
  <2> QED BY <1>5, <2>1 DEF Otros
<1>12. pedido_de(p)' = pedido_de(p) /\ memoria_de(p)' = memoria_de(p)
  BY <1>5, PedidoIgual, MemoriaIgual
<1> QED BY <1>8, <1>9, <1>10, <1>11, <1>12

(* An action of one process is a step of the machines. *)
LEMMA EsPaso ==
  ASSUME NEW p \in Procesos,
         \/ Maq!Calcular(p) \/ Maq!MovIn(p) \/ Maq!MovOut(p) \/ Maq!CopyString(p)
         \/ Maq!Resize(p) \/ Maq!Salir(p) \/ Maq!Llamar(p) \/ Maq!Atender(p)
         \/ Maq!Entrada(p) \/ Maq!Volver(p) \/ Maq!Terminar(p)
  PROVE  Maq!Next
BY DEF Maq!Next

(* The packet of a context alone. *)
LEMMA ConContextoDe ==
  ASSUME Tipos, hay_instruccion, NEW codigo
  PROVE  con_contexto(codigo, pcb) = Paquete(codigo, pcb.pid, contexto(pcb), <<>>)
<1>1. /\ pcb.pid \in Campo /\ pcb.pc \in Nat /\ pcb.registros \in [Nombres -> Nat]
      /\ contexto(pcb).pc = pcb.pc /\ contexto(pcb).registros = pcb.registros
  BY InstruccionDe
<1>2. <<>> \in Seq(Campo)
  OBVIOUS
<1>3. con_contexto(codigo, pcb) = Paquete(codigo, pcb.pid, pcb, <<>>)
  BY <1>1, <1>2, PaqueteDe DEF con_contexto
<1>4. Encabezado(pcb.pid, pcb) = Encabezado(pcb.pid, contexto(pcb))
  BY <1>1 DEF Encabezado
<1> QED BY <1>3, <1>4 DEF Paquete

(* Each instruction does in the machine of its process what it does there. *)
LEMMA EjecutarImplementa ==
  ASSUME Inv, execute
  PROVE  Maq!Next
<1>1. Tipos /\ hay_instruccion
  <2>1. Tipos
    BY DEF Inv
  <2> QED BY <2>1, EjecutarPasos DEF PasoSigue, PasoSale
<1> DEFINE i == instruccion
           c == contexto(pcb)
<1>2. PICK p \in Procesos : p = pcb.pid
  BY <1>1, InstruccionDe
<1>3. /\ Puede(p) /\ de_turno(p) = i /\ contexto_de(p) = c /\ estado_de(p) = "activo"
  BY <1>1, <1>2, CpuDe
<1>4. /\ c \in Contexto /\ i \in Instruccion /\ pcb.registros \in [Nombres -> Nat]
      /\ avanzar(c) \in Contexto /\ avanzar(c).pc = c.pc + 1 /\ c.pc = pcb.pc
      /\ c.registros = pcb.registros
  BY <1>1, InstruccionDe
<1>5. ASSUME NEW r PROVE leer_reg(pcb, r) = leer_reg(c, r) /\ get_reg(pcb, r) = get_reg(c, r)
  BY <1>4, LeerRegIgual DEF get_reg
<1>6. espacio \in Espacio /\ SoloDe(p, espacio)
  BY <1>1 DEF Tipos, SoloDe
<1>7. ASSUME espacio' = espacio PROVE memoria_de(p)' = memoria_de(p)
  BY <1>7, MemoriaIgual
<1>8. CASE ejecutar_registros
  <2> DEFINE m == operar(c, i)
  <2>1. i.code \in DeRegistros /\ sigue(m) /\ espacio' = espacio
    BY <1>8 DEF ejecutar_registros
  <2>2. m \in Contexto
    BY <1>4, <2>1, OperarContexto
  <2>3. /\ Otros(p) /\ contexto_de(p)' = siguiente(m, i)
        /\ estado_de(p)' = estado_de(p) /\ pedido_de(p)' = pedido_de(p)
    BY <1>1, <1>2, <1>3, <1>6, <2>1, <2>2, SigueVisto
  <2>4. Maq!Calcular(p)
    BY <1>3, <1>7, <2>1, <2>3, EsCalcular
  <2> QED BY <2>4, EsPaso
<1>9. CASE ejecutarMovIn
  <2> DEFINE a == leer_reg(pcb, i.s)
             n == tamanio_reg(i.r)
             m == escribir_reg(c, i.r, de_bytes(Lectura(p, a, n)))
  <2>1. /\ a \in Nat /\ n \in Nat /\ a + n <= TamProceso /\ m \in Contexto /\ sigue(m)
    BY <1>1, <1>2, <1>9, MovInDe
  <2>2. espacio' = espacio /\ i.code = "MOV_IN"
    BY <1>9 DEF ejecutarMovIn
  <2>3. /\ Otros(p) /\ contexto_de(p)' = siguiente(m, i)
        /\ estado_de(p)' = estado_de(p) /\ pedido_de(p)' = pedido_de(p)
    BY <1>1, <1>2, <1>3, <1>6, <2>1, <2>2, SigueVisto
  <2>4. a = leer_reg(c, i.s) /\ n = tamanio_reg(i.r)
    BY <1>5
  <2> HIDE DEF a, n
  <2>5. Maq!MovIn(p)
    BY <1>3, <1>7, <2>1, <2>2, <2>3, <2>4, EsMovIn
  <2> QED BY <2>5, EsPaso
<1>10. CASE ejecutarMovOut
  <2> DEFINE a == leer_reg(pcb, i.r)
             n == tamanio_reg(i.s)
             dato == a_bytes(leer_reg(pcb, i.s), n)
  <2>1. /\ a \in Nat /\ n \in Nat /\ a + n <= TamProceso /\ Len(dato) = n
        /\ Escrito(espacio', p, a, n, dato) /\ sigue(c)
    BY <1>1, <1>2, <1>10, MovOutDe
  <2>2. i.code = "MOV_OUT"
    BY <1>10 DEF ejecutarMovOut
  <2>3. /\ a = leer_reg(c, i.r) /\ dato = a_bytes(leer_reg(c, i.s), tamanio_reg(i.s))
    BY <1>5
  <2> HIDE DEF a, n, dato
  <2>4. SoloDe(p, espacio')
    BY <2>1, EscritoSolo
  <2>5. /\ Otros(p) /\ contexto_de(p)' = siguiente(c, i)
        /\ estado_de(p)' = estado_de(p) /\ pedido_de(p)' = pedido_de(p)
    BY <1>1, <1>2, <1>3, <1>4, <2>1, <2>4, SigueVisto
  <2>6. Maq!MovOut(p)
    BY <1>3, <2>1, <2>2, <2>3, <2>5, EsMovOut
  <2> QED BY <2>6, EsPaso
<1>11. CASE ejecutarCopyString
  <2> DEFINE si == get_reg(pcb, "SI")
             di == get_reg(pcb, "DI")
             n == i.n
             dato == Lectura(p, si, n)
  <2>1. /\ si \in Nat /\ di \in Nat /\ n \in Nat
        /\ n > 0 => si + n <= TamProceso /\ di + n <= TamProceso
        /\ Len(dato) = n /\ Escrito(espacio', p, di, n, dato) /\ sigue(c)
    BY <1>1, <1>2, <1>11, CopyStringDe
  <2>2. i.code = "COPY_STRING"
    BY <1>11 DEF ejecutarCopyString
  <2>3. si = get_reg(c, "SI") /\ di = get_reg(c, "DI") /\ n = i.n
    BY <1>5
  <2> HIDE DEF si, di, n
  <2>4. SoloDe(p, espacio')
    <3> HIDE DEF dato
    <3> QED BY <2>1, EscritoSolo
  <2>5. /\ Otros(p) /\ contexto_de(p)' = siguiente(c, i)
        /\ estado_de(p)' = estado_de(p) /\ pedido_de(p)' = pedido_de(p)
    BY <1>1, <1>2, <1>3, <1>4, <2>1, <2>4, SigueVisto
  <2>6. Maq!CopyString(p)
    BY <1>3, <2>1, <2>2, <2>3, <2>5, EsCopyString
  <2> QED BY <2>6, EsPaso
<1>12. ASSUME NEW codigo, codigo \in {"SUCCESS", "OUT_OF_MEMORY"},
              enviar_y_salir(con_contexto(codigo, pcb)), terminar_instruccion(c)
       PROVE  /\ Otros(p) /\ contexto_de(p)' = c /\ estado_de(p)' = codigo
              /\ memoria_de(p)' = memoria_de(p) /\ pedido_de(p)' = pedido_de(p)
  <2>1. enviar_y_salir(Paquete(codigo, pcb.pid, c, <<>>))
    BY <1>1, <1>12, ConContextoDe
  <2>2. <<>> \in Seq(Campo) /\ SaleCon(programa, pcb.pid, c, codigo, <<>>)
    BY <1>12 DEF SaleCon, Finales
  <2>3. llamada(codigo) = codigo
    BY <1>12 DEF llamada
  <2> QED BY <1>1, <1>2, <1>4, <1>12, <2>1, <2>2, <2>3, SaleVisto
<1>13. CASE ejecutarResize
  <2>1. i.code = "RESIZE"
    BY <1>13 DEF ejecutarResize
  <2>2. CASE sigue(c) /\ espacio' = espacio
    <3>1. /\ Otros(p) /\ contexto_de(p)' = siguiente(c, i)
          /\ estado_de(p)' = estado_de(p) /\ pedido_de(p)' = pedido_de(p)
      BY <1>1, <1>2, <1>3, <1>4, <1>6, <2>2, SigueVisto
    <3>2. Maq!Resize(p)
      BY <1>3, <1>7, <2>1, <2>2, <3>1, EsResize
    <3> QED BY <3>2, EsPaso
  <2>3. CASE enviar_y_salir(con_contexto("OUT_OF_MEMORY", pcb)) /\ terminar_instruccion(c)
    <3>1. /\ Otros(p) /\ contexto_de(p)' = c /\ estado_de(p)' = "OUT_OF_MEMORY"
          /\ memoria_de(p)' = memoria_de(p) /\ pedido_de(p)' = pedido_de(p)
      BY <1>12, <2>3
    <3>2. Maq!Resize(p)
      BY <1>3, <2>1, <3>1, EsResize
    <3> QED BY <3>2, EsPaso
  <2> QED BY <1>13, <2>2, <2>3 DEF ejecutarResize
<1>14. CASE ejecutar_exit
  <2>1. /\ i.code = "EXIT"
        /\ enviar_y_salir(con_contexto("SUCCESS", pcb)) /\ terminar_instruccion(c)
    BY <1>14 DEF ejecutar_exit
  <2>2. /\ Otros(p) /\ contexto_de(p)' = c /\ estado_de(p)' = "SUCCESS"
        /\ memoria_de(p)' = memoria_de(p) /\ pedido_de(p)' = pedido_de(p)
    BY <1>12, <2>1
  <2>3. Maq!Salir(p)
    BY <1>3, <2>1, <2>2, EsSalir
  <2> QED BY <2>3, EsPaso
<1>15. ASSUME i.code \in DeRecursos \cup DeEntradaSalida,
              NEW e \in Seq(Campo), SaleCon(programa, pcb.pid, avanzar(c), motivo_de(i.code), e),
              enviar_y_salir(Paquete(motivo_de(i.code), pcb.pid, avanzar(c), e)),
              terminar_instruccion(avanzar(c))
       PROVE  Maq!Next
  <2> DEFINE codigo == motivo_de(i.code)
             m == avanzar(c)
  <2>1. llamada(codigo) = codigo
    BY DEF llamada, motivo_de
  <2>2. m = siguiente(c, i)
    BY <1>15 DEF siguiente, DeRecursos, DeEntradaSalida, ConDirecciones, ConArchivo
  <2>3. \E n \in Contexto : terminar_instruccion(n)
    BY <1>4, <1>15
  <2>4. m \in Contexto /\ SaleCon(programa, pcb.pid, m, codigo, e)
        /\ enviar_y_salir(Paquete(codigo, pcb.pid, m, e))
    BY <1>4, <1>15
  <2> HIDE DEF codigo, m
  <2>5. /\ Otros(p) /\ contexto_de(p)' = m /\ estado_de(p)' = llamada(codigo)
        /\ memoria_de(p)' = memoria_de(p) /\ pedido_de(p)' = pedido_de(p)
    BY <1>1, <1>2, <2>3, <2>4, SaleVisto
  <2>6. contexto_de(p)' = siguiente(c, i) /\ estado_de(p)' = motivo_de(i.code)
    BY <2>1, <2>2, <2>5 DEF codigo
  <2>7. Maq!Llamar(p)
    BY <1>3, <1>15, <2>5, <2>6, EsLlamar
  <2> QED BY <2>7, EsPaso
<1>16. CASE ejecutar_recurso
  <2> DEFINE m == avanzar(c)
             codigo == motivo_de(i.code)
             e == <<i.nombre>>
  <2>1. /\ i.code \in DeRecursos /\ terminar_instruccion(m)
        /\ enviar_y_salir(agregar_a_paquete(con_contexto(codigo, m), e))
    BY <1>16 DEF ejecutar_recurso
  <2>2. e \in Seq(Campo) /\ Len(e) = 1
    <3>1. i.nombre \in Campo
      BY <1>4 DEF Instruccion, Campo, Textos
    <3> QED BY <3>1
  <2>3. codigo \in {"COP_WAIT", "COP_SIGNAL"}
    BY <2>1 DEF motivo_de, DeRecursos
  <2>4. pcb.pid \in Campo /\ m.pc \in Nat /\ m.registros \in [Nombres -> Nat]
    BY <1>1, <1>4, InstruccionDe DEF Contexto
  <2> HIDE DEF codigo, e, m
  <2>5. agregar_a_paquete(con_contexto(codigo, m), e) = Paquete(codigo, pcb.pid, m, e)
    BY <2>2, <2>4, PaqueteDe DEF con_contexto
  <2>6. SaleCon(programa, pcb.pid, m, codigo, e)
    BY <2>2, <2>3 DEF SaleCon
  <2> QED BY <1>15, <2>1, <2>2, <2>5, <2>6 DEF m, codigo
<1>17. CASE \/ ejecutarIoGenSleep \/ ejecutarStdRead \/ ejecutarStdWrite \/ ejecutarIOFsCreate
            \/ ejecutarIOFsDelete \/ ejecutarIOFsTruncate \/ ejecutarIOFsRead
            \/ ejecutarIOFsWrite
  <2> DEFINE m == avanzar(c)
  <2>1. i.code \in DeEntradaSalida /\ pedir_io(i.code, numeros_de(i))
    BY <1>1, <1>17, PedirIoDe
  <2>2. /\ terminar_instruccion(m)
        /\ \E o : /\ EsPedido(pcb.pid, m, i, o)
                  /\ enviar_y_salir(Paquete("IO", pcb.pid, m,
                                            <<"interfaz", i.code>> \o Cuerpo(i.code, o)))
    BY <1>1, <2>1, PedirIoSale
  <2>3. PICK o : /\ EsPedido(pcb.pid, m, i, o)
                 /\ enviar_y_salir(Paquete("IO", pcb.pid, m,
                                           <<"interfaz", i.code>> \o Cuerpo(i.code, o)))
    BY <2>2
  <2>4. programa[pcb.pid][m.pc] = i
    BY <1>4 DEF instruccion
  <2> DEFINE e == <<"interfaz", i.code>> \o Cuerpo(i.code, o)
  <2>5. e \in Seq(Campo)
    <3>1. Cuerpo(i.code, o) \in Seq(Campo)
      BY <2>3, OperacionDesempaquetada DEF EsPedido
    <3>2. "interfaz" \in Campo /\ i.code \in Campo
      BY <2>1 DEF Campo
    <3>3. <<"interfaz", i.code>> \in Seq(Campo)
      BY <3>2
    <3> QED BY <3>1, <3>3, ConcatProperties
  <2>6. SaleCon(programa, pcb.pid, m, "IO", e)
    BY <2>3, <2>4 DEF SaleCon, Pide, codigo_de
  <2>7. motivo_de(i.code) = "IO"
    BY <2>1 DEF motivo_de, DeEntradaSalida, ConDirecciones, ConArchivo
  <2> HIDE DEF e
  <2>8. enviar_y_salir(Paquete("IO", pcb.pid, m, e))
    BY <2>3 DEF e
  <2> QED BY <1>15, <2>1, <2>2, <2>5, <2>6, <2>7, <2>8
<1> QED BY <1>8, <1>9, <1>10, <1>11, <1>13, <1>14, <1>16, <1>17 DEF execute

-----------------------------------------------------------------------------
(* The steps that no machine notices.                                      *)

(* What is not of p, and is not of the turn, does not change.              *)
LEMMA OtrosIguales ==
  ASSUME Inv, Inv', NEW p \in Procesos, programa' = programa,
         espacio' = espacio \/ SoloDe(p, espacio'),
         \A q \in Procesos : q # p =>
           /\ contextos'[q] = contextos[q] /\ estado'[q] = estado[q]
           /\ solicitudes'[q] = solicitudes[q]
           /\ q # ejecutando \/ espera = FALSE
           /\ q # ejecutando' \/ espera' = FALSE
  PROVE  Otros(p)
<1>1. \A q \in Procesos : Visto(q)
  BY VistoDe DEF Vistos
<1>2. \A q \in Procesos : Visto(q)'
  <2>1. Vistos'
    BY VistoDe, PTL
  <2> QED BY <2>1 DEF Vistos
<1>3. ASSUME NEW q \in Procesos, q # p PROVE Iguales(q)
  <2>1. Visto(q) /\ Visto(q)'
    BY <1>1, <1>2
  <2>2. espacio' = espacio \/ \E r \in Procesos : r # q /\ SoloDe(r, espacio')
    BY <1>3
  <2> QED BY <1>3, <2>1, <2>2, OtroIgual
<1> QED BY <1>3 DEF Otros

(* The turn goes on, and the machine of its process does not change.       *)
LEMMA TurnoSigue ==
  ASSUME Inv, Inv',
         UNCHANGED <<programa, espacio, contextos, estado, solicitudes, ejecutando, espera>>,
         \A p \in Procesos : p = ejecutando /\ espera = TRUE =>
           contexto_de(p)' = contexto_de(p) /\ estado_de(p)' = estado_de(p)
  PROVE  UNCHANGED Maq!vars
<1>1. \A q \in Procesos : Visto(q)
  BY VistoDe DEF Vistos
<1>2. \A q \in Procesos : Visto(q)'
  <2>1. Vistos'
    BY VistoDe, PTL
  <2> QED BY <2>1 DEF Vistos
<1>3. espera = TRUE \/ espera = FALSE
  BY DEF Inv, Turno
<1>4. ASSUME NEW q \in Procesos PROVE Iguales(q)
  <2>1. CASE q = ejecutando /\ espera = TRUE
    <3>1. pedido_de(q)' = pedido_de(q) /\ memoria_de(q)' = memoria_de(q)
      BY PedidoIgual, MemoriaIgual
    <3> QED BY <2>1, <3>1 DEF Iguales
  <2>2. CASE q # ejecutando \/ espera = FALSE
    BY <1>1, <1>2, <2>2, OtroIgual
  <2> QED BY <1>3, <2>1, <2>2
<1> QED BY <1>4, NadaCambia

(* The context that the CPU takes is the one the planner sent.             *)
LEMMA RecibirContextoQuieto ==
  ASSUME Inv, RecibirContexto
  PROVE  UNCHANGED Maq!vars
<1>1. Inv'
  BY RecibirContextoInv
<1>2. /\ linea = "recibe" /\ alCpu # <<>>
      /\ pcb' = buffer_desempaquetar_contexto_ejecucion(Head(alCpu).buffer)
      /\ alCpu' = Tail(alCpu)
      /\ linea' = "ejecuta" /\ salir_ciclo_instruccion' = FALSE
      /\ UNCHANGED <<programa, espacio, contextos, estado, solicitudes, ejecutando, espera>>
      /\ alKernel' = alKernel
  BY DEF RecibirContexto, delKernel
<1>3. espera = TRUE /\ ejecutando \in Procesos /\ Ida
  BY <1>2 DEF Inv, Turno, EnCpu, Vuelta
<1>4. PICK p \in Procesos : p = ejecutando
  BY <1>3
<1> DEFINE m == contextos[p]
           q == Paquete("CONTEXTO_DE_EJECUCION", p, m, <<>>)
<1>5. p \in Campo /\ m \in Contexto /\ <<>> \in Seq(Campo)
  BY DEF Inv, Tipos, Campo
<1>6. buffer_desempaquetar_contexto_ejecucion(q.buffer) = t_pcb(p, m)
  BY <1>5, PaqueteRecibido
<1>7. alCpu = <<q>> /\ alKernel = <<>>
  BY <1>3, <1>4 DEF Ida
<1> HIDE DEF q
<1>8. pcb' = t_pcb(p, m) /\ alCpu' = <<>>
  BY <1>2, <1>6, <1>7
<1>9. EnCpu' /\ contexto(pcb') = m
  BY <1>2, <1>4, <1>5, <1>7, <1>8 DEF EnCpu, CpuOcupada, contexto, t_pcb, Contexto
<1>10. contexto_de(p) = m /\ estado_de(p) = "activo"
  BY <1>3, <1>4, VistoDe DEF Visto, Vistos
<1>11. contexto_de(p)' = contexto(pcb') /\ estado_de(p)' = "activo"
  <2>1. Vistos'
    BY <1>1, VistoDe, PTL
  <2>2. Visto(p)'
    BY <2>1 DEF Vistos
  <2> QED BY <1>2, <1>3, <1>4, <1>9, <2>2 DEF Visto
<1>12. contexto_de(p)' = contexto_de(p) /\ estado_de(p)' = estado_de(p)
  BY <1>9, <1>10, <1>11
<1> QED BY <1>1, <1>2, <1>4, <1>12, TurnoSigue

(* After an instruction, the context stays where it is or leaves as it is. *)
LEMMA CheckInterruptQuieto ==
  ASSUME Inv, check_interrupt
  PROVE  UNCHANGED Maq!vars
<1> DEFINE t == diccionario_interrupciones[pcb.pid]
           f == con_contexto(t, pcb)
<1>1. Inv'
  BY CheckInterruptInv
<1>2. /\ linea = "chequea"
      /\ alKernel' = IF ~salir_ciclo_instruccion /\ t # "nada"
                       THEN Append(alKernel, f) ELSE alKernel
      /\ salir_ciclo_instruccion' = (salir_ciclo_instruccion \/ t # "nada")
      /\ linea' = IF salir_ciclo_instruccion \/ t # "nada" THEN "recibe" ELSE "ejecuta"
      /\ UNCHANGED <<programa, espacio, contextos, estado, solicitudes, ejecutando, espera>>
      /\ alCpu' = alCpu /\ pcb' = pcb
  BY DEF check_interrupt, delKernel
<1> HIDE DEF f
<1>3. ASSUME NEW p \in Procesos, p = ejecutando, espera = TRUE
      PROVE  contexto_de(p)' = contexto_de(p) /\ estado_de(p)' = estado_de(p)
  <2>1. Visto(p)
    BY VistoDe DEF Vistos
  <2>2. Visto(p)'
    <3>1. Vistos'
      BY <1>1, VistoDe, PTL
    <3> QED BY <3>1 DEF Vistos
  <2>3. p = ejecutando' /\ espera' = TRUE
    BY <1>2, <1>3
  <2>4. CASE salir_ciclo_instruccion = TRUE
    <3>1. alKernel' = alKernel /\ linea' = "recibe" /\ CpuLibre'
      BY <1>2, <2>4 DEF CpuLibre
    <3>2. Ida \/ Vuelta
      BY <1>3, <2>4 DEF Inv, Turno, EnCpu, CpuOcupada
    <3>3. CASE Ida
      <4>1. Ida'
        BY <1>2, <3>1, <3>3 DEF Ida
      <4> QED BY <1>2, <1>3, <2>1, <2>2, <2>3, <3>3, <4>1 DEF Visto
    <3>4. CASE Vuelta
      <4>1. Vuelta'
        BY <1>2, <3>1, <3>4 DEF Vuelta
      <4>2. contexto(recibido)' = contexto(recibido)
        BY <3>1 DEF contexto, recibido
      <4> QED BY <1>3, <2>1, <2>2, <2>3, <3>1, <3>4, <4>1, <4>2 DEF Visto, llamada
    <3> QED BY <3>2, <3>3, <3>4
  <2>5. CASE salir_ciclo_instruccion # TRUE
    <3>1. EnCpu
      BY <1>2, <1>3, <2>5 DEF Inv, Turno, Ida, Vuelta, CpuLibre
    <3>2. /\ alCpu = <<>> /\ alKernel = <<>> /\ pcb.pid = p /\ salir_ciclo_instruccion = FALSE
      BY <1>3, <3>1 DEF EnCpu, CpuOcupada
    <3>3. contexto_de(p) = contexto(pcb) /\ estado_de(p) = "activo"
      BY <1>3, <2>1, <3>1 DEF Visto
    <3>4. CASE t = "nada"
      <4>1. alKernel' = <<>> /\ linea' = "ejecuta" /\ salir_ciclo_instruccion' = FALSE
        BY <1>2, <3>2, <3>4
      <4>2. EnCpu' /\ contexto(pcb)' = contexto(pcb)
        BY <1>2, <2>3, <3>2, <4>1 DEF EnCpu, CpuOcupada, contexto
      <4> QED BY <2>2, <2>3, <3>3, <4>2 DEF Visto
    <3>5. CASE t # "nada"
      <4>1. alKernel' = <<f>> /\ linea' = "recibe"
        BY <1>2, <3>2, <3>5
      <4>2. t \in {"INTERRUPT_QUANTUM", "INTERRUPT_USER"}
        <5>1. p \in Procesos /\ pcb.pid = p
          BY <3>2
        <5>2. t \in Interrupciones
          BY <3>5, <5>1 DEF Inv, Tipos
        <5> QED BY <5>2, CicloCPUAssumption
      <4> DEFINE c == contexto(pcb)
      <4>3. /\ pcb.pc \in Nat /\ pcb.registros \in [Nombres -> Nat] /\ p \in Campo
            /\ c \in Contexto /\ c.pc = pcb.pc /\ c.registros = pcb.registros
        BY DEF Inv, Tipos, contexto, Contexto, Campo
      <4>4. <<>> \in Seq(Campo)
        OBVIOUS
      <4> HIDE DEF t
      <4>5. f = Paquete(t, p, pcb, <<>>)
        BY <3>2, <4>3, <4>4, PaqueteDe DEF con_contexto, f
      <4> HIDE DEF c
      <4>6. Encabezado(p, pcb) = Encabezado(p, c)
        BY <4>3 DEF Encabezado
      <4>7. f = Paquete(t, p, c, <<>>)
        BY <4>5, <4>6 DEF Paquete
      <4>8. Head(alKernel)' = f
        BY <4>1
      <4>9. contexto(recibido)' = c
        <5>1. contexto(buffer_desempaquetar_contexto_ejecucion(f.buffer)) = c
          BY <4>3, <4>4, <4>7, PaqueteRecibido
        <5>2. recibido' = buffer_desempaquetar_contexto_ejecucion(f.buffer)
          BY <4>8 DEF recibido
        <5> QED BY <5>1, <5>2 DEF contexto
      <4>10. f.codigo_operacion = t
        BY <4>7 DEF Paquete
      <4>11. Vuelta'
        <5>1. ~Ida' /\ ~EnCpu'
          BY <4>1 DEF Ida, EnCpu
        <5> QED BY <1>1, <2>3, <5>1 DEF Inv, Turno
      <4>12. contexto_de(p)' = c /\ estado_de(p)' = llamada(Head(alKernel).codigo_operacion)'
        BY <2>2, <2>3, <4>9, <4>11 DEF Visto
      <4>13. estado_de(p)' = "activo"
        BY <4>2, <4>8, <4>10, <4>12 DEF llamada
      <4> QED BY <3>3, <4>12, <4>13 DEF c
    <3> QED BY <3>4, <3>5
  <2> QED BY <2>4, <2>5
<1> QED BY <1>1, <1>2, <1>3, TurnoSigue

(* An interrupt that arrives changes nothing of the machines.              *)
LEMMA InterrumpirQuieto ==
  ASSUME Inv, NEW tipo \in Interrupciones, atender_cpu_kernel_interrupt(tipo)
  PROVE  UNCHANGED Maq!vars
<1>1. Inv'
  BY InterrumpirInv
<1>2. /\ UNCHANGED <<programa, espacio, contextos, estado, solicitudes, ejecutando, espera>>
      /\ alKernel' = alKernel /\ pcb' = pcb /\ linea' = linea
      /\ salir_ciclo_instruccion' = salir_ciclo_instruccion
  BY DEF atender_cpu_kernel_interrupt, delKernel, cpu
<1>3. ASSUME NEW p \in Procesos
      PROVE  contexto_de(p)' = contexto_de(p) /\ estado_de(p)' = estado_de(p)
  BY <1>2 DEF contexto_de, estado_de, contexto, recibido
<1> QED BY <1>1, <1>2, <1>3, TurnoSigue

(* Nor does an interface that takes a request.                             *)
LEMMA AtenderEntradaQuieto ==
  ASSUME Inv, NEW p \in Procesos, AtenderEntrada(p)
  PROVE  UNCHANGED Maq!vars
<1>1. Inv'
  BY AtenderEntradaInv
<1>2. /\ UNCHANGED <<programa, espacio, contextos, estado, solicitudes, ejecutando, espera>>
      /\ alKernel' = alKernel /\ pcb' = pcb /\ linea' = linea
      /\ salir_ciclo_instruccion' = salir_ciclo_instruccion
  BY DEF AtenderEntrada, delKernel, cpu
<1>3. ASSUME NEW q \in Procesos
      PROVE  contexto_de(q)' = contexto_de(q) /\ estado_de(q)' = estado_de(q)
  BY <1>2 DEF contexto_de, estado_de, contexto, recibido
<1> QED BY <1>1, <1>2, <1>3, TurnoSigue

(* One process changes, and its machine does not. *)
LEMMA SoloUnoQuieto ==
  ASSUME NEW p \in Procesos, Otros(p), Iguales(p)
  PROVE  UNCHANGED Maq!vars
BY NadaCambia DEF Otros

(* A process of the turn has the machine that its PCB has. *)
LEMMA DespacharQuieto ==
  ASSUME Inv, NEW p \in Procesos, Despachar(p)
  PROVE  UNCHANGED Maq!vars
<1>1. Inv'
  BY DespacharInv
<1>2. /\ ~espera /\ estado[p] = "READY"
      /\ estado' = [estado EXCEPT ![p] = "EXEC"]
      /\ ejecutando' = p /\ espera' = TRUE
      /\ alCpu' = Append(alCpu, paquete_contexto(p, contextos[p]))
      /\ programa' = programa /\ espacio' = espacio /\ contextos' = contextos
      /\ solicitudes' = solicitudes /\ alKernel' = alKernel /\ linea' = linea
      /\ salir_ciclo_instruccion' = salir_ciclo_instruccion
  BY DEF Despachar, cpu
<1>3. espera = FALSE /\ alCpu = <<>> /\ CpuLibre
  BY <1>2 DEF Inv, Turno
<1>4. \A q \in Procesos : q # p => estado'[q] = estado[q]
  BY <1>2 DEF Inv, Tipos
<1>5. Otros(p)
  BY <1>1, <1>2, <1>3, <1>4, OtrosIguales
<1>6. contexto_de(p) = contextos[p] /\ estado_de(p) = "activo"
  <2>1. Visto(p)
    BY VistoDe DEF Vistos
  <2> QED BY <1>2, <1>3, <2>1 DEF Visto, fuera
<1>7. Ida'
  <2>1. ~CpuOcupada'
    BY <1>2, <1>3 DEF CpuLibre, CpuOcupada
  <2>2. alCpu' # <<>>
    BY <1>2, <1>3
  <2> QED BY <1>1, <1>2, <2>1, <2>2 DEF Inv, Turno, EnCpu, Vuelta
<1>8. contexto_de(p)' = contextos'[p] /\ estado_de(p)' = "activo"
  <2>1. Vistos'
    BY <1>1, VistoDe, PTL
  <2>2. Visto(p)'
    BY <2>1 DEF Vistos
  <2> QED BY <1>2, <1>7, <2>2 DEF Visto
<1>9. Iguales(p)
  BY <1>2, <1>6, <1>8, PedidoIgual, MemoriaIgual DEF Iguales
<1> QED BY <1>5, <1>9, SoloUnoQuieto

-----------------------------------------------------------------------------
(* The steps of the kernel and of the interfaces.                          *)

(* A process that leaves the system does Terminar.                         *)
LEMMA EsTerminar ==
  ASSUME NEW p \in Procesos, Otros(p), estado_de(p) # "fin", estado_de(p)' = "fin",
         contexto_de(p)' = contexto_de(p), memoria_de(p)' = memoria_de(p),
         pedido_de(p)' = <<>>
  PROVE  Maq!Terminar(p)
<1>1. /\ programa' = programa /\ memorias' = memorias
      /\ pedidos' = [pedidos EXCEPT ![p] = <<>>]
      /\ maquinas' = maquinas /\ situaciones' = [situaciones EXCEPT ![p] = "fin"]
      /\ situaciones[p] # "fin"
  BY CambiaUna DEF Otros, situaciones
<1> QED BY <1>1 DEF Maq!Terminar, maquinas, memorias, situaciones, pedidos, memoria_de

(* A blocked process that is ready again does Volver.                      *)
LEMMA EsVolver ==
  ASSUME NEW p \in Procesos, Otros(p), estado_de(p) = "bloqueado", estado_de(p)' = "activo",
         contexto_de(p)' = contexto_de(p), memoria_de(p)' = memoria_de(p),
         pedido_de(p)' = <<>>
  PROVE  Maq!Volver(p)
<1>1. /\ programa' = programa /\ memorias' = memorias /\ maquinas' = maquinas
      /\ pedidos' = [pedidos EXCEPT ![p] = <<>>]
      /\ situaciones' = [situaciones EXCEPT ![p] = "activo"]
      /\ situaciones[p] = "bloqueado"
  BY CambiaUna DEF Otros, situaciones
<1> QED BY <1>1 DEF Maq!Volver, maquinas, memorias, situaciones, pedidos, memoria_de

(* The answer of the kernel to a call is an Atender.                       *)
LEMMA EsAtender ==
  ASSUME NEW p \in Procesos, Otros(p),
         contexto_de(p)' = contexto_de(p), memoria_de(p)' = memoria_de(p),
         \/ /\ estado_de(p) \in {"COP_WAIT", "COP_SIGNAL"} /\ estado_de(p)' = "activo"
            /\ pedido_de(p)' = pedido_de(p)
         \/ /\ estado_de(p) = "COP_WAIT" /\ estado_de(p)' = "bloqueado"
            /\ pedido_de(p)' = pedido_de(p)
         \/ /\ estado_de(p) = "IO" /\ estado_de(p)' = "bloqueado"
            /\ pedido_de(p)' = t_pedido(contexto_de(p), programa[p][contexto_de(p).pc])
  PROVE  Maq!Atender(p)
<1> DEFINE x == t_pedido(contexto_de(p), programa[p][contexto_de(p).pc])
<1>1. /\ programa' = programa /\ memorias' = memorias /\ maquinas' = maquinas
      /\ situaciones[p] = estado_de(p) /\ maquinas[p] = contexto_de(p)
  BY CambiaUna DEF Otros, situaciones, maquinas
<1>2. \/ /\ situaciones[p] \in {"COP_WAIT", "COP_SIGNAL"}
         /\ situaciones' = [situaciones EXCEPT ![p] = "activo"] /\ pedidos' = pedidos
      \/ /\ situaciones[p] = "COP_WAIT"
         /\ situaciones' = [situaciones EXCEPT ![p] = "bloqueado"] /\ pedidos' = pedidos
      \/ /\ situaciones[p] = "IO"
         /\ situaciones' = [situaciones EXCEPT ![p] = "bloqueado"]
         /\ pedidos' = [pedidos EXCEPT ![p] = x]
  <2> HIDE DEF x
  <2>1. /\ \A y : estado_de(p)' = y => situaciones' = [situaciones EXCEPT ![p] = y]
        /\ pedido_de(p)' = x => pedidos' = [pedidos EXCEPT ![p] = x]
        /\ pedido_de(p)' = pedido_de(p) => pedidos' = pedidos
    BY CambiaUna
  <2> QED BY <1>1, <2>1 DEF x
<1>3. Maq!t_pedido(contexto_de(p), programa[p][contexto_de(p).pc]) = x
  BY MismoPedido
<1> HIDE DEF x
<1> QED BY <1>1, <1>2, <1>3 DEF Maq!Atender, maquinas, memorias, situaciones, pedidos, memoria_de

(* Nothing changes in the memory of p but what it asked for.               *)
LEMMA EsEntrada ==
  ASSUME NEW p \in Procesos, Otros(p), pedido_de(p) # <<>>,
         pedido_de(p).code \in {"IO_STDIN_READ", "IO_FS_READ"},
         contexto_de(p)' = contexto_de(p), estado_de(p)' = estado_de(p),
         pedido_de(p)' = pedido_de(p),
         \A x \in 0 .. TamProceso - 1 :
           x \notin pedido_de(p).base .. pedido_de(p).base + pedido_de(p).tamanio - 1 =>
             espacio'[Fisica[p][x]] = espacio[Fisica[p][x]]
  PROVE  Maq!Entrada(p)
<1>1. /\ programa' = programa /\ maquinas' = maquinas /\ situaciones' = situaciones
      /\ pedidos' = pedidos /\ pedidos[p] = pedido_de(p)
  BY CambiaUna DEF Otros, pedidos
<1>2. memorias' = [memorias EXCEPT ![p] = memorias'[p]]
  BY SoloEn DEF Otros, Iguales, memorias
<1>3. DOMAIN memorias[p] = 0 .. TamProceso - 1
  BY DEF memorias, memoria_de
<1>4. ASSUME NEW x \in DOMAIN memorias[p],
             x \notin pedido_de(p).base .. pedido_de(p).base + pedido_de(p).tamanio - 1
      PROVE  memorias'[p][x] = memorias[p][x]
  <2>1. x \in 0 .. TamProceso - 1
    BY <1>3
  <2>2. memorias[p][x] = espacio[Fisica[p][x]] /\ memorias'[p][x] = espacio'[Fisica[p][x]]
    BY <2>1, Constantes DEF memorias, memoria_de
  <2> QED BY <1>4, <2>1, <2>2
<1> QED BY <1>1, <1>2, <1>3, <1>4
        DEF Maq!Entrada, maquinas, memorias, situaciones, pedidos, memoria_de

(* What the planner receives is the machine of the process, stopped.       *)
LEMMA RecibidoVisto ==
  ASSUME Inv, espera, alKernel # <<>>, NEW p \in Procesos, p = ejecutando
  PROVE  /\ contexto_de(p) = contexto(recibido) /\ solicitudes[p] = Nadie
         /\ estado_de(p) = llamada(Head(alKernel).codigo_operacion)
<1>1. espera = TRUE /\ Vuelta
  BY DEF Inv, Turno, Ida, EnCpu
<1>2. Visto(p)
  BY VistoDe DEF Vistos
<1> QED BY <1>1, <1>2, RecibidoDe DEF Visto

(* It goes to the PCB as it is.                                            *)
LEMMA GuardarVisto ==
  ASSUME Inv, Inv', espera, alKernel # <<>>, NEW p \in Procesos, p = ejecutando,
         NEW b, guardar(b), NEW e, pasar_a(e),
         \A q \in Procesos : q # p => solicitudes'[q] = solicitudes[q]
  PROVE  /\ Otros(p) /\ contexto_de(p)' = contexto_de(p) /\ memoria_de(p)' = memoria_de(p)
         /\ contextos'[p] = contexto_de(p) /\ programa' = programa
         /\ estado_de(p)' = fuera(e)
<1>1. /\ programa' = programa /\ espacio' = espacio
      /\ contextos'[p] = contexto(recibido)
      /\ \A q \in Procesos : q # p => contextos'[q] = contextos[q]
  BY GuardarDe
<1>2. espera' = FALSE /\ estado' = [estado EXCEPT ![p] = e]
  BY DEF pasar_a
<1>3. estado'[p] = e /\ \A q \in Procesos : q # p => estado'[q] = estado[q]
  BY <1>2 DEF Inv, Tipos
<1>4. Otros(p)
  BY <1>1, <1>2, <1>3, OtrosIguales
<1>5. contexto_de(p)' = contextos'[p] /\ estado_de(p)' = fuera(estado'[p])
  <2>1. Vistos'
    BY VistoDe, PTL
  <2>2. Visto(p)'
    BY <2>1 DEF Vistos
  <2> QED BY <1>2, <2>2 DEF Visto
<1> QED BY <1>1, <1>3, <1>4, <1>5, RecibidoVisto, MemoriaIgual

(* The end of a process, whatever its reason, is a Terminar.               *)
LEMMA ManejarFinImplementa ==
  ASSUME Inv, ManejarFin
  PROVE  Maq!Next
<1>1. /\ espera /\ alKernel # <<>> /\ guardar(resto) /\ pasar_a("EXIT")
      /\ solicitudes' = solicitudes
      /\ Head(alKernel).codigo_operacion
           \in {"SUCCESS", "OUT_OF_MEMORY", "INTERRUPT_USER", "COP_WAIT", "COP_SIGNAL", "IO"}
  BY DEF ManejarFin, recibe
<1>2. PICK p \in Procesos : p = ejecutando
  BY <1>1, RecibidoDe
<1>3. Inv'
  BY ManejarFinInv
<1>4. estado_de(p) # "fin"
  BY <1>1, <1>2, RecibidoVisto DEF llamada
<1>5. /\ Otros(p) /\ contexto_de(p)' = contexto_de(p) /\ memoria_de(p)' = memoria_de(p)
      /\ estado_de(p)' = "fin"
  BY <1>1, <1>2, <1>3, GuardarVisto DEF fuera
<1>6. pedido_de(p)' = <<>>
  <2>1. solicitudes[p] = Nadie
    BY <1>1, <1>2, RecibidoVisto
  <2> QED BY <1>1, <2>1 DEF pedido_de
<1>7. Maq!Terminar(p)
  BY <1>4, <1>5, <1>6, EsTerminar
<1> QED BY <1>7, EsPaso

(* The end of a quantum changes nothing of the machines.                   *)
LEMMA ManejarQuantumQuieto ==
  ASSUME Inv, ManejarQuantum
  PROVE  UNCHANGED Maq!vars
<1>1. /\ espera /\ alKernel # <<>> /\ guardar(resto) /\ pasar_a("READY")
      /\ solicitudes' = solicitudes
      /\ Head(alKernel).codigo_operacion = "INTERRUPT_QUANTUM"
  BY DEF ManejarQuantum, recibe
<1>2. PICK p \in Procesos : p = ejecutando
  BY <1>1, RecibidoDe
<1>3. Inv'
  BY ManejarQuantumInv
<1>4. estado_de(p) = "activo"
  BY <1>1, <1>2, RecibidoVisto DEF llamada
<1>5. /\ Otros(p) /\ contexto_de(p)' = contexto_de(p) /\ memoria_de(p)' = memoria_de(p)
      /\ estado_de(p)' = "activo"
  BY <1>1, <1>2, <1>3, GuardarVisto DEF fuera
<1>6. Iguales(p)
  BY <1>1, <1>4, <1>5, PedidoIgual DEF Iguales
<1> QED BY <1>5, <1>6, SoloUnoQuieto

(* The answer to a WAIT or a SIGNAL is an Atender or a Terminar.           *)
LEMMA ManejarRecursoImplementa ==
  ASSUME Inv, ManejarRecurso
  PROVE  Maq!Next
<1> DEFINE b == buffer_actualizar(resto, 1)
<1>1. /\ espera /\ alKernel # <<>> /\ guardar(b) /\ solicitudes' = solicitudes
      /\ Head(alKernel).codigo_operacion \in {"COP_WAIT", "COP_SIGNAL"}
  BY DEF ManejarRecurso, recibe
<1> HIDE DEF b
<1>2. PICK p \in Procesos : p = ejecutando
  BY <1>1, RecibidoDe
<1>3. Inv'
  BY ManejarRecursoInv
<1>4. estado_de(p) = Head(alKernel).codigo_operacion /\ contexto_de(p) = contexto(recibido)
  BY <1>1, <1>2, RecibidoVisto DEF llamada
<1>5. pedido_de(p)' = pedido_de(p)
  BY <1>1, PedidoIgual
<1>6. CASE pasar_a("BLOCKED") /\ Head(alKernel).codigo_operacion = "COP_WAIT"
  <2>1. /\ Otros(p) /\ contexto_de(p)' = contexto_de(p) /\ memoria_de(p)' = memoria_de(p)
        /\ estado_de(p)' = "bloqueado"
    BY <1>1, <1>2, <1>3, <1>6, GuardarVisto DEF fuera
  <2>2. Maq!Atender(p)
    BY <1>4, <1>5, <1>6, <2>1, EsAtender
  <2> QED BY <2>2, EsPaso
<1>7. CASE pasar_a("READY")
  <2>1. /\ Otros(p) /\ contexto_de(p)' = contexto_de(p) /\ memoria_de(p)' = memoria_de(p)
        /\ estado_de(p)' = "activo"
    BY <1>1, <1>2, <1>3, <1>7, GuardarVisto DEF fuera
  <2>2. Maq!Atender(p)
    BY <1>1, <1>4, <1>5, <2>1, EsAtender
  <2> QED BY <2>2, EsPaso
<1>8. CASE /\ alCpu' = Append(alCpu, paquete_contexto(ejecutando, contexto(recibido)))
           /\ UNCHANGED <<estado, espera>>
  <2>1. /\ programa' = programa /\ espacio' = espacio /\ ejecutando' = ejecutando
        /\ contextos'[p] = contexto(recibido)
        /\ \A q \in Procesos : q # p => contextos'[q] = contextos[q]
    BY <1>1, <1>2, GuardarDe
  <2>2. estado' = estado /\ espera' = TRUE /\ alCpu = <<>>
    BY <1>1, <1>8, RecibidoDe
  <2>3. alCpu' # <<>>
    BY <1>8, <2>2
  <2>4. Otros(p)
    BY <1>1, <1>2, <1>3, <2>1, <2>2, OtrosIguales
  <2>5. Ida'
    BY <1>3, <2>2, <2>3 DEF Inv, Turno, EnCpu, Vuelta
  <2>6. contexto_de(p)' = contextos'[p] /\ estado_de(p)' = "activo"
    <3>1. Vistos'
      BY <1>3, VistoDe, PTL
    <3>2. Visto(p)'
      BY <3>1 DEF Vistos
    <3> QED BY <1>2, <2>1, <2>2, <2>5, <3>2 DEF Visto
  <2>7. memoria_de(p)' = memoria_de(p)
    BY <2>1, MemoriaIgual
  <2>8. Maq!Atender(p)
    BY <1>1, <1>4, <1>5, <2>1, <2>4, <2>6, <2>7, EsAtender
  <2> QED BY <2>8, EsPaso
<1> QED BY <1>6, <1>7, <1>8 DEF ManejarRecurso

(* The answer to an I/O call is an Atender.                                *)
LEMMA ManejarIOImplementa ==
  ASSUME Inv, ManejarIO
  PROVE  Maq!Next
<1> DEFINE op == buffer_desempaquetar(resto, 2)[2]
           o == desempaquetar_operacion(op, buffer_actualizar(resto, 2))
           s == paquete_solicitud_io(ejecutando, op, o)
           b == o.buffer
<1>1. /\ espera /\ alKernel # <<>> /\ guardar(b) /\ pasar_a("BLOCKED")
      /\ solicitudes' = [solicitudes EXCEPT ![ejecutando] = s]
      /\ Head(alKernel).codigo_operacion = "IO"
  BY DEF ManejarIO, recibe
<1>2. PICK p \in Procesos : p = ejecutando
  BY <1>1, RecibidoDe
<1>3. Inv'
  BY ManejarIOInv
<1>4. estado_de(p) = "IO"
  BY <1>1, <1>2, RecibidoVisto DEF llamada
<1>5. \A q \in Procesos : q # p => solicitudes'[q] = solicitudes[q]
  BY <1>1, <1>2 DEF Inv, Tipos
<1>6. solicitudes'[p] = s
  BY <1>1, <1>2 DEF Inv, Tipos
<1>7. estado'[p] = "BLOCKED"
  BY <1>1, <1>2 DEF pasar_a, Inv, Tipos
<1> HIDE DEF s, b, o, op
<1>8. /\ Otros(p) /\ contexto_de(p)' = contexto_de(p) /\ memoria_de(p)' = memoria_de(p)
      /\ contextos'[p] = contexto_de(p) /\ programa' = programa
      /\ estado_de(p)' = "bloqueado"
  BY <1>1, <1>2, <1>3, <1>5, GuardarVisto DEF fuera
<1>9. s # Nadie
  <2>1. PICK m, u : op = codigo_de(programa, ejecutando, m) /\ Completa(op, u)
                    /\ s = Solicitud(ejecutando, op, u)
    <3>1. recibe({"IO"})
      BY <1>1 DEF recibe
    <3> QED BY <1>2, <3>1, IoRecibida DEF s, o, op
  <2>2. Cuerpo(op, u) \in Seq(Campo) /\ op \in DeEntradaSalida /\ <<p>> \in Seq(Campo)
    <3>1. p \in Campo
      BY DEF Campo
    <3>2. <<p>> \in Seq(Campo)
      BY <3>1
    <3> QED BY <2>1, <3>2, OperacionDesempaquetada DEF Completa
  <2>3. <<p>> \o Cuerpo(op, u) \in Seq(Campo)
    BY <2>2, ConcatProperties
  <2>4. s \in [codigo_operacion : DeEntradaSalida, buffer : Seq(Campo)]
    BY <1>2, <2>1, <2>2, <2>3 DEF Solicitud
  <2> QED BY <2>4, CicloCPUAssumption
<1>10. pedido_de(p)' = t_pedido(contexto_de(p), programa[p][contexto_de(p).pc])
  <2>1. PedidosVistos'
    BY <1>3, PedidoVisto, PTL
  <2>2. pedido_de(p)' = t_pedido(contextos'[p], ultima(p)')
    BY <1>6, <1>9, <2>1 DEF PedidosVistos
  <2>3. ultima(p)' = programa[p][contexto_de(p).pc]
    BY <1>8 DEF ultima
  <2> QED BY <1>8, <2>2, <2>3
<1>11. Maq!Atender(p)
  BY <1>4, <1>8, <1>10, EsAtender
<1> QED BY <1>11, EsPaso

(* The interfaces work while another process is in the turn.               *)
LEMMA FueraDelTurno ==
  ASSUME NEW p \in Procesos,
         UNCHANGED <<programa, ejecutando, espera, alKernel, pcb, linea, salir_ciclo_instruccion>>,
         espacio' = espacio \/ SoloDe(p, espacio'),
         \A q \in Procesos : q # p =>
           /\ contextos'[q] = contextos[q] /\ estado'[q] = estado[q]
           /\ solicitudes'[q] = solicitudes[q]
  PROVE  Otros(p)
<1>1. ASSUME NEW q \in Procesos, q # p PROVE Iguales(q)
  <2>1. contextos'[q] = contextos[q] /\ estado'[q] = estado[q] /\ solicitudes'[q] = solicitudes[q]
    BY <1>1
  <2>2. contexto_de(q)' = contexto_de(q) /\ estado_de(q)' = estado_de(q)
    BY <2>1 DEF contexto_de, estado_de, contexto, recibido
  <2>3. espacio' = espacio \/ \E r \in Procesos : r # q /\ SoloDe(r, espacio')
    BY <1>1
  <2>4. pedido_de(q)' = pedido_de(q) /\ memoria_de(q)' = memoria_de(q)
    BY <2>1, <2>3, PedidoIgual, MemoriaIgual
  <2> QED BY <2>2, <2>4 DEF Iguales
<1> QED BY <1>1 DEF Otros

(* A blocked process goes back or ends, with nothing left of what it asked *)
(* for.                                                                    *)
LEMMA SinPedidoVisto ==
  ASSUME Inv, Inv', NEW p \in Procesos, estado[p] = "BLOCKED",
         NEW e \in {"READY", "EXIT"}, estado' = [estado EXCEPT ![p] = e],
         UNCHANGED <<programa, espacio, contextos, ejecutando, espera, alKernel, pcb, linea,
                     salir_ciclo_instruccion>>,
         solicitudes'[p] = Nadie,
         \A q \in Procesos : q # p => solicitudes'[q] = solicitudes[q]
  PROVE  Maq!Next
<1>1. estado'[p] = e /\ \A q \in Procesos : q # p => estado'[q] = estado[q]
  BY DEF Inv, Tipos
<1>2. p # ejecutando \/ espera = FALSE
  BY DEF Inv, Turno
<1>3. Vistos /\ Vistos'
  BY VistoDe, PTL
<1>4. contexto_de(p) = contextos[p] /\ estado_de(p) = "bloqueado"
  <2>1. Visto(p)
    BY <1>3 DEF Vistos
  <2> QED BY <1>2, <2>1 DEF Visto, fuera
<1>5. contexto_de(p)' = contextos'[p] /\ estado_de(p)' = fuera(e)
  <2>1. Visto(p)'
    BY <1>3 DEF Vistos
  <2> QED BY <1>1, <1>2, <2>1 DEF Visto
<1>6. Otros(p)
  BY <1>1, FueraDelTurno
<1>7. memoria_de(p)' = memoria_de(p) /\ pedido_de(p)' = <<>>
  BY MemoriaIgual DEF pedido_de
<1>8. Maq!Volver(p) \/ Maq!Terminar(p)
  BY <1>4, <1>5, <1>6, <1>7, EsVolver, EsTerminar DEF fuera
<1> QED BY <1>8, EsPaso

(* A process that gets its resource does Volver.                           *)
LEMMA DesbloquearImplementa ==
  ASSUME Inv, NEW p \in Procesos, Desbloquear(p)
  PROVE  Maq!Next
<1>1. Inv'
  BY DesbloquearInv
<1> QED BY <1>1, SinPedidoVisto DEF Desbloquear, cpu

(* A process whose request ends does Volver.                               *)
LEMMA TerminarIoImplementa ==
  ASSUME Inv, Inv', NEW p \in Procesos, solicitudes[p] # Nadie, terminar_io(p)
  PROVE  Maq!Next
<1>1. estado[p] = "BLOCKED"
  BY PedidoDe
<1>2. solicitudes'[p] = Nadie /\ \A q \in Procesos : q # p => solicitudes'[q] = solicitudes[q]
  BY DEF terminar_io, Inv, Tipos
<1> QED BY <1>1, <1>2, SinPedidoVisto DEF terminar_io, cpu

(* The same, when the interface wrote in memory.                           *)
LEMMA FinEntradaImplementa ==
  ASSUME Inv, FinEntrada
  PROVE  Maq!Next
<1>1. PICK p : p = entrada.pid
  OBVIOUS
<1>2. entrada # Nadie /\ terminar_io(p)
  BY <1>1 DEF FinEntrada, terminar_io
<1>3. p \in Procesos /\ solicitudes[p] # Nadie
  BY <1>1, <1>2, EntradaDe
<1> QED BY <1>2, <1>3, FinEntradaInv, TerminarIoImplementa

(* The same, for the other interfaces.                                     *)
LEMMA FinIOImplementa ==
  ASSUME Inv, NEW p \in Procesos, FinIO(p)
  PROVE  Maq!Next
<1>1. Inv'
  BY FinIOInv
<1> QED BY <1>1, TerminarIoImplementa DEF FinIO

(* A process that loses its interface does Terminar.                       *)
LEMMA InterfazCaidaImplementa ==
  ASSUME Inv, NEW p \in Procesos, InterfazCaida(p)
  PROVE  Maq!Next
<1>1. Inv' /\ solicitudes[p] # Nadie
  BY InterfazCaidaInv DEF InterfazCaida
<1>2. estado[p] = "BLOCKED"
  BY <1>1, PedidoDe
<1>3. solicitudes'[p] = Nadie /\ \A q \in Procesos : q # p => solicitudes'[q] = solicitudes[q]
  BY DEF InterfazCaida, Inv, Tipos
<1> QED BY <1>1, <1>2, <1>3, SinPedidoVisto DEF InterfazCaida, cpu

(* What an interface writes is in what its process asked for.              *)
LEMMA EscrituraImplementa ==
  ASSUME Inv, SinCruces, interfaz_stdin \/ interfaz_fs_read
  PROVE  Maq!Next
<1>1. PICK n : /\ entrada # Nadie /\ enviar_escritura(n)
               /\ Pieza(n)
  BY DEF interfaz_stdin, interfaz_fs_read, Pieza
<1>2. PICK p : p = entrada.pid
  OBVIOUS
<1> DEFINE c == base_de(p)
           a == c + entrada.leidos
           b == bytes_pedidos
           df == direccion_fisica
           t == tamanio_de(p)
<1>3. /\ n \in Nat /\ n <= b /\ b \in Nat /\ df \in Nat /\ c \in Nat /\ entrada.leidos \in Nat
      /\ a + b <= c + t
      /\ \A j \in 0 .. b - 1 : a + j \in 0 .. TamProceso - 1 /\ obtener_df(p, a + j) = df + j
  BY <1>1, <1>2, PiezaEscrita
<1>4. /\ p \in Procesos /\ solicitudes[p] # Nadie /\ entrada \in DeEntrada
      /\ solicitudes[p].codigo_operacion = entrada.op
      /\ entrada.op = codigo_de(programa, p, contextos[p])
  BY <1>1, <1>2, EntradaDe
<1>5. ultima(p).code \in {"IO_STDIN_READ", "IO_FS_READ"}
  BY <1>4 DEF DeEntrada, codigo_de, ultima
<1>6. Acceso(p)
  BY <1>1, <1>2, LugarDeEntrada
<1>7. t \in Nat
  BY <1>6 DEF Acceso
<1>8. /\ pedido_de(p) = t_pedido(contextos[p], ultima(p))
  BY <1>4, PedidoVisto DEF PedidosVistos
<1>9. /\ pedido_de(p).code = ultima(p).code /\ pedido_de(p).tamanio = t
      /\ t > 0 => pedido_de(p).base = c
  BY <1>5, <1>8 DEF t_pedido, ConDirecciones, base_de, tamanio_de
<1>10. pedido_de(p) # <<>>
  <2>1. "code" \in DOMAIN pedido_de(p)
    BY <1>8 DEF t_pedido
  <2>2. DOMAIN <<>> = {}
    OBVIOUS
  <2> QED BY <2>1, <2>2
<1>11. /\ UNCHANGED <<programa, contextos, estado, solicitudes, ejecutando, espera, alKernel,
                      pcb, linea, salir_ciclo_instruccion>>
  BY <1>1 DEF enviar_escritura, delKernel, cpu
<1>12. /\ espacio' \in Espacio
       /\ \A x \in 0 .. TAM_MEMORIA - 1 : x \notin df .. df + b - 1 => espacio'[x] = espacio[x]
  <2>1. espacio \in Espacio
    BY DEF Inv, Tipos
  <2> QED BY <1>1, <1>3, <2>1, EscrituraDe
<1> DEFINE e == espacio'
<1> HIDE DEF c, t, b, df, e
<1>13. ASSUME NEW q \in Procesos, NEW x \in 0 .. TamProceso - 1,
              q # p \/ x \notin c .. c + t - 1
       PROVE  e[obtener_df(q, x)] = espacio[obtener_df(q, x)]
  <2>1. obtener_df(q, x) \in 0 .. TAM_MEMORIA - 1
    BY DireccionDe
  <2>2. obtener_df(q, x) \notin df .. df + b - 1
    <3> SUFFICES ASSUME obtener_df(q, x) \in df .. df + b - 1 PROVE FALSE
      OBVIOUS
    <3> DEFINE j == obtener_df(q, x) - df
    <3>1. j \in 0 .. b - 1 /\ obtener_df(q, x) = df + j
      BY <1>3, <2>1
    <3> HIDE DEF j
    <3>2. a + j \in 0 .. TamProceso - 1 /\ obtener_df(p, a + j) = df + j
      BY <1>3, <3>1
    <3>3. q = p /\ x = a + j
      BY <1>4, <3>1, <3>2, DireccionUnica
    <3>4. a + j \in c .. c + t - 1
      BY <1>3, <1>7, <3>1
    <3> QED BY <1>13, <3>3, <3>4
  <2> QED BY <1>12, <2>1, <2>2 DEF e
<1>14. SoloDe(p, e)
  BY <1>12, <1>13 DEF SoloDe, e
<1>15. Otros(p)
  BY <1>4, <1>11, <1>14, FueraDelTurno DEF e
<1>16. /\ contexto_de(p)' = contexto_de(p) /\ estado_de(p)' = estado_de(p)
       /\ pedido_de(p)' = pedido_de(p)
  <2>1. contexto_de(p)' = contexto_de(p) /\ estado_de(p)' = estado_de(p)
    BY <1>11 DEF contexto_de, estado_de, contexto, recibido
  <2> QED BY <1>4, <1>11, <2>1, PedidoIgual
<1>17. ASSUME NEW x \in 0 .. TamProceso - 1,
              x \notin pedido_de(p).base .. pedido_de(p).base + pedido_de(p).tamanio - 1
       PROVE  espacio'[Fisica[p][x]] = espacio[Fisica[p][x]]
  <2>1. x \notin c .. c + t - 1
    <3>1. CASE t > 0
      BY <1>9, <1>17, <3>1
    <3>2. CASE t = 0
      BY <1>3, <3>2
    <3> QED BY <1>7, <3>1, <3>2
  <2>2. Fisica[p][x] = obtener_df(p, x)
    BY <1>4 DEF Fisica
  <2> QED BY <1>4, <1>13, <2>1, <2>2 DEF e
<1>18. Maq!Entrada(p)
  BY <1>4, <1>5, <1>9, <1>10, <1>15, <1>16, <1>17, EsEntrada
<1> QED BY <1>4, <1>18, EsPaso

(* The machines start with empty registers and some memory.                *)
LEMMA InitImplementa ==
  ASSUME Init
  PROVE  Maq!Init
<1> USE DEF Init
<1>1. Inv
  BY InitInv
<1>2. ASSUME NEW p \in Procesos
      PROVE  /\ contexto_de(p) = inicializarPCB /\ estado_de(p) = "activo"
             /\ pedido_de(p) = <<>>
             /\ memoria_de(p) \in [0 .. TamProceso - 1 -> 0 .. CHICO - 1]
  <2>1. contexto_de(p) = inicializarPCB
    BY DEF contexto_de
  <2>2. estado_de(p) = "activo"
    BY DEF estado_de
  <2>3. pedido_de(p) = <<>>
    BY DEF pedido_de
  <2>4. ASSUME NEW x \in 0 .. TamProceso - 1
        PROVE  espacio[Fisica[p][x]] \in 0 .. CHICO - 1
    <3>1. Fisica[p][x] = obtener_df(p, x) /\ obtener_df(p, x) \in 0 .. TAM_MEMORIA - 1
      BY DireccionDe DEF Fisica
    <3>2. espacio \in Espacio
      BY <1>1 DEF Inv, Tipos
    <3> QED BY <3>1, <3>2 DEF Espacio, Bytes
  <2> QED BY <2>1, <2>2, <2>3, <2>4 DEF memoria_de
<1>3. Maq!inicializarPCB = inicializarPCB
  BY MismasInstrucciones
<1>4. /\ maquinas = [p \in Procesos |-> inicializarPCB]
      /\ situaciones = [p \in Procesos |-> "activo"]
      /\ pedidos = [p \in Procesos |-> <<>>]
      /\ memorias \in [Procesos -> [0 .. TamProceso - 1 -> 0 .. CHICO - 1]]
  BY <1>2 DEF maquinas, situaciones, pedidos, memorias
<1> QED BY <1>3, <1>4 DEF Maq!Init, maquinas, situaciones, pedidos, memorias, memoria_de

(* Every step is a step of one machine, or none.                           *)
LEMMA NextImplementa ==
  ASSUME Inv, SinCruces, [Next]_vars
  PROVE  Maq!Next \/ UNCHANGED Maq!vars
<1>1. CASE RecibirContexto
  BY <1>1, RecibirContextoQuieto
<1>2. CASE execute
  BY <1>2, EjecutarImplementa
<1>3. CASE check_interrupt
  BY <1>3, CheckInterruptQuieto
<1>4. CASE \E tipo \in Interrupciones : atender_cpu_kernel_interrupt(tipo)
  BY <1>4, InterrumpirQuieto
<1>5. CASE ManejarFin
  BY <1>5, ManejarFinImplementa
<1>6. CASE ManejarQuantum
  BY <1>6, ManejarQuantumQuieto
<1>7. CASE ManejarRecurso
  BY <1>7, ManejarRecursoImplementa
<1>8. CASE ManejarIO
  BY <1>8, ManejarIOImplementa
<1>9. CASE interfaz_stdin \/ interfaz_fs_read
  BY <1>9, EscrituraImplementa
<1>10. CASE FinEntrada
  BY <1>10, FinEntradaImplementa
<1>11. ASSUME NEW p \in Procesos, Despachar(p) \/ Desbloquear(p) \/ AtenderEntrada(p)
                                   \/ FinIO(p) \/ InterfazCaida(p)
       PROVE  Maq!Next \/ UNCHANGED Maq!vars
  BY <1>11, DespacharQuieto, DesbloquearImplementa, AtenderEntradaQuieto, FinIOImplementa,
     InterfazCaidaImplementa
<1>12. CASE UNCHANGED vars
  <2>1. UNCHANGED <<programa, espacio, contextos, estado, solicitudes, ejecutando, espera,
                    alKernel, pcb, linea, salir_ciclo_instruccion>>
    BY <1>12 DEF vars, delKernel, cpu
  <2>2. ASSUME NEW q \in Procesos PROVE Iguales(q)
    BY <2>1, PedidoIgual, MemoriaIgual
       DEF Iguales, contexto_de, estado_de, contexto, recibido
  <2> QED BY <2>1, <2>2, NadaCambia
<1> QED BY <1>1, <1>2, <1>3, <1>4, <1>5, <1>6, <1>7, <1>8, <1>9, <1>10, <1>11, <1>12 DEF Next

(* The CPU, the kernel and the interfaces give each process a machine of   *)
(* its own, while no piece crosses a page.                                 *)
THEOREM SiempreImplementaMaquina == Spec /\ []SinCruces => ImplementaMaquina
<1>1. Init => Maq!Init
  BY InitImplementa
<1>2. Inv /\ SinCruces /\ [Next]_vars => [Maq!Next]_(Maq!vars)
  BY NextImplementa
<1> QED BY <1>1, <1>2, SiempreInv, PTL DEF Spec, ImplementaMaquina, Maq!Spec

=============================================================================
