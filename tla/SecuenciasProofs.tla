--------------------------- MODULE SecuenciasProofs ---------------------------
(***************************************************************************)
(* Lemmas about the lists of the system, which the proofs of the modules   *)
(* that keep lists rest on.                                                *)
(***************************************************************************)
EXTENDS Integers, Sequences, SequencesExt, SequenceTheorems, WellFoundedInduction, TLAPS

(* A set of naturals that is not empty has a first one. *)
LEMMA HayPrimero ==
  ASSUME NEW S \in SUBSET Nat, S # {}
  PROVE  \E m \in S : \A k \in S : m <= k
<1>1. PICK m \in S : \A k \in S : ~(<<k, m>> \in OpToRel(<, Nat))
  BY NatLessThanWellFounded, WFMin, Zenon
<1>2. \A k \in S : ~(k < m)
  BY <1>1 DEF OpToRel
<1>3. QED
  BY <1>2

(* A sequence without its i-th element. *)
LEMMA SinElemento ==
  ASSUME NEW S, NEW s \in Seq(S), NEW i \in 1..Len(s)
  PROVE  /\ RemoveAt(s, i) \in Seq(S)
         /\ Len(RemoveAt(s, i)) = Len(s) - 1
         /\ \A j \in 1..Len(s) - 1 : RemoveAt(s, i)[j] = s[IF j < i THEN j ELSE j + 1]
<1> DEFINE a == SubSeq(s, 1, i - 1)
           b == SubSeq(s, i + 1, Len(s))
<1>1. Len(s) \in Nat /\ \A k \in 1..Len(s) : s[k] \in S
  BY LenProperties, ElementOfSeq
<1>2. a \in Seq(S) /\ Len(a) = i - 1 /\ \A j \in 1..i - 1 : a[j] = s[j]
  <2>1. \A k \in 1..i - 1 : s[k] \in S
    BY <1>1
  <2>2. QED
    BY <1>1, <2>1, SubSeqProperties
<1>3. b \in Seq(S) /\ Len(b) = Len(s) - i /\ \A j \in 1..Len(s) - i : b[j] = s[i + j]
  <2>1. \A k \in i + 1..Len(s) : s[k] \in S
    BY <1>1
  <2>2. /\ b \in Seq(S)
        /\ Len(b) = IF i + 1 <= Len(s) THEN Len(s) - (i + 1) + 1 ELSE 0
        /\ \A j \in 1..Len(s) - (i + 1) + 1 : b[j] = s[i + 1 + j - 1]
    BY <1>1, <2>1, SubSeqProperties
  <2>3. QED
    BY <1>1, <2>2
<1> HIDE DEF a, b
<1>4. /\ a \o b \in Seq(S)
      /\ Len(a \o b) = Len(a) + Len(b)
      /\ \A j \in 1..Len(a) + Len(b) :
           (a \o b)[j] = IF j <= Len(a) THEN a[j] ELSE b[j - Len(a)]
  BY <1>2, <1>3, ConcatProperties
<1>5. ASSUME NEW j \in 1..Len(s) - 1
      PROVE  (a \o b)[j] = s[IF j < i THEN j ELSE j + 1]
  <2>1. j \in 1..Len(a) + Len(b)
    BY <1>1, <1>2, <1>3
  <2>2. CASE j < i
    BY <1>1, <1>2, <1>4, <2>1, <2>2
  <2>3. CASE ~(j < i)
    <3>1. (a \o b)[j] = b[j - (i - 1)] /\ j - (i - 1) \in 1..Len(s) - i
      BY <1>1, <1>2, <1>4, <2>1, <2>3
    <3>2. b[j - (i - 1)] = s[i + (j - (i - 1))] /\ i + (j - (i - 1)) = j + 1
      BY <1>1, <1>3, <3>1
    <3>3. QED
      BY <2>3, <3>1, <3>2
  <2>4. QED
    BY <2>2, <2>3
<1>6. RemoveAt(s, i) = a \o b
  BY DEF RemoveAt, a, b
<1>7. Len(a \o b) = Len(s) - 1
  BY <1>1, <1>2, <1>3, <1>4
<1>8. QED
  BY <1>4, <1>5, <1>6, <1>7

(* No element is there twice. *)
Distintos(s) == \A i, j \in 1..Len(s) : s[i] = s[j] => i = j

(* The elements of a sequence, by their places. *)
LEMMA ElementosDe ==
  ASSUME NEW S, NEW s \in Seq(S)
  PROVE  /\ Len(s) \in Nat /\ DOMAIN s = 1..Len(s)
         /\ ToSet(s) = {s[i] : i \in 1..Len(s)}
         /\ ToSet(s) \subseteq S
         /\ s = <<>> <=> Len(s) = 0
         /\ s # <<>> => Head(s) \in ToSet(s)
<1>1. Len(s) \in Nat /\ DOMAIN s = 1..Len(s) /\ \A i \in 1..Len(s) : s[i] \in S
  BY LenProperties, ElementOfSeq
<1>2. ToSet(s) = {s[i] : i \in 1..Len(s)}
  BY <1>1 DEF ToSet
<1>3. s = <<>> <=> Len(s) = 0
  BY EmptySeq
<1>4. s # <<>> => Head(s) = s[1] /\ 1 \in 1..Len(s)
  BY <1>1, <1>3
<1>5. QED
  BY <1>1, <1>2, <1>3, <1>4

(* One more element at the end. *)
LEMMA ElementosConUnoMas ==
  ASSUME NEW S, NEW s \in Seq(S), NEW p \in S
  PROVE  /\ Append(s, p) \in Seq(S)
         /\ Len(Append(s, p)) = Len(s) + 1
         /\ ToSet(Append(s, p)) = ToSet(s) \cup {p}
         /\ Distintos(s) /\ p \notin ToSet(s) => Distintos(Append(s, p))
<1> DEFINE t == Append(s, p)
<1>1. /\ t \in Seq(S)
      /\ Len(t) = Len(s) + 1
      /\ \A i \in 1..Len(s) : t[i] = s[i]
      /\ t[Len(s) + 1] = p
  BY AppendProperties
<1> HIDE DEF t
<1>2. Len(s) \in Nat /\ ToSet(s) = {s[i] : i \in 1..Len(s)}
  BY ElementosDe
<1>3. ToSet(t) = {t[i] : i \in 1..Len(s) + 1}
  BY <1>1, ElementosDe
<1>4. 1..Len(s) + 1 = 1..Len(s) \cup {Len(s) + 1}
  BY <1>2
<1>5. ToSet(t) = ToSet(s) \cup {p}
  BY <1>1, <1>2, <1>3, <1>4
<1>6. ASSUME Distintos(s), p \notin ToSet(s), NEW i \in 1..Len(t), NEW j \in 1..Len(t), t[i] = t[j]
      PROVE  i = j
  <2>1. \A k \in 1..Len(s) : s[k] # p
    BY <1>2, <1>6
  <2>2. QED
    BY <1>1, <1>2, <1>6, <2>1 DEF Distintos
<1>7. QED
  BY <1>1, <1>5, <1>6 DEF Distintos, t

(* The first element leaves. *)
LEMMA ElementosSinElPrimero ==
  ASSUME NEW S, NEW s \in Seq(S), s # <<>>
  PROVE  /\ Head(s) \in S /\ Head(s) \in ToSet(s)
         /\ Tail(s) \in Seq(S)
         /\ Len(s) > 0 /\ Len(Tail(s)) = Len(s) - 1
         /\ ToSet(s) = ToSet(Tail(s)) \cup {Head(s)}
         /\ Distintos(s) => Distintos(Tail(s)) /\ Head(s) \notin ToSet(Tail(s))
<1> DEFINE t == Tail(s)
           h == Head(s)
<1>1. Len(s) \in Nat /\ Len(s) # 0 /\ ToSet(s) = {s[i] : i \in 1..Len(s)}
  BY ElementosDe
<1>2. /\ h = s[1] /\ h \in S
      /\ t \in Seq(S) /\ Len(t) = Len(s) - 1
      /\ \A i \in 1..Len(t) : t[i] = s[i + 1]
  BY HeadTailProperties
<1> HIDE DEF t, h
<1>3. ToSet(t) = {t[i] : i \in 1..Len(t)}
  BY <1>2, ElementosDe
<1>4. \A i \in 1..Len(t) : i + 1 \in 1..Len(s) /\ i + 1 # 1
  BY <1>1, <1>2
<1>5. \A i \in 1..Len(s) : i = 1 \/ (i - 1 \in 1..Len(t) /\ s[i] = t[i - 1])
  BY <1>1, <1>2
<1>6. 1 \in 1..Len(s)
  BY <1>1
<1>7. ToSet(s) = ToSet(t) \cup {h}
  <2>1. \A i \in 1..Len(s) : s[i] \in ToSet(t) \cup {h}
    BY <1>2, <1>3, <1>5
  <2>2. \A i \in 1..Len(t) : t[i] \in ToSet(s)
    BY <1>1, <1>2, <1>4
  <2>3. ToSet(t) \cup {h} \subseteq ToSet(s)
    BY <1>1, <1>2, <1>3, <1>6, <2>2
  <2>4. QED
    BY <1>1, <2>1, <2>3
<1>8. ASSUME Distintos(s) PROVE Distintos(t) /\ h \notin ToSet(t)
  BY <1>1, <1>2, <1>3, <1>4, <1>6, <1>8 DEF Distintos
<1>9. QED
  BY <1>1, <1>2, <1>6, <1>7, <1>8 DEF t, h

(* The i-th element leaves. *)
LEMMA ElementosSinUno ==
  ASSUME NEW S, NEW s \in Seq(S), NEW i \in 1..Len(s)
  PROVE  /\ RemoveAt(s, i) \in Seq(S)
         /\ Len(s) > 0 /\ Len(RemoveAt(s, i)) = Len(s) - 1
         /\ ToSet(s) = ToSet(RemoveAt(s, i)) \cup {s[i]}
         /\ Distintos(s) => /\ Distintos(RemoveAt(s, i))
                            /\ s[i] \notin ToSet(RemoveAt(s, i))
<1> DEFINE t == RemoveAt(s, i)
           viejo(j) == IF j < i THEN j ELSE j + 1
<1>1. Len(s) \in Nat /\ ToSet(s) = {s[k] : k \in 1..Len(s)} /\ Len(s) > 0
  BY ElementosDe
<1>2. t \in Seq(S) /\ Len(t) = Len(s) - 1 /\ \A j \in 1..Len(s) - 1 : t[j] = s[viejo(j)]
  BY SinElemento
<1> HIDE DEF t
<1>3. ToSet(t) = {t[j] : j \in 1..Len(t)}
  BY <1>2, ElementosDe
<1>4. \A j \in 1..Len(t) : viejo(j) \in 1..Len(s) /\ viejo(j) # i /\ t[j] = s[viejo(j)]
  BY <1>1, <1>2
<1>5. \A j, k \in 1..Len(t) : viejo(j) = viejo(k) => j = k
  BY <1>1, <1>2
<1>6. \A k \in 1..Len(s) : k = i \/ \E j \in 1..Len(t) : viejo(j) = k
  <2> TAKE k \in 1..Len(s)
  <2>1. CASE k < i
    BY <1>1, <1>2, <2>1
  <2>2. CASE k > i
    <3>1. k - 1 \in 1..Len(t) /\ viejo(k - 1) = k
      BY <1>1, <1>2, <2>2
    <3>2. QED
      BY <3>1
  <2>3. QED
    BY <2>1, <2>2
<1> HIDE DEF viejo
<1>7. ToSet(s) = ToSet(t) \cup {s[i]}
  <2>1. ToSet(s) \subseteq ToSet(t) \cup {s[i]}
    BY <1>1, <1>3, <1>4, <1>6
  <2>2. ToSet(t) \cup {s[i]} \subseteq ToSet(s)
    BY <1>1, <1>3, <1>4
  <2>3. QED
    BY <2>1, <2>2
<1>8. ASSUME Distintos(s) PROVE Distintos(t) /\ s[i] \notin ToSet(t)
  <2>1. Distintos(t)
    BY <1>4, <1>5, <1>8 DEF Distintos
  <2>2. \A j \in 1..Len(t) : t[j] # s[i]
    BY <1>4, <1>8 DEF Distintos
  <2>3. QED
    BY <1>3, <2>1, <2>2
<1>9. QED
  BY <1>1, <1>2, <1>7, <1>8 DEF t

(* An element that is there no more than once. *)
UnaVez(s, p) == \A i, j \in 1..Len(s) : s[i] = p /\ s[j] = p => i = j

(* One sequence after another. *)
LEMMA ElementosDeDos ==
  ASSUME NEW S, NEW s \in Seq(S), NEW t \in Seq(S)
  PROVE  /\ s \o t \in Seq(S)
         /\ ToSet(s \o t) = ToSet(s) \cup ToSet(t)
         /\ \A p : UnaVez(s, p) /\ p \notin ToSet(t) => UnaVez(s \o t, p)
         /\ \A p : p \notin ToSet(s) /\ UnaVez(t, p) => UnaVez(s \o t, p)
<1> DEFINE u == s \o t
<1>1. /\ Len(s) \in Nat /\ ToSet(s) = {s[i] : i \in 1..Len(s)}
      /\ Len(t) \in Nat /\ ToSet(t) = {t[i] : i \in 1..Len(t)}
  BY ElementosDe
<1>2. /\ u \in Seq(S) /\ Len(u) = Len(s) + Len(t)
      /\ \A i \in 1..Len(s) + Len(t) : u[i] = IF i <= Len(s) THEN s[i] ELSE t[i - Len(s)]
  BY ConcatProperties
<1>3. ToSet(u) = {u[i] : i \in 1..Len(u)}
  BY <1>2, ElementosDe
<1> HIDE DEF u
<1>4. ASSUME NEW i \in 1..Len(u)
      PROVE  \/ i \in 1..Len(s) /\ u[i] = s[i]
             \/ i - Len(s) \in 1..Len(t) /\ u[i] = t[i - Len(s)]
  BY <1>1, <1>2
<1>5. ToSet(u) \subseteq ToSet(s) \cup ToSet(t)
  BY <1>1, <1>3, <1>4
<1>6. ToSet(s) \subseteq ToSet(u)
  <2>1. \A i \in 1..Len(s) : i \in 1..Len(u) /\ u[i] = s[i]
    BY <1>1, <1>2
  <2>2. QED
    BY <1>1, <1>3, <2>1
<1>7. ToSet(t) \subseteq ToSet(u)
  <2>1. \A i \in 1..Len(t) : i + Len(s) \in 1..Len(u) /\ u[i + Len(s)] = t[i]
    BY <1>1, <1>2, SMTT(30)
  <2>2. QED
    BY <1>1, <1>3, <2>1
<1>8. ASSUME NEW p, UnaVez(s, p), p \notin ToSet(t)
      PROVE  UnaVez(u, p)
  <2>1. ASSUME NEW i \in 1..Len(u), u[i] = p
        PROVE  i \in 1..Len(s) /\ s[i] = p
    BY <1>1, <1>4, <1>8, <2>1
  <2>2. QED
    BY <1>8, <2>1 DEF UnaVez
<1>9. ASSUME NEW p, p \notin ToSet(s), UnaVez(t, p)
      PROVE  UnaVez(u, p)
  <2>1. ASSUME NEW i \in 1..Len(u), u[i] = p
        PROVE  i - Len(s) \in 1..Len(t) /\ t[i - Len(s)] = p
    BY <1>1, <1>4, <1>9, <2>1
  <2>2. ASSUME NEW i \in 1..Len(u), NEW j \in 1..Len(u), u[i] = p, u[j] = p
        PROVE  i = j
    <3>1. i - Len(s) = j - Len(s)
      BY <1>9, <2>1, <2>2 DEF UnaVez
    <3>2. QED
      BY <1>1, <3>1
  <2>3. QED
    BY <2>2 DEF UnaVez
<1>10. QED
  BY <1>2, <1>5, <1>6, <1>7, <1>8, <1>9 DEF u

(* What is left of an element that was there once. *)
LEMMA UnaVezSinElPrimero ==
  ASSUME NEW S, NEW s \in Seq(S), s # <<>>, NEW p, UnaVez(s, p)
  PROVE  UnaVez(Tail(s), p) /\ (Head(s) = p => p \notin ToSet(Tail(s)))
<1> DEFINE t == Tail(s)
<1>1. /\ Len(s) \in Nat /\ Len(s) # 0
      /\ Head(s) = s[1]
      /\ t \in Seq(S) /\ Len(t) = Len(s) - 1 /\ \A i \in 1..Len(t) : t[i] = s[i + 1]
  BY ElementosDe, HeadTailProperties
<1>2. ToSet(t) = {t[i] : i \in 1..Len(t)} /\ Len(t) \in Nat
  BY <1>1, ElementosDe
<1> HIDE DEF t
<1>3. \A i \in 1..Len(t) : i + 1 \in 1..Len(s) /\ t[i] = s[i + 1]
  BY <1>1, <1>2
<1>4. ASSUME NEW i \in 1..Len(t), NEW j \in 1..Len(t), t[i] = p, t[j] = p
      PROVE  i = j
  <2>1. i + 1 = j + 1
    BY <1>3, <1>4 DEF UnaVez
  <2>2. QED
    BY <1>2, <2>1
<1>5. UnaVez(t, p)
  BY <1>4 DEF UnaVez
<1>6. Head(s) = p => p \notin ToSet(t)
  <2>1. SUFFICES ASSUME Head(s) = p, NEW i \in 1..Len(t), t[i] = p
                 PROVE  FALSE
    BY <1>2
  <2>2. i + 1 = 1
    BY <1>1, <1>3, <2>1 DEF UnaVez
  <2>3. QED
    BY <1>2, <2>2
<1>7. QED
  BY <1>5, <1>6 DEF t

=============================================================================
