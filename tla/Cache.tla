-------------------------------- MODULE Cache --------------------------------
(***************************************************************************)
(* What a translation cache of Capacidad entries promises: after any       *)
(* sequence of accesses it holds the keys that the replacement policy      *)
(* keeps.  orden lists them, the next victim first.                        *)
(***************************************************************************)
EXTENDS Integers, Sequences, SequencesExt

CONSTANTS
  Claves,     \* what is looked up: a page of a process
  Capacidad   \* the keys it can hold

VARIABLES
  algoritmo,  \* "FIFO" or "LRU", chosen at the start
  accedida,   \* the key of the last access
  orden

Init ==
  /\ algoritmo \in {"FIFO", "LRU"}
  /\ accedida = <<>>
  /\ orden = <<>>

Presente(k) == k \in ToSet(orden)

(* A hit changes the order only when the policy looks at the use: the key *)
(* goes from its place to the last one.                                    *)
Acierto(k) ==
  \E i \in DOMAIN orden :
    /\ orden[i] = k
    /\ orden' = IF algoritmo = "LRU" THEN Append(RemoveAt(orden, i), k) ELSE orden

Fallo(k) ==
  /\ ~Presente(k)
  /\ orden' = Append(IF Len(orden) < Capacidad THEN orden ELSE Tail(orden), k)

Next ==
  \E k \in Claves :
    /\ Acierto(k) \/ Fallo(k)
    /\ accedida' = k
    /\ UNCHANGED algoritmo

Spec == Init /\ [][Next]_<<algoritmo, accedida, orden>>

=============================================================================
