------------------------------- MODULE DialFS -------------------------------
(***************************************************************************)
(* The file system of a DialFS interface (entradasalida_interfaces.c):     *)
(* contiguous allocation over a bitmap, a metadata file per file and the   *)
(* dictionary of the metadata that the interface has read.                 *)
(*                                                                         *)
(* The interface has one thread and ends an operation before it takes the  *)
(* next one, so an operation is one action.  A file is written by its      *)
(* first bytes; byte k of file f is the value <<f, k>>.  A byte that no    *)
(* program can ask for any more, of a file that is gone or was cut, is     *)
(* Nada wherever it is.                                                    *)
(*                                                                         *)
(* Between two operations the interface may end and be started again on    *)
(* the same directory: bloques.dat, bitmap.dat and the metadata files are  *)
(* what they were, and the dictionary is read again from the files.  The   *)
(* names have no ".dat" in them and do not start with ".": those are not   *)
(* read again.                                                             *)
(***************************************************************************)
EXTENDS Integers, Sequences, FiniteSets, FiniteSetsExt

CONSTANTS
  Archivos,         \* file names
  BLOCK_SIZE, BLOCK_COUNT,
  MaxTamanio,       \* bound: the bytes of a file
  LimiteEscritura   \* how far programs write: the size in the "metadata",
                    \* the "bloques" of the file or the size "pedido"

ASSUME DialFSAssumption ==
  /\ BLOCK_SIZE \in Nat \ {0} /\ BLOCK_COUNT \in Nat \ {0}
  /\ MaxTamanio \in Nat
  /\ LimiteEscritura \in {"metadata", "bloques", "pedido"}

VARIABLES
  metadata,   \* the metadata of each name that has a first block and a size
  creados,    \* the names with a metadata file in the directory
  vacios,     \* the names in the dictionary whose metadata file is empty
  bitmap,     \* the bits that are set in bitmap.dat
  bloques,    \* the bytes of bloques.dat
  viva,       \* FALSE once the interface has ended
  cortada,    \* TRUE if it died in the middle of an operation
  pedido,     \* history: the size of the last IO_FS_TRUNCATE of each file,
              \* kept when programs write as far as they asked for
  escrito     \* history: how many bytes programs have written in each file

vars == <<metadata, creados, vacios, bitmap, bloques, viva, cortada, pedido, escrito>>
proceso == <<vacios, viva, cortada>>

Bloques == 0..BLOCK_COUNT - 1
Bytes == 0..BLOCK_COUNT * BLOCK_SIZE - 1
Nada == <<>>

Init ==
  /\ metadata = [f \in {} |-> 0]
  /\ creados = {}
  /\ vacios = {}
  /\ bitmap = {}
  /\ bloques = [x \in Bytes |-> Nada]
  /\ viva = TRUE
  /\ cortada = FALSE
  /\ pedido = [f \in Archivos |-> 0]
  /\ escrito = [f \in Archivos |-> 0]

(* The bytes of f from the n-th on are of no interest any more. *)
olvidar(datos, f, n) ==
  [x \in Bytes |-> IF \E k \in n..MaxTamanio : datos[x] = <<f, k>> THEN Nada ELSE datos[x]]

menor(a, b) == IF a < b THEN a ELSE b
libres == Bloques \ bitmap

(* metadata_dictionary_files: name -> BLOQUE_INICIAL, TAMANIO_ARCHIVO. *)
existe(f) == f \in DOMAIN metadata
poner(d, f, inicial, tamanio) ==
  [g \in DOMAIN d \cup {f} |->
     IF g = f THEN [inicial |-> inicial, tamanio |-> tamanio] ELSE d[g]]

cantidadBloques(tamanio) ==
  IF tamanio = 0 THEN 1 ELSE (tamanio + BLOCK_SIZE - 1) \div BLOCK_SIZE

tramo(inicial, cantidad) == inicial..inicial + cantidad - 1
extension(f) == tramo(metadata[f].inicial, cantidadBloques(metadata[f].tamanio))

-----------------------------------------------------------------------------
(* The interface ends and leaves the disk as it is. *)
terminar ==
  /\ viva' = FALSE
  /\ UNCHANGED <<metadata, creados, vacios, bitmap, bloques, cortada, pedido, escrito>>

(* The metadata file is created before a block is looked for. *)
interfaz_fs_create(f) ==
  /\ viva
  /\ f \notin creados
  /\ creados' = creados \cup {f}
  /\ IF libres = {}
       THEN UNCHANGED <<metadata, bitmap>>
       ELSE /\ bitmap' = bitmap \cup {Min(libres)}
            /\ metadata' = poner(metadata, f, Min(libres), 0)
  /\ UNCHANGED <<bloques, proceso, pedido, escrito>>

(* Deleting a file whose metadata has no BLOQUE_INICIAL ends the interface *)
(* (atoi of NULL).                                                         *)
interfaz_fs_delete_vacio(f) == viva /\ f \in vacios /\ terminar

(* A name that is not in the dictionary is not deleted. *)
interfaz_fs_delete(f) ==
  /\ viva
  /\ existe(f)
  /\ bitmap' = bitmap \ extension(f)
  /\ metadata' = [g \in DOMAIN metadata \ {f} |-> metadata[g]]
  /\ creados' = creados \ {f}
  /\ pedido' = [pedido EXCEPT ![f] = 0]
  /\ escrito' = [escrito EXCEPT ![f] = 0]
  /\ bloques' = olvidar(bloques, f, 0)
  /\ UNCHANGED proceso

(* Wrong variants (mut_...) of the definitions they precede: none of them  *)
(* is used by the specification; the runs are expected to refute each one. *)

(* A run may go on past the last block. *)
mut_comienzos_de_mas(lugares, n) == {b \in Bloques : tramo(b, n) \cap Bloques \subseteq lugares}

(* hayEspacioContiguo: the first run of n free blocks of `lugares`. *)
comienzos(lugares, n) == {b \in Bloques : tramo(b, n) \subseteq lugares}

(* Only the first block is moved. *)
mut_copia_un_bloque(datos, de, a, n) ==
  [x \in Bytes |-> IF a * BLOCK_SIZE <= x /\ x < a * BLOCK_SIZE + menor(n, BLOCK_SIZE)
                     THEN bloques[x - (a - de) * BLOCK_SIZE] ELSE datos[x]]

(* bloques.dat once the first n bytes of the blocks from `de` are at `a`. *)
copia(datos, de, a, n) ==
  [x \in Bytes |-> IF a * BLOCK_SIZE <= x /\ x < a * BLOCK_SIZE + n
                     THEN bloques[x - (a - de) * BLOCK_SIZE] ELSE datos[x]]

(* compactar, with the blocks of f already free: the other files go to the *)
(* first blocks in the order they are in, each with all its blocks.        *)
otros(f) == DOMAIN metadata \ {f}

(* The blocks that the files of s have: no two of them share one, so they  *)
(* are the sum of their cantidadBloques.                                   *)
ocupan(s) == Cardinality(UNION {extension(g) : g \in s})

nuevo_bloque_inicial(f, g) ==
  ocupan({h \in otros(f) : metadata[h].inicial < metadata[g].inicial})

(* The byte x of bloques.dat is of g once they are compacted. *)
queda(f, g, x) ==
  LET desde == nuevo_bloque_inicial(f, g) IN
  /\ desde * BLOCK_SIZE <= x
  /\ x < (desde + cantidadBloques(metadata[g].tamanio)) * BLOCK_SIZE

compactado(f) ==
  LET dueno(x) == CHOOSE g \in otros(f) : queda(f, g, x)
      corrido(g) == (nuevo_bloque_inicial(f, g) - metadata[g].inicial) * BLOCK_SIZE
  IN  [x \in Bytes |-> IF \E g \in otros(f) : queda(f, g, x)
                         THEN bloques[x - corrido(dueno(x))] ELSE bloques[x]]

(* compactar when the dictionary has an empty metadata: obtener_config_    *)
(* indice, which looks for the file of a busy block, may come to it first  *)
(* and die.  The blocks of f are free by then, and the files before the    *)
(* block have been freed and have their new BLOQUE_INICIAL.                *)
compactar_con_vacios(f) ==
  /\ vacios # {}
  /\ \E g \in otros(f) :
       LET hechos == {h \in otros(f) : metadata[h].inicial < metadata[g].inicial} IN
       /\ bitmap' = bitmap \ UNION {extension(h) : h \in hechos \cup {f}}
       /\ metadata' = [h \in DOMAIN metadata |->
                         [inicial |-> IF h \in hechos THEN nuevo_bloque_inicial(f, h)
                                                      ELSE metadata[h].inicial,
                          tamanio |-> metadata[h].tamanio]]
  /\ viva' = FALSE
  /\ cortada' = TRUE
  /\ UNCHANGED <<vacios, bloques>>

(* aumentarTamanioArchivo: the blocks of the file are freed, and then      *)
(* - the blocks that follow are free: it stays where it is;                *)
(* - there is a run of free blocks for it: its TAMANIO_ARCHIVO bytes move; *)
(* - there are enough free blocks: the file system is compacted;           *)
(* - or nothing changes, and nobody is told.                               *)
aumentarTamanioArchivo(f, nuevo) ==
  LET m == metadata[f]
      total == cantidadBloques(nuevo)
      lugares == libres \cup extension(f)
      siguientes == tramo(m.inicial, total) \ extension(f)
  IN
  \/ /\ siguientes \subseteq libres
     /\ bitmap' = bitmap \cup siguientes
     /\ metadata' = poner(metadata, f, m.inicial, nuevo)
     /\ UNCHANGED <<bloques, proceso>>
  \/ /\ ~(siguientes \subseteq libres)
     /\ comienzos(lugares, total) # {}
     /\ LET b == Min(comienzos(lugares, total)) IN
        /\ bitmap' = (bitmap \ extension(f)) \cup tramo(b, total)
        /\ metadata' = poner(metadata, f, b, nuevo)
        /\ bloques' = copia(bloques, m.inicial, b, m.tamanio)
        /\ UNCHANGED proceso
  \/ /\ comienzos(lugares, total) = {}
     /\ total <= Cardinality(lugares)
     /\ \/ compactar_con_vacios(f)
        \/ LET fin == ocupan(otros(f)) IN
           /\ bitmap' = tramo(0, fin + total)
           /\ metadata' = [g \in DOMAIN metadata |->
                             IF g = f THEN [inicial |-> fin, tamanio |-> nuevo]
                                      ELSE [inicial |-> nuevo_bloque_inicial(f, g),
                                            tamanio |-> metadata[g].tamanio]]
           /\ bloques' = copia(compactado(f), m.inicial, fin, m.tamanio)
           /\ UNCHANGED proceso
  \/ /\ total > Cardinality(lugares)
     /\ UNCHANGED <<metadata, bitmap, bloques, proceso>>

(* The blocks given back are the first ones of the file. *)
mut_reducir_desde_el_principio(f, nuevo) ==
  /\ bitmap' = bitmap \ tramo(metadata[f].inicial,
                              cantidadBloques(metadata[f].tamanio) - cantidadBloques(nuevo))
  /\ metadata' = poner(metadata, f, metadata[f].inicial, nuevo)
  /\ bloques' = olvidar(bloques, f, nuevo)
  /\ UNCHANGED proceso

reducirTamanioArchivo(f, nuevo) ==
  /\ bitmap' = bitmap \ (extension(f) \ tramo(metadata[f].inicial, cantidadBloques(nuevo)))
  /\ metadata' = poner(metadata, f, metadata[f].inicial, nuevo)
  /\ bloques' = olvidar(bloques, f, nuevo)
  /\ UNCHANGED proceso

(* With the same number of blocks it returns without looking at the size.  *)
(* A name that is not in the dictionary ends the interface (exit), and so  *)
(* does an empty metadata (atoi of NULL).                                  *)
interfaz_fs_truncate(f, nuevo) ==
  LET antes == cantidadBloques(metadata[f].tamanio)
      despues == cantidadBloques(nuevo)
  IN
  /\ viva
  /\ IF ~existe(f)
       THEN terminar
       ELSE /\ \/ antes = despues /\ UNCHANGED <<metadata, bitmap, bloques, proceso>>
               \/ antes < despues /\ aumentarTamanioArchivo(f, nuevo)
               \/ antes > despues /\ reducirTamanioArchivo(f, nuevo)
            /\ pedido' = IF LimiteEscritura = "metadata" THEN pedido
                                                         ELSE [pedido EXCEPT ![f] = nuevo]
            /\ escrito' = [escrito EXCEPT ![f] = menor(@, nuevo)]
            /\ UNCHANGED creados

limite(f) ==
  LET enBloques == cantidadBloques(metadata[f].tamanio) * BLOCK_SIZE
  IN  CASE LimiteEscritura = "metadata" -> metadata[f].tamanio
        [] LimiteEscritura = "bloques"  -> menor(enBloques, pedido[f])
        [] LimiteEscritura = "pedido"   -> pedido[f]

(* A program writes the first n bytes of f.  The size of the file is not   *)
(* looked at; what goes past the last block is left out here.  A name that *)
(* is not in the dictionary, or has no BLOQUE_INICIAL, ends the interface. *)
interfaz_fs_write(f, n) ==
  /\ viva
  /\ \/ /\ existe(f)
        /\ 0 < n /\ n <= limite(f)
        /\ LET desde == metadata[f].inicial * BLOCK_SIZE IN
           bloques' = [x \in Bytes |-> IF desde <= x /\ x < desde + n THEN <<f, x - desde>>
                                                             ELSE bloques[x]]
        /\ escrito' = [escrito EXCEPT ![f] = IF n > @ THEN n ELSE @]
        /\ UNCHANGED <<metadata, creados, bitmap, proceso, pedido>>
     \/ ~existe(f) /\ terminar

(* Every bit of the file is cleaned, the busy ones too. *)
mut_crear_bitmap_vacio(bits) == {}

(* The bits before the first one that is set are cleaned; a bitmap.dat     *)
(* that was there is mapped as it is.                                      *)
crear_bitmap(bits) == bits \ {b \in Bloques : \A c \in 0..b : c \notin bits}

(* The interface starts again on the directory of before.  Nothing repairs *)
(* the disk of an operation that was cut: what follows it is left out.     *)
inicializar_fs ==
  /\ ~cortada
  /\ viva' = TRUE
  /\ vacios' = creados \ DOMAIN metadata
  /\ bitmap' = crear_bitmap(bitmap)
  /\ UNCHANGED <<metadata, creados, bloques, cortada, pedido, escrito>>

Next ==
  \/ inicializar_fs
  \/ \E f \in Archivos :
       \/ interfaz_fs_create(f)
       \/ interfaz_fs_delete(f) \/ interfaz_fs_delete_vacio(f)
       \/ \E n \in 0..MaxTamanio : interfaz_fs_truncate(f, n) \/ interfaz_fs_write(f, n)

Spec == Init /\ [][Next]_vars

-----------------------------------------------------------------------------

TypeOK ==
  /\ DOMAIN metadata \subseteq Archivos
  /\ \A f \in DOMAIN metadata : metadata[f] \in [inicial : Bloques, tamanio : 0..MaxTamanio]
  /\ creados \subseteq Archivos /\ vacios \subseteq creados
  /\ bitmap \subseteq Bloques
  /\ DOMAIN bloques = Bytes
  /\ viva \in BOOLEAN /\ cortada \in BOOLEAN
  /\ pedido \in [Archivos -> 0..MaxTamanio]
  /\ escrito \in [Archivos -> 0..MaxTamanio]

(* The bitmap has the blocks of the files and no others, and no block is   *)
(* of two files, after any number of restarts: what the scans of           *)
(* hayEspacio... and of compactar rely on, which takes every busy bit it   *)
(* meets for the first block of a file.                                    *)
BitmapExacto ==
  ~cortada =>
    /\ bitmap = UNION {extension(f) : f \in DOMAIN metadata}
    /\ \A f, g \in DOMAIN metadata : f # g => extension(f) \cap extension(g) = {}

(* What programs wrote in a file is in its blocks, wherever the growth or  *)
(* the compaction for another file has taken them and however many times   *)
(* the interface has been started again.                                   *)
ContenidoConservado ==
  ~cortada =>
    \A f \in DOMAIN metadata : \A k \in 0..escrito[f] - 1 :
      bloques[metadata[f].inicial * BLOCK_SIZE + k] = <<f, k>>

(* Enunciado, page 18: IO_FS_WRITE writes in the file.  The program whose  *)
(* IO_FS_TRUNCATE was refused is not told, and writes in the blocks of     *)
(* whoever comes next.                                                     *)
EscrituraEnElArchivo ==
  \A f \in DOMAIN metadata :
    escrito[f] <= cantidadBloques(metadata[f].tamanio) * BLOCK_SIZE

(* Enunciado, page 26: the metadata file of a file has its first block and *)
(* its size.  IO_FS_CREATE without free blocks leaves an empty one, and    *)
(* the name can neither be created again nor deleted.                      *)
MetadataCompleta == viva => creados = DOMAIN metadata

(* Enunciado, page 18: IO_FS_TRUNCATE updates the size of the file to the  *)
(* one asked for.  Inside the same number of blocks it does not.           *)
TamanioActualizado ==
  \A f \in DOMAIN metadata :
    cantidadBloques(pedido[f]) = cantidadBloques(metadata[f].tamanio) =>
      metadata[f].tamanio = pedido[f]

=============================================================================
