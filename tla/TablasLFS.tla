------------------------------ MODULE TablasLFS ------------------------------
(***************************************************************************)
(* The life of the tables of the file system: CREATE and DROP (lfs/API.c), *)
(* the thread that compacts each table (lfs/Compactador.c), the dump that  *)
(* writes a .tmp in their directories (lfs/Dump.c), and the start of the   *)
(* file system over the directories it finds (lfs/Lissandra.c).            *)
(*                                                                         *)
(* Clients are the console and the memories.  A directory is what is seen  *)
(* of it: which one it is (a DROP reads the one it opened), whether its    *)
(* Metadata.bin is there and complete, and the blocks that each file       *)
(* lists.  The rest of tables is in memory: entries of                     *)
(* tablasParaCompactaciones, each with a mutex, and threads.  Records,     *)
(* and what compactar does with them, are in module LFS.                   *)
(***************************************************************************)
EXTENDS Integers, Sequences, SequencesExt, FiniteSets, Functions

CONSTANTS
  Tablas, Clientes,
  Particiones,   \* PARTITIONS of every table
  CantBloques,   \* BLOCKS
  MaxPedidos,    \* bound: requests
  MaxFallas,     \* bound: failures of pthread_create
  MaxReinicios   \* bound: times the file system is killed and started again

ASSUME ParticionesAssumption == Particiones \in Nat \ {0}
ASSUME BloquesAssumption == CantBloques \in Nat

Bloques == 0..(CantBloques - 1)
Tmp == 0                           \* 0.tmp
TmpC == Particiones + 1            \* 0.tmpc
Temporales == {Tmp, TmpC}
Nombres == 0..(Particiones + 1)    \* and each .bin, one number above its own
NULL == 0

VARIABLES
  dir,        \* the directory of each table, 0 if there is none
  metadata,   \* its Metadata.bin: not there, empty, or complete
  archivos,   \* its files, and the blocks they list
  bitmap,     \* blocks in use
  creados,    \* directories created
  memtable,   \* the tables that have records in the memtable
  entradas,   \* the t_hiloTabla there have been
  tablasParaCompactaciones,  \* the entries that are in the list
  hilos,      \* threads of compaction
  cliente,    \* what each client is doing
  dump,       \* the thread of the dump
  vivo,       \* FALSE once a thread used NULL or freed memory
  pedidos, fallas, reinicios,
  choque,     \* history: CREATE or DROP of one table have overlapped
  cortado     \* history: it was killed in the middle of something

disco == <<dir, metadata, archivos, bitmap, creados>>
listas == <<entradas, tablasParaCompactaciones>>
cuentas == <<pedidos, fallas, reinicios, choque, cortado>>
vars == <<disco, memtable, listas, hilos, cliente, dump, vivo, cuentas>>

SinBloques == [completo |-> FALSE, bloques |-> {}]
ConBloques(bs) == [completo |-> TRUE, bloques |-> bs]

Libre ==
  [pc |-> "libre", op |-> "INSERT", tabla |-> CHOOSE t \in Tablas : TRUE, dir |-> 0,
   entrada |-> NULL, nombre |-> Tmp, bloque |-> -1, debe |-> {}]
Dormido ==
  [pc |-> "dormido", tabla |-> CHOOSE t \in Tablas : TRUE, entrada |-> NULL, faltan |-> {}]

Entrada(t) == [tabla |-> t, finalizar |-> FALSE, duenio |-> FALSE, liberada |-> FALSE]
Hilo(t) == [pc |-> "inicio", tabla |-> t, entrada |-> NULL,
            faltan |-> {}, libera |-> {}, bloques |-> {}]

\* levantarFS: an entry and a thread for each directory.
Levantado ==
  LET ts == SetToSeq({t \in Tablas : dir'[t] # 0}) IN
  /\ entradas' = [i \in DOMAIN ts |-> Entrada(ts[i])]
  /\ tablasParaCompactaciones' = [i \in DOMAIN ts |-> i]
  /\ hilos' = [i \in DOMAIN ts |-> Hilo(ts[i])]
  /\ memtable' = {} /\ dump' = Dormido /\ vivo' = TRUE
  /\ cliente' = [c \in Clientes |-> Libre]

Init ==
  /\ dir = [t \in Tablas |-> 0] /\ metadata = [t \in Tablas |-> "no"]
  /\ archivos = [t \in Tablas |-> <<>>] /\ bitmap = {} /\ creados = 0
  /\ entradas = <<>> /\ tablasParaCompactaciones = <<>> /\ hilos = <<>>
  /\ memtable = {} /\ dump = Dormido /\ vivo = TRUE
  /\ cliente = [c \in Clientes |-> Libre]
  /\ pedidos = 0 /\ fallas = 0 /\ reinicios = 0
  /\ choque = FALSE /\ cortado = FALSE

------------------------------------------------------------------------------
(* Helpers.                                                                *)

EncontrarTabla_Ultima(t) ==
  LET ps == {i \in DOMAIN tablasParaCompactaciones :
               entradas[tablasParaCompactaciones[i]].tabla = t}
  IN  IF ps = {} THEN NULL
      ELSE tablasParaCompactaciones[CHOOSE i \in ps : \A j \in ps : i >= j]

\* list_find by name: the first entry of the table.
EncontrarTabla(t) ==
  LET ps == {i \in DOMAIN tablasParaCompactaciones :
               entradas[tablasParaCompactaciones[i]].tabla = t}
  IN  IF ps = {} THEN NULL
      ELSE tablasParaCompactaciones[CHOOSE i \in ps : \A j \in ps : i <= j]

\* There is no such entry, or it has been freed.
Liberada(e) == e # NULL /\ entradas[e].liberada
Perdida(e) == IF e = NULL THEN TRUE ELSE entradas[e].liberada

BloqueDisponible_UnoDeMas ==
  LET libres == (0..CantBloques) \ bitmap IN
  IF libres = {} THEN -1 ELSE CHOOSE b \in libres : \A x \in libres : b <= x

\* obtenerBloqueDisponible: the first clear bit, -1 if there is none.
BloqueDisponible ==
  LET libres == Bloques \ bitmap IN
  IF libres = {} THEN -1 ELSE CHOOSE b \in libres : \A x \in libres : b <= x
Marcado(b) == bitmap \cup ({b} \ {-1})

Revienta ==
  /\ vivo' = FALSE
  /\ UNCHANGED <<disco, memtable, listas, hilos, cliente, dump, cuentas>>

Pasa(c, r) ==
  /\ cliente' = [cliente EXCEPT ![c] = r]
  /\ UNCHANGED <<hilos, dump, vivo, cuentas>>

\* What only the client sees, and what only the disk does.
SoloCliente(c, r) == Pasa(c, r) /\ UNCHANGED <<disco, memtable, listas>>
EnDisco(c, r) == Pasa(c, r) /\ UNCHANGED <<memtable, listas>>

Escribe(t, n, f) == archivos' = [archivos EXCEPT ![t] = [m \in DOMAIN @ \cup {n} |->
                                                          IF m = n THEN f ELSE @[m]]]
Ocupado(c, t) == cliente[c].pc # "libre" /\ cliente[c].tabla = t
                   /\ cliente[c].op \in {"CREATE", "DROP"}

Pedir(c, op, t) ==
  /\ cliente[c].pc = "libre" /\ pedidos < MaxPedidos
  /\ cliente' = [cliente EXCEPT ![c] = [Libre EXCEPT !.pc = op, !.op = op, !.tabla = t]]
  /\ pedidos' = pedidos + 1
  /\ choque' = (choque \/ (op # "INSERT" /\ \E d \in Clientes : Ocupado(d, t)))
  /\ UNCHANGED <<disco, memtable, listas, hilos, dump, vivo, fallas, reinicios, cortado>>

------------------------------------------------------------------------------
(* procesarInsert, as far as tables are concerned.                         *)

BuscarTablaDeInsert(c) ==
  LET r == cliente[c] IN
  /\ r.pc = "INSERT"
  /\ SoloCliente(c, IF dir[r.tabla] = 0 THEN Libre ELSE [r EXCEPT !.pc = "memtable"])

Insertar(c) ==
  LET r == cliente[c] IN
  /\ r.pc = "memtable" /\ dump.pc = "dormido"
  /\ memtable' = memtable \cup {r.tabla}
  /\ Pasa(c, Libre)
  /\ UNCHANGED <<disco, listas>>

------------------------------------------------------------------------------
(* procesarCreate and crearParticiones.  Files are reached by their path,  *)
(* whichever directory is there.                                           *)

BuscarDirectorio(c) ==
  LET r == cliente[c] IN
  /\ r.pc = "CREATE"
  /\ SoloCliente(c, IF dir[r.tabla] # 0 THEN Libre ELSE [r EXCEPT !.pc = "mkdir"])

CrearDirectorio(c) ==
  LET r == cliente[c] IN
  /\ r.pc = "mkdir"
  /\ IF dir[r.tabla] # 0 THEN SoloCliente(c, Libre)
     ELSE /\ creados' = creados + 1
          /\ dir' = [dir EXCEPT ![r.tabla] = creados']
          /\ EnDisco(c, [r EXCEPT !.pc = "abrirMetadata"])
          /\ UNCHANGED <<metadata, archivos, bitmap>>

AbrirMetadata(c) ==
  LET r == cliente[c] IN
  /\ r.pc = "abrirMetadata"
  /\ IF dir[r.tabla] = 0 THEN SoloCliente(c, Libre)
     ELSE /\ metadata' = [metadata EXCEPT ![r.tabla] = "vacia"]
          /\ EnDisco(c, [r EXCEPT !.pc = "guardarMetadata"])
          /\ UNCHANGED <<dir, archivos, bitmap, creados>>

\* config_create returns NULL if the file is not there any more.
GuardarMetadata(c) ==
  LET r == cliente[c] IN
  /\ r.pc = "guardarMetadata"
  /\ \/ metadata[r.tabla] = "no" /\ Revienta
     \/ /\ metadata[r.tabla] # "no"
        /\ metadata' = [metadata EXCEPT ![r.tabla] = "completa"]
        /\ EnDisco(c, [r EXCEPT !.pc = "abrirParticion", !.nombre = 1])
        /\ UNCHANGED <<dir, archivos, bitmap, creados>>

\* If fopen fails the error is noted, and fclose(NULL) follows.
AbrirParticion(c) ==
  LET r == cliente[c] IN
  /\ r.pc = "abrirParticion"
  /\ \/ dir[r.tabla] = 0 /\ Revienta
     \/ /\ dir[r.tabla] # 0
        /\ Escribe(r.tabla, r.nombre, SinBloques)
        /\ EnDisco(c, [r EXCEPT !.pc = "pedirBloque"])
        /\ UNCHANGED <<dir, metadata, bitmap, creados>>

OtraParticion(r) ==
  [r EXCEPT !.bloque = -1, !.nombre = @ + 1,
            !.pc = IF r.nombre < Particiones THEN "abrirParticion" ELSE "agregarEntrada"]

\* A partition with no block is left without BLOCKS, and that is no error.
PedirBloque(c) ==
  LET r == cliente[c]
      b == BloqueDisponible
  IN
  /\ r.pc = "pedirBloque"
  /\ bitmap' = Marcado(b)
  /\ EnDisco(c, IF b = -1 THEN OtraParticion(r)
                ELSE [r EXCEPT !.pc = "escribirParticion", !.bloque = b])
  /\ UNCHANGED <<dir, metadata, archivos, creados>>

EscribirParticion(c) ==
  LET r == cliente[c] IN
  /\ r.pc = "escribirParticion"
  /\ \/ r.nombre \notin DOMAIN archivos[r.tabla] /\ Revienta
     \/ /\ r.nombre \in DOMAIN archivos[r.tabla]
        /\ Escribe(r.tabla, r.nombre, ConBloques({r.bloque}))
        /\ EnDisco(c, OtraParticion(r))
        /\ UNCHANGED <<dir, metadata, bitmap, creados>>

AgregarEntrada(c) ==
  LET r == cliente[c] IN
  /\ r.pc = "agregarEntrada"
  /\ entradas' = Append(entradas, Entrada(r.tabla))
  /\ tablasParaCompactaciones' = Append(tablasParaCompactaciones, Len(entradas'))
  /\ Pasa(c, [r EXCEPT !.pc = "crearHilo"])
  /\ UNCHANGED <<disco, memtable>>

\* pthread_create may fail, which is only logged.
CrearHilo(c) ==
  LET r == cliente[c] IN
  /\ r.pc = "crearHilo"
  /\ \/ hilos' = Append(hilos, Hilo(r.tabla)) /\ UNCHANGED fallas
     \/ fallas < MaxFallas /\ fallas' = fallas + 1 /\ UNCHANGED hilos
  /\ cliente' = [cliente EXCEPT ![c] = Libre]
  /\ UNCHANGED <<disco, memtable, listas, dump, vivo, pedidos, reinicios, choque, cortado>>

Create(c) ==
  \/ BuscarDirectorio(c)
  \/ CrearDirectorio(c)
  \/ AbrirMetadata(c)
  \/ GuardarMetadata(c)
  \/ AbrirParticion(c)
  \/ PedirBloque(c)
  \/ EscribirParticion(c)
  \/ AgregarEntrada(c)
  \/ CrearHilo(c)

------------------------------------------------------------------------------
(* procesarDrop and borrarArchivosYLiberarBloques.                         *)

BuscarEntrada(c) ==
  LET r == cliente[c]
      e == EncontrarTabla(r.tabla)
  IN
  /\ r.pc = "DROP"
  /\ SoloCliente(c, [r EXCEPT !.entrada = e,
                              !.pc = IF e = NULL THEN "opendir" ELSE "bloquear"])

\* finalizarHilo may have freed the entry since, with its mutex locked: see UsarLiberada.
BloquearEntrada(c) ==
  LET r == cliente[c] IN
  /\ r.pc = "bloquear"
  /\ ~entradas[r.entrada].liberada /\ ~entradas[r.entrada].duenio
  /\ entradas' = [entradas EXCEPT ![r.entrada].duenio = TRUE]
  /\ Pasa(c, [r EXCEPT !.pc = "opendir"])
  /\ UNCHANGED <<disco, memtable, tablasParaCompactaciones>>

AbrirDirectorio(c) ==
  LET r == cliente[c] IN
  /\ r.pc = "opendir"
  /\ SoloCliente(c, IF dir[r.tabla] = 0 THEN [r EXCEPT !.pc = "desbloquear"]
                    ELSE [r EXCEPT !.pc = "borrarMetadata", !.dir = dir[r.tabla]])

BorrarMetadata(c) ==
  LET r == cliente[c] IN
  /\ r.pc = "borrarMetadata"
  /\ metadata' = [metadata EXCEPT ![r.tabla] = "no"]
  /\ EnDisco(c, [r EXCEPT !.pc = "readdir", !.debe = DOMAIN archivos[r.tabla]])
  /\ UNCHANGED <<dir, archivos, bitmap, creados>>

\* The files of the directory that was opened; one created afterwards may be
\* seen or not.  One without BLOCKS is a NULL.
LiberarArchivo(c) ==
  LET r == cliente[c] IN
  /\ r.pc = "readdir" /\ dir[r.tabla] = r.dir
  /\ \E n \in DOMAIN archivos[r.tabla] :
       LET f == archivos[r.tabla][n] IN
       \/ ~f.completo /\ Revienta
       \/ /\ f.completo
          /\ bitmap' = bitmap \ f.bloques
          /\ EnDisco(c, [r EXCEPT !.pc = "remove", !.nombre = n])
          /\ UNCHANGED <<dir, metadata, archivos, creados>>

BorrarArchivo(c) ==
  LET r == cliente[c] IN
  /\ r.pc = "remove"
  /\ archivos' = [archivos EXCEPT ![r.tabla] = Restrict(@, DOMAIN @ \ {r.nombre})]
  /\ EnDisco(c, [r EXCEPT !.pc = "readdir", !.debe = @ \ {r.nombre}])
  /\ UNCHANGED <<dir, metadata, bitmap, creados>>

\* rmdir fails, in silence, if something is left.
BorrarDirectorio(c) ==
  LET r == cliente[c]
      vacio == metadata[r.tabla] = "no" /\ DOMAIN archivos[r.tabla] = {}
  IN
  /\ r.pc = "readdir"
  /\ dir[r.tabla] # r.dir \/ r.debe \cap DOMAIN archivos[r.tabla] = {}
  /\ dir' = IF vacio THEN [dir EXCEPT ![r.tabla] = 0] ELSE dir
  /\ EnDisco(c, [r EXCEPT !.pc = "condenar"])
  /\ UNCHANGED <<metadata, archivos, bitmap, creados>>

\* tablaEncontrada->finalizarCompactacion = 1, even if it is NULL, or freed by the
\* thread of another entry with that name.
Condenar(c) ==
  LET r == cliente[c] IN
  /\ r.pc = "condenar"
  /\ \/ Perdida(r.entrada) /\ Revienta
     \/ /\ ~Perdida(r.entrada)
        /\ entradas' = [entradas EXCEPT ![r.entrada].finalizar = TRUE]
        /\ Pasa(c, [r EXCEPT !.pc = "buscarEnMemtable"])
        /\ UNCHANGED <<disco, memtable, tablasParaCompactaciones>>

\* The table is looked for in the memtable with the condition for entries, whose
\* second field is the name and not the first: it is never found.
BuscarEnMemtable(c) ==
  LET r == cliente[c] IN
  /\ r.pc = "buscarEnMemtable" /\ dump.pc = "dormido"
  /\ SoloCliente(c, [r EXCEPT !.pc = "desbloquear"])

DesbloquearEntrada(c) ==
  LET r == cliente[c] IN
  /\ r.pc = "desbloquear"
  /\ \/ r.entrada # NULL /\ Perdida(r.entrada) /\ Revienta
     \/ /\ r.entrada = NULL \/ ~Perdida(r.entrada)
        /\ entradas' = IF r.entrada = NULL THEN entradas
                       ELSE [entradas EXCEPT ![r.entrada].duenio = FALSE]
        /\ Pasa(c, Libre)
        /\ UNCHANGED <<disco, memtable, tablasParaCompactaciones>>

Drop(c) ==
  \/ BuscarEntrada(c)
  \/ BloquearEntrada(c)
  \/ AbrirDirectorio(c)
  \/ BorrarMetadata(c)
  \/ LiberarArchivo(c)
  \/ BorrarArchivo(c)
  \/ BorrarDirectorio(c)
  \/ Condenar(c)
  \/ BuscarEnMemtable(c)
  \/ DesbloquearEntrada(c)

------------------------------------------------------------------------------
(* hiloCompactacion and finalizarHilo.                                     *)

SoloHilo(i, h) ==
  /\ hilos' = [hilos EXCEPT ![i] = h]
  /\ UNCHANGED <<memtable, cliente, dump, vivo, cuentas>>

\* config_create of a Metadata.bin that is not there, or not written yet.
LeerMetadata(i) ==
  LET h == hilos[i] IN
  /\ h.pc = "inicio"
  /\ \/ metadata[h.tabla] # "completa" /\ Revienta
     \/ /\ metadata[h.tabla] = "completa"
        /\ SoloHilo(i, [h EXCEPT !.pc = "buscar"])
        /\ UNCHANGED <<disco, listas>>

\* Once for all the wakings: the first entry with that name.
BuscarEntradaDeHilo(i) ==
  LET h == hilos[i] IN
  /\ h.pc = "buscar"
  /\ SoloHilo(i, [h EXCEPT !.pc = "duerme", !.entrada = EncontrarTabla(h.tabla)])
  /\ UNCHANGED <<disco, listas>>

Despertar(i) ==
  LET h == hilos[i] IN
  /\ h.pc = "duerme"
  /\ \/ h.entrada = NULL /\ Revienta
     \/ /\ ~Perdida(h.entrada) /\ ~entradas[h.entrada].duenio
        /\ entradas' = [entradas EXCEPT ![h.entrada].duenio = TRUE]
        /\ SoloHilo(i, [h EXCEPT !.pc = "decide"])
        /\ UNCHANGED <<disco, tablasParaCompactaciones>>

Condenada(t) == EncontrarTabla(t) # NULL /\ entradas[EncontrarTabla(t)].finalizar

FinalizarHilo_Todas(i) ==
  LET h == hilos[i]
      e == EncontrarTabla(h.tabla)
  IN
  /\ h.pc = "decide" /\ Condenada(h.tabla)
  /\ tablasParaCompactaciones' = SelectSeq(tablasParaCompactaciones, 
       LAMBDA x : entradas[x].tabla # h.tabla)
  /\ entradas' = [x \in DOMAIN entradas |->
       [entradas[x] EXCEPT !.liberada = @ \/ entradas[x].tabla = h.tabla]]
  /\ SoloHilo(i, [h EXCEPT !.pc = "fin"])
  /\ UNCHANGED disco

FinalizarHilo_YSigue(i) ==
  LET h == hilos[i]
      e == EncontrarTabla(h.tabla)
  IN
  /\ h.pc = "decide" /\ Condenada(h.tabla)
  /\ tablasParaCompactaciones' = RemoveFirst(tablasParaCompactaciones, e)
  /\ entradas' = [entradas EXCEPT ![e].liberada = TRUE]
  /\ SoloHilo(i, [h EXCEPT !.pc = "duerme"])
  /\ UNCHANGED disco

\* The first entry with that name is removed and freed, whichever is locked.
FinalizarHilo(i) ==
  LET h == hilos[i]
      e == EncontrarTabla(h.tabla)
  IN
  /\ h.pc = "decide" /\ Condenada(h.tabla)
  /\ tablasParaCompactaciones' = RemoveFirst(tablasParaCompactaciones, e)
  /\ entradas' = [entradas EXCEPT ![e].liberada = TRUE]
  /\ SoloHilo(i, [h EXCEPT !.pc = "fin"])
  /\ UNCHANGED disco

\* The dump's mutex in an entry: it has it, or setBlockTo does until it gives the
\* mutexes back.  An entry in use is the first of its name, the one setBlockTo finds.
DumpEn(e) == dump.pc \in {"crearTmp", "escribirTmp"} /\ dump.entrada = e
EnReescritura(e) ==
  \E i \in DOMAIN hilos : hilos[i].entrada = e /\ hilos[i].pc \in {"libera", "pide", "guarda"}

Renombrados(fs) ==
  IF Tmp \notin DOMAIN fs THEN fs
  ELSE [n \in (DOMAIN fs \ {Tmp}) \cup {TmpC} |-> IF n = TmpC THEN fs[Tmp] ELSE fs[n]]

TerminarDeCompactar_SinSoltar(i, h) ==
  /\ entradas' = entradas
  /\ SoloHilo(i, [h EXCEPT !.pc = "decide", !.faltan = {}, !.bloques = {}])

\* The thread gives its mutex back, and sleeps.
TerminarDeCompactar(i, h) ==
  /\ entradas' = [entradas EXCEPT ![h.entrada].duenio = FALSE]
  /\ SoloHilo(i, [h EXCEPT !.pc = "duerme", !.faltan = {}, !.bloques = {}])

\* compactar, up to where it has read: the .tmp becomes a .tmpc, in place of one
\* that was there.  What is read must be there with its BLOCKS, and nothing else
\* is done if it has no records.
Renombrar(i) ==
  LET h == hilos[i]
      fs == Renombrados(archivos[h.tabla])
  IN
  /\ h.pc = "decide" /\ ~Condenada(h.tabla) /\ ~DumpEn(EncontrarTabla(h.tabla))
  /\ \/ /\ \/ EncontrarTabla(h.tabla) = NULL \/ metadata[h.tabla] # "completa"
           \/ TmpC \in DOMAIN fs /\ ~fs[TmpC].completo
        /\ Revienta
     \/ /\ EncontrarTabla(h.tabla) # NULL /\ metadata[h.tabla] = "completa"
        /\ TmpC \in DOMAIN fs => fs[TmpC].completo /\ fs[TmpC].bloques = {}
        /\ archivos' = [archivos EXCEPT ![h.tabla] = fs]
        /\ TerminarDeCompactar(i, h)
        /\ UNCHANGED <<dir, metadata, bitmap, creados, tablasParaCompactaciones>>
     \/ /\ EncontrarTabla(h.tabla) # NULL /\ metadata[h.tabla] = "completa"
        /\ TmpC \in DOMAIN fs /\ fs[TmpC].completo /\ fs[TmpC].bloques # {}
        /\ \E ps \in (SUBSET (1..Particiones)) \ {{}} :
             \/ ~(\A n \in ps : n \in DOMAIN fs /\ fs[n].completo) /\ Revienta
             \/ /\ \A n \in ps : n \in DOMAIN fs /\ fs[n].completo
                /\ archivos' = [archivos EXCEPT ![h.tabla] = fs]
                /\ SoloHilo(i, [h EXCEPT !.pc = "bloquea", !.faltan = ps,
                                          !.libera = ps \cup {TmpC}])
                /\ UNCHANGED <<dir, metadata, bitmap, creados, listas>>

BloquearTabla(i) ==
  LET h == hilos[i] IN
  /\ h.pc = "bloquea" /\ ~DumpEn(EncontrarTabla(h.tabla))
  /\ SoloHilo(i, [h EXCEPT !.pc = "libera"])
  /\ UNCHANGED <<disco, listas>>

SinLiberar(h, n) ==
  [h EXCEPT !.libera = @ \ {n}, !.pc = IF h.libera = {n} THEN "pide" ELSE "libera"]

LiberarBloques_SinTmpC(i) ==
  LET h == hilos[i]
      fs == archivos[h.tabla]
  IN
  /\ h.pc = "libera"
  /\ \E n \in h.libera :
       /\ n \in DOMAIN fs
       /\ bitmap' = IF n = TmpC THEN bitmap ELSE bitmap \ fs[n].bloques
       /\ archivos' = IF n = TmpC
                      THEN [archivos EXCEPT ![h.tabla] = Restrict(@, DOMAIN @ \ {TmpC})]
                      ELSE archivos
       /\ SoloHilo(i, SinLiberar(h, n))
       /\ UNCHANGED <<dir, metadata, creados, listas>>

\* liberarBloquesDeTmpCyParticiones, one file: the .tmpc goes, and a partition goes
\* on listing the blocks it had.  One that is not there is not seen.
LiberarBloques(i) ==
  LET h == hilos[i]
      fs == archivos[h.tabla]
  IN
  /\ h.pc = "libera"
  /\ \E n \in h.libera :
       LET f == IF n \in DOMAIN fs THEN fs[n] ELSE ConBloques({}) IN
       \/ ~f.completo /\ Revienta
       \/ /\ f.completo
          /\ bitmap' = bitmap \ f.bloques
          /\ archivos' = IF n = TmpC
                         THEN [archivos EXCEPT ![h.tabla] = Restrict(@, DOMAIN @ \ {TmpC})]
                         ELSE archivos
          /\ SoloHilo(i, SinLiberar(h, n))
          /\ UNCHANGED <<dir, metadata, creados, listas>>

\* guardarDatosNuevos, a partition at a time: it asks for as many blocks as its data
\* take, and lists those it was given, be they none.
PedirBloqueNuevo(i) ==
  LET h == hilos[i]
      b == BloqueDisponible
  IN
  /\ h.pc \in {"pide", "guarda"}
  /\ bitmap' = Marcado(b)
  /\ SoloHilo(i, [h EXCEPT !.pc = "guarda", !.bloques = @ \cup ({b} \ {-1})])
  /\ UNCHANGED <<dir, metadata, archivos, creados, listas>>

GuardarParticion(i) ==
  LET h == hilos[i] IN
  /\ h.pc = "guarda"
  /\ \E n \in h.faltan :
       \/ n \notin DOMAIN archivos[h.tabla] /\ Revienta
       \/ /\ n \in DOMAIN archivos[h.tabla]
          /\ Escribe(h.tabla, n, ConBloques(h.bloques))
          /\ \/ h.faltan = {n} /\ TerminarDeCompactar(i, h)
             \/ /\ h.faltan # {n} /\ UNCHANGED entradas
                /\ SoloHilo(i, [h EXCEPT !.pc = "pide", !.faltan = @ \ {n}, !.bloques = {}])
          /\ UNCHANGED <<dir, metadata, bitmap, creados, tablasParaCompactaciones>>

Compactar(i) ==
  \/ Renombrar(i)
  \/ BloquearTabla(i)
  \/ LiberarBloques(i)
  \/ PedirBloqueNuevo(i)
  \/ GuardarParticion(i)

Compactacion(i) ==
  \/ LeerMetadata(i)
  \/ BuscarEntradaDeHilo(i)
  \/ Despertar(i)
  \/ FinalizarHilo(i)
  \/ Compactar(i)

------------------------------------------------------------------------------
(* hiloDump and dumpear.                                                   *)

SoloDump(d) ==
  /\ dump' = d
  /\ UNCHANGED <<listas, hilos, cliente, vivo, cuentas>>

\* Bound: no table has two .tmp (the code takes the first number that is free): a
\* dump begins once the compaction has renamed those of the last one.
UnTmpPorTabla == \A t \in memtable : Tmp \notin DOMAIN archivos[t]

ComenzarDump ==
  /\ dump.pc = "dormido" /\ memtable # {} /\ UnTmpPorTabla
  /\ SoloDump([dump EXCEPT !.pc = "mirar", !.faltan = memtable])
  /\ UNCHANGED <<disco, memtable>>

\* The table may have been dropped; its entry, which is kept for the mutex in it, is
\* not asked if it is NULL.
MirarTabla(t) ==
  LET e == EncontrarTabla(t) IN
  /\ dump.pc = "mirar" /\ t \in dump.faltan
  /\ \/ dir[t] # 0 /\ e = NULL /\ Revienta
     \/ /\ dir[t] = 0
        /\ SoloDump([dump EXCEPT !.faltan = @ \ {t}])
        /\ UNCHANGED <<disco, memtable>>
     \/ /\ dir[t] # 0 /\ e # NULL
        /\ SoloDump([dump EXCEPT !.faltan = @ \ {t}, !.tabla = t, !.entrada = e,
                                 !.pc = "bloquear"])
        /\ UNCHANGED <<disco, memtable>>

\* If finalizarHilo has freed the entry since, see UsarLiberada.
BloquearTmp ==
  /\ dump.pc = "bloquear"
  /\ ~entradas[dump.entrada].liberada /\ ~EnReescritura(dump.entrada)
  /\ SoloDump([dump EXCEPT !.pc = "crearTmp"])
  /\ UNCHANGED <<disco, memtable>>

\* fopen fails if the directory has gone, and may fail if it has not: the table is
\* left out, and its records are lost when the memtable is emptied.
CrearTmp ==
  /\ dump.pc = "crearTmp"
  /\ \/ /\ SoloDump([dump EXCEPT !.pc = "mirar"])
        /\ UNCHANGED archivos
     \/ /\ dir[dump.tabla] # 0
        /\ SoloDump([dump EXCEPT !.pc = "escribirTmp"])
        /\ Escribe(dump.tabla, Tmp, SinBloques)
  /\ UNCHANGED <<dir, metadata, bitmap, creados, memtable>>

EscribirTmp ==
  LET b == BloqueDisponible IN
  /\ dump.pc = "escribirTmp"
  /\ bitmap' = Marcado(b)
  /\ IF Tmp \in DOMAIN archivos[dump.tabla]
     THEN Escribe(dump.tabla, Tmp, ConBloques({b} \ {-1}))
     ELSE UNCHANGED archivos
  /\ SoloDump([dump EXCEPT !.pc = "mirar"])
  /\ UNCHANGED <<dir, metadata, creados, memtable>>

TerminarDump ==
  /\ dump.pc = "mirar" /\ dump.faltan = {}
  /\ memtable' = {}
  /\ SoloDump(Dormido)
  /\ UNCHANGED disco

Dumpear ==
  \/ ComenzarDump
  \/ \E t \in Tablas : MirarTabla(t)
  \/ BloquearTmp
  \/ CrearTmp
  \/ EscribirTmp
  \/ TerminarDump

------------------------------------------------------------------------------
\* Who has a pointer to an entry, or to the dump's mutex in it, and finds it freed.
\* finalizarHilo leaves the mutex of the entry locked: a DROP or a thread that waits
\* for it does so for ever.  The dump's mutex has been destroyed: to lock it may fail,
\* and the dump goes on without it.  Or the process ends.  Nothing makes any of this
\* happen, and so it is in no fairness condition.
DropColgado(c) == cliente[c].pc = "bloquear" /\ Liberada(cliente[c].entrada)
HiloColgado(i) == hilos[i].pc = "duerme" /\ Liberada(hilos[i].entrada)
DumpColgado == dump.pc = "bloquear" /\ Liberada(dump.entrada)

UsarLiberada ==
  \/ /\ \/ \E c \in Clientes : DropColgado(c)
        \/ \E i \in DOMAIN hilos : HiloColgado(i)
        \/ dump.pc \in {"bloquear", "crearTmp", "escribirTmp"} /\ Liberada(dump.entrada)
     /\ Revienta
  \/ /\ DumpColgado
     /\ SoloDump([dump EXCEPT !.pc = "crearTmp"]) /\ UNCHANGED <<disco, memtable>>

Compactando(i) == hilos[i].pc \in {"bloquea", "libera", "pide", "guarda"}

\* The file system ends, killed or by its own fault, and is started again: only
\* the disk is left, whose bitmap is a mapped file.
Reiniciar ==
  /\ reinicios < MaxReinicios
  /\ reinicios' = reinicios + 1
  /\ cortado' = (\/ cortado \/ dump.pc # "dormido"
                 \/ \E c \in Clientes, t \in Tablas : Ocupado(c, t)
                 \/ \E i \in DOMAIN hilos : Compactando(i))
  /\ UNCHANGED <<disco, pedidos, fallas, choque>>
  /\ Levantado

Atender(c) ==
  \/ BuscarTablaDeInsert(c)
  \/ Insertar(c)
  \/ Create(c)
  \/ Drop(c)

Next ==
  \/ /\ vivo
     /\ \/ \E c \in Clientes, t \in Tablas, op \in {"INSERT", "CREATE", "DROP"} :
             Pedir(c, op, t)
        \/ \E c \in Clientes : Atender(c)
        \/ \E i \in DOMAIN hilos : Compactacion(i)
        \/ Dumpear
        \/ UsarLiberada
  \/ Reiniciar
  \/ /\ ~vivo \/ \A c \in Clientes : cliente[c].pc = "libre"  \* nobody asks for more
     /\ UNCHANGED vars

Spec == Init /\ [][Next]_vars

MaxHilos == MaxPedidos + Cardinality(Tablas)

\* Threads go on, and a client gets a mutex that is free again and again: a
\* compaction thread sleeps between a use of it and the next.
Fairness ==
  /\ \A c \in Clientes : SF_vars(vivo /\ Atender(c))
  /\ \A i \in 1..MaxHilos : WF_vars(vivo /\ i \in DOMAIN hilos /\ Compactacion(i))
  /\ WF_vars(vivo /\ Dumpear)

FairSpec == Spec /\ Fairness

------------------------------------------------------------------------------
Listadas == ToSet(tablasParaCompactaciones)

TypeOK ==
  /\ dir \in [Tablas -> 0..creados] /\ metadata \in [Tablas -> {"no", "vacia", "completa"}]
  /\ bitmap \subseteq Bloques
  /\ \A t \in Tablas : \A n \in DOMAIN archivos[t] :
       n \in Nombres /\ archivos[t][n].bloques \subseteq Bloques
  /\ memtable \subseteq Tablas
  /\ Listadas \subseteq DOMAIN entradas /\ IsInjective(tablasParaCompactaciones)
  /\ \A e \in DOMAIN entradas : entradas[e].liberada <=> e \notin Listadas
  /\ \A i \in DOMAIN hilos : hilos[i].entrada \in DOMAIN entradas \cup {NULL}

\* Who has a block: a CREATE that has yet to write it in a partition, a compaction
\* the same, or a file, unless its blocks have been freed and it is still there: a
\* DROP is about to remove it, or a compaction to give it new ones.
EnManoDe(b) == {c \in Clientes : cliente[c].bloque = b}
EnHiloDe(b) == {i \in DOMAIN hilos : b \in hilos[i].bloques}
Quitados ==
  {<<cliente[c].tabla, cliente[c].nombre>> : c \in {d \in Clientes : cliente[d].pc = "remove"}}
Reescrito(t, n) ==
  \E i \in DOMAIN hilos : hilos[i].tabla = t /\ n \in hilos[i].faltan \ hilos[i].libera
Listan(b) ==
  {p \in Tablas \X Nombres : /\ p[2] \in DOMAIN archivos[p[1]]
                             /\ b \in archivos[p[1]][p[2]].bloques
                             /\ p \notin Quitados /\ ~Reescrito(p[1], p[2])}

UnDuenio(b) ==
  /\ b \in bitmap <=> EnManoDe(b) # {} \/ EnHiloDe(b) # {} \/ Listan(b) # {}
  /\ EnManoDe(b) = {} \/ Listan(b) = {}
  /\ EnHiloDe(b) = {} \/ (EnManoDe(b) = {} /\ Listan(b) = {})
  /\ \A c, d \in EnManoDe(b) : c = d
  /\ \A i, j \in EnHiloDe(b) : i = j
  /\ \A p, q \in Listan(b) : p = q

\* As long as CREATE and DROP of one table do not overlap, and nothing is cut
\* short, a block is in use if and only if somebody has it, and only one: no race of
\* two tables, the dump, and the compactions that free their blocks and ask for
\* others, and the DROP under them, loses a block or gives it twice.
BloquesExactos == ~choque /\ ~cortado => \A b \in Bloques : UnDuenio(b)

\* A table that is there has an entry that no DROP has condemned: neither a DROP
\* that was late, nor a thread of a table that had that name, takes it away.
EntradaVigente ==
  \A t \in Tablas :
    metadata[t] = "completa" /\ ~(\E c \in Clientes : Ocupado(c, t))
      => \E e \in Listadas : entradas[e].tabla = t /\ ~entradas[e].finalizar

\* No thread of compaction outlives the entries of its table: each ends with
\* one of them, be it its own or not.
HilosConEntrada ==
  \A t \in Tablas :
    Cardinality({i \in DOMAIN hilos : hilos[i].tabla = t /\ hilos[i].pc # "fin"})
      <= Cardinality({e \in Listadas : entradas[e].tabla = t})

\* Every request ends: nobody keeps the mutex of an entry.  But a DROP may wait for
\* one that was freed locked, for ever and alone; and all may if it is the dump that
\* was left so, with the mutex of the memtable.
RequestTermina ==
  \A c \in Clientes :
    cliente[c].pc # "libre" ~> (cliente[c].pc = "libre" \/ ~vivo \/ DropColgado(c) \/ DumpColgado)

\* An entry that a DROP condemned is removed, if the threads could be created and
\* neither one of that table nor the dump waits for a mutex that was freed.
CondenadaSeQuita ==
  \A e \in 1..MaxHilos :
    (e \in Listadas /\ entradas[e].finalizar)
      ~> (\/ e \notin Listadas \/ ~entradas[e].finalizar \/ ~vivo \/ fallas > 0 \/ DumpColgado
          \/ \E i \in DOMAIN hilos : HiloColgado(i) /\ hilos[i].tabla = entradas[e].tabla)
------------------------------------------------------------------------------
(* Inductive invariants.  First, the types.                                *)

PasosDeInsert == {"INSERT", "memtable"}
PasosDeCreate ==
  {"CREATE", "mkdir", "abrirMetadata", "guardarMetadata", "abrirParticion", "pedirBloque",
   "escribirParticion", "agregarEntrada", "crearHilo"}
PasosDeDrop ==
  {"DROP", "bloquear", "opendir", "borrarMetadata", "readdir", "remove", "condenar",
   "buscarEnMemtable", "desbloquear"}

Pedido ==
  [pc : {"libre"} \cup PasosDeInsert \cup PasosDeCreate \cup PasosDeDrop,
   op : {"INSERT", "CREATE", "DROP"}, tabla : Tablas \cup {Libre.tabla}, dir : Nat,
   entrada : Nat, nombre : Nat, bloque : Bloques \cup {-1}, debe : SUBSET Nombres]

\* Where a client is, by what it serves, and which file it is at.  It has a block
\* in its hand only from the request to the writing.
EnSuLugar(r) ==
  /\ \/ r.pc = "libre"
     \/ r.tabla \in Tablas /\ r.op = "INSERT" /\ r.pc \in PasosDeInsert
     \/ r.tabla \in Tablas /\ r.op = "CREATE" /\ r.pc \in PasosDeCreate
     \/ r.tabla \in Tablas /\ r.op = "DROP" /\ r.pc \in PasosDeDrop
  /\ r.pc \in {"abrirParticion", "pedirBloque", "escribirParticion"} =>
       r.nombre \in 1..Particiones
  /\ r.bloque # -1 <=> r.pc = "escribirParticion"

TiposDeClientes ==
  /\ cliente \in [Clientes -> Pedido]
  /\ \A c \in Clientes : EnSuLugar(cliente[c])

\* What is not complete lists no blocks; a table that is not there has no files.
TiposDelDisco ==
  /\ creados \in Nat /\ dir \in [Tablas -> 0..creados]
  /\ metadata \in [Tablas -> {"no", "vacia", "completa"}]
  /\ bitmap \subseteq Bloques
  /\ archivos = [t \in Tablas |-> archivos[t]]
  /\ \A t \in Tablas : \A n \in DOMAIN archivos[t] :
       /\ n \in Nombres /\ archivos[t][n] \in [completo : BOOLEAN, bloques : SUBSET Bloques]
       /\ ~archivos[t][n].completo => archivos[t][n].bloques = {}
  /\ \A t \in Tablas : dir[t] = 0 => metadata[t] = "no" /\ DOMAIN archivos[t] = {}
  /\ IsFiniteSet({t \in Tablas : dir[t] # 0})

TiposDelDump ==
  /\ memtable \subseteq Tablas
  /\ dump \in [pc : {"dormido", "mirar", "bloquear", "crearTmp", "escribirTmp"},
               tabla : Tablas \cup {Dormido.tabla}, entrada : Nat, faltan : SUBSET Tablas]
  /\ dump.pc \in {"bloquear", "crearTmp", "escribirTmp"} => dump.tabla \in Tablas

UnaEntrada == [tabla : Tablas, finalizar : BOOLEAN, duenio : BOOLEAN, liberada : BOOLEAN]
UnHilo ==
  [pc : {"inicio", "buscar", "duerme", "decide", "bloquea", "libera", "pide", "guarda", "fin"},
   tabla : Tablas, entrada : Nat, faltan : SUBSET (1..Particiones), libera : SUBSET Nombres,
   bloques : SUBSET Bloques]

\* Lists, and what clients and threads hold of them.
TiposDeListas ==
  /\ entradas \in Seq(UnaEntrada)
  /\ tablasParaCompactaciones \in Seq(Nat)
  /\ Listadas \subseteq DOMAIN entradas /\ IsInjective(tablasParaCompactaciones)
  /\ \A e \in DOMAIN entradas : entradas[e].liberada <=> e \notin Listadas
  /\ hilos \in Seq(UnHilo)
  /\ \A i \in DOMAIN hilos : hilos[i].entrada # NULL => hilos[i].entrada \in DOMAIN entradas
  /\ \A c \in Clientes : cliente[c].entrada # NULL =>
       /\ cliente[c].entrada \in DOMAIN entradas
       /\ entradas[cliente[c].entrada].tabla = cliente[c].tabla

------------------------------------------------------------------------------
(* Entries and threads.                                                    *)

Completandola(c, t) ==
  /\ cliente[c].tabla = t
  /\ cliente[c].pc \in {"abrirParticion", "pedirBloque", "escribirParticion", "agregarEntrada"}

\* A DROP that has taken the Metadata.bin away will condemn this entry.
PorCondenar(e) == \E c \in Clientes : /\ cliente[c].entrada = e
                                      /\ cliente[c].pc \in {"readdir", "remove", "condenar"}

\* A table that is there has an entry that nobody has condemned nor is about to,
\* or the CREATE that wrote its Metadata.bin has yet to add it.
VigenteInv ==
  \A t \in Tablas : metadata[t] = "completa" =>
    \/ \E c \in Clientes : Completandola(c, t)
    \/ \E e \in Listadas : entradas[e].tabla = t /\ ~entradas[e].finalizar /\ ~PorCondenar(e)

HilosDe(t) == {i \in DOMAIN hilos : hilos[i].tabla = t /\ hilos[i].pc # "fin"}
PorCrearHilo(t) == {c \in Clientes : cliente[c].pc = "crearHilo" /\ cliente[c].tabla = t}
EntradasDe(t) == {e \in Listadas : entradas[e].tabla = t}

\* Threads, and those that a CREATE will start, are not more than entries.
HilosInv ==
  \A t \in Tablas :
    /\ IsFiniteSet(PorCrearHilo(t))
    /\ Cardinality(HilosDe(t)) + Cardinality(PorCrearHilo(t)) <= Cardinality(EntradasDe(t))

\* Who has the mutex of an entry, and what it has of a compaction.
ConMutex ==
  {"opendir", "borrarMetadata", "readdir", "remove", "condenar", "buscarEnMemtable",
   "desbloquear"}
SusDuenios(e) == {c \in Clientes : cliente[c].pc \in ConMutex /\ cliente[c].entrada = e}
EnUso == {"decide", "bloquea", "libera", "pide", "guarda"}
SusHilos(e) == {i \in DOMAIN hilos : hilos[i].pc \in EnUso /\ hilos[i].entrada = e}

\* Whoever looked for an entry that is still there has the first of its table, and so
\* the DROPs and the threads of a table exclude one another, and nobody frees an
\* entry that another has locked.
Apunta(e, t) == ~Perdida(e) => e = EncontrarTabla(t)

UnoLaTiene(e) ==
  /\ SusDuenios(e) # {} \/ SusHilos(e) # {} => ~entradas[e].liberada /\ entradas[e].duenio
  /\ SusDuenios(e) = {} \/ SusHilos(e) = {}
  /\ \A c, d \in SusDuenios(e) : c = d
  /\ \A i, j \in SusHilos(e) : i = j

\* What a thread has of a compaction, by where it is.
EnSuPaso(h) ==
  /\ h.pc \in EnUso => h.entrada # NULL
  /\ h.faltan # {} <=> h.pc \in EnUso \ {"decide"}
  /\ h.libera # {} <=> h.pc \in {"bloquea", "libera"}
  /\ h.bloques # {} => h.pc = "guarda"

MutexInv ==
  /\ \A c \in Clientes : Apunta(cliente[c].entrada, cliente[c].tabla)
  /\ \A i \in DOMAIN hilos : Apunta(hilos[i].entrada, hilos[i].tabla) /\ EnSuPaso(hilos[i])
  /\ \A e \in DOMAIN entradas : UnoLaTiene(e)

------------------------------------------------------------------------------
(* Blocks, as long as CREATE and DROP of one table do not overlap and      *)
(* nothing is cut short.                                                   *)

UnoPorTabla ==
  \A c, d \in Clientes, t \in Tablas : Ocupado(c, t) /\ Ocupado(d, t) => c = d

\* A CREATE has yet to write the files from nombre on; one it has opened is not
\* complete.
CreateInv(c) ==
  LET r == cliente[c]
      fs == archivos[r.tabla]
  IN
  /\ r.pc \in {"abrirMetadata", "guardarMetadata"} => DOMAIN fs \subseteq Temporales
  /\ r.pc = "abrirParticion" => \A n \in DOMAIN fs : n \in Temporales \/ n < r.nombre
  /\ r.pc \in {"pedirBloque", "escribirParticion"} =>
       /\ \A n \in DOMAIN fs : n \in Temporales \/ n <= r.nombre
       /\ r.nombre \in DOMAIN fs /\ ~fs[r.nombre].completo

\* What a DROP is removing is there, complete; only one that found an entry waits for
\* a mutex, and one that found none goes on without any.
DropInv(c) ==
  LET r == cliente[c]
      fs == archivos[r.tabla]
  IN
  /\ r.pc = "remove" => r.nombre \in DOMAIN fs /\ fs[r.nombre].completo
  /\ r.pc = "bloquear" => r.entrada # NULL
  /\ r.pc \in ConMutex /\ r.entrada = NULL => EncontrarTabla(r.tabla) = NULL

\* The dump finds no .tmp where it has yet to create one, and the one it is
\* writing stays, empty, until it has.
DumpInv ==
  /\ dump.pc # "dormido" => \A t \in dump.faltan : Tmp \notin DOMAIN archivos[t]
  /\ dump.pc \in {"bloquear", "crearTmp", "escribirTmp"} => dump.tabla \notin dump.faltan
  /\ dump.pc \in {"bloquear", "crearTmp"} => Tmp \notin DOMAIN archivos[dump.tabla]
  /\ dump.pc = "escribirTmp" =>
       Tmp \in DOMAIN archivos[dump.tabla] /\ ~archivos[dump.tabla][Tmp].completo

\* What a compaction has read stays there until it frees or writes it.
CompactaInv(i) ==
  LET h == hilos[i]
      fs == archivos[h.tabla]
  IN
  /\ \A n \in h.faltan \cup h.libera : n \in DOMAIN fs /\ fs[n].completo
  /\ h.libera \subseteq h.faltan \cup {TmpC}
  /\ h.pc = "bloquea" => h.libera = h.faltan \cup {TmpC}

\* A .tmpc with records is the one that a compaction is at.
TmpCInv(t) ==
  TmpC \in DOMAIN archivos[t] /\ archivos[t][TmpC].bloques # {} =>
    \E i \in DOMAIN hilos : hilos[i].tabla = t /\ TmpC \in hilos[i].libera

BloquesInv ==
  ~choque /\ ~cortado =>
    /\ UnoPorTabla
    /\ \A c \in Clientes : CreateInv(c) /\ DropInv(c)
    /\ DumpInv
    /\ \A i \in DOMAIN hilos : CompactaInv(i)
    /\ \A t \in Tablas : TmpCInv(t)
    /\ \A b \in Bloques : UnDuenio(b)
==============================================================================
