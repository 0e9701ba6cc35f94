--------------------------------- MODULE LFS ---------------------------------
(***************************************************************************)
(* The storage engine of the Lissandra File System (lfs/): the memtable,   *)
(* the temporary files a dump leaves, the partitions a compaction          *)
(* rewrites, the bitmap of blocks, and the threads that share them:        *)
(*                                                                         *)
(*   - the console and one thread per connected memory, which serve INSERT *)
(*     and SELECT (leerDeConsola, conectarConMemoria, interpretarRequest); *)
(*   - the dump thread (hiloDump);                                         *)
(*   - one compaction thread per table (hiloCompactacion).                 *)
(*                                                                         *)
(* The tables exist throughout and every client is registered in them:     *)
(* CREATE, DROP and connections belong to module TablasLFS.                *)
(*                                                                         *)
(* Data is abstracted to what the properties tell apart: a record is its   *)
(* key and timestamp (the value follows them), and a block holds one       *)
(* record, so that a file asks for as many blocks as it has records.       *)
(***************************************************************************)
EXTENDS Integers, Sequences, SequencesExt

CONSTANTS
  Tablas,            \* the tables of the file system
  Claves,            \* keys (uint16_t)
  MaxTimestamp,      \* the largest timestamp (unsigned long long)
  NumParticiones,    \* PARTITIONS of the tables' Metadata.bin
  CantBloques,       \* BLOCKS of the file system's Metadata.bin
  Clientes,          \* the console and the memories
  IdDump,            \* the id under which the dump thread is registered (2)
  CosasABloquear,    \* the ids in a table's cosasABloquear list, in order
  MaxInserts         \* bound: INSERTs in a behaviour

Ids == Clientes \cup {IdDump}
Bloques == 0..(CantBloques - 1)
Particiones == 0..(NumParticiones - 1)
Particion(k) == k % NumParticiones
Timestamps == 0..MaxTimestamp

ASSUME TablasAssumption == Tablas # {}
ASSUME ClavesAssumption ==
  Claves \subseteq Nat /\ Claves # {} /\ IsFiniteSet(Claves)
ASSUME TimestampsAssumption == MaxTimestamp \in Nat
ASSUME ParticionesAssumption == NumParticiones \in Nat \ {0}
ASSUME BloquesAssumption == CantBloques \in Nat
ASSUME IdDumpAssumption == IdDump \notin Clientes
ASSUME CosasAssumption ==
  /\ CosasABloquear \in Seq(Ids)
  /\ Range(CosasABloquear) = Ids
  /\ IsInjective(CosasABloquear)
ASSUME MaxInsertsAssumption == MaxInserts \in Nat

VARIABLES
  memtable,    \* the records of each table that no dump has taken yet
  tmp,         \* N.tmp of a table is tmp[t][N + 1]
  tmpc,        \* N.tmpc of a table is tmpc[t][N + 1]
  bin,         \* P.bin of a table is bin[t][P]
  bitmap,      \* the blocks whose bit is set
  mutex,       \* who holds the mutex of each t_bloqueo of each table
  sel,         \* the SELECT each client is running
  dump,        \* the dump thread
  comp,        \* the compaction thread of each table
  sinBloques,  \* "no hay bloques disponibles" has been logged
  sinTmp,      \* the dump could not open the N.tmp of a table
  vivo,        \* no thread has made an invalid access
  insertados,  \* history: the records whose INSERT succeeded
  cantInserts  \* history: how many INSERTs succeeded

archivos == <<tmp, tmpc, bin, bitmap, sinBloques, sinTmp>>
historia == <<insertados, cantInserts>>
vars == <<memtable, archivos, mutex, sel, dump, comp, vivo, historia>>

\* t_registro.
Registro == [key : Claves, timestamp : Timestamps]

\* A file of a table: what its blocks hold, and its BLOCKS list.
Archivo == [registros : Seq(Registro), bloques : SUBSET Bloques]

\* What a SELECT answers when no record has the key.
KEY_NO_EXISTE == -1

------------------------------------------------------------------------------
(* Records and files.                                                      *)

RegistrosDe(fs) == UNION {Range(fs[i].registros) : i \in DOMAIN fs}
BloquesDe(fs) == UNION {fs[i].bloques : i \in DOMAIN fs}

TimestampsDe(rs, k) == {r.timestamp : r \in {q \in rs : q.key = k}}

\* Every order in which readdir and the files may give the elements of S.
Listados(S) == {f \in [1..Cardinality(S) -> S] : Range(f) = S}

BloquesLibres == Bloques \ bitmap

\* n calls of obtenerBloqueDisponible: each takes the first clear bit, if any.
BloquesDisponibles_SinMarcar(n) == 0..((IF n < CantBloques THEN n ELSE CantBloques) - 1)
BloquesDisponibles_UnoDeMas(n) ==
  LET libres == (0..CantBloques) \ bitmap
  IN  {b \in libres : Cardinality({c \in libres : c <= b}) <= n}
BloquesDisponibles(n) ==
  {b \in BloquesLibres : Cardinality({c \in BloquesLibres : c <= b}) <= n}

FaltanBloques(rs) == Cardinality(BloquesDisponibles(Len(rs))) < Len(rs)

\* The loop of dumpear and guardarDatosNuevos: a block for each record; the
\* records left when the blocks run out are not written anywhere.
ArchivoEscrito(rs) ==
  LET pedidos == BloquesDisponibles(Len(rs))
  IN  [registros |-> IF FaltanBloques(rs)
                       THEN SubSeq(rs, 1, Cardinality(pedidos)) ELSE rs,
       bloques |-> pedidos]

\* rename() of every N.tmp to N.tmpc, over the N.tmpc there may be.
Renombrados(viejos, nuevos) ==
  [i \in DOMAIN viejos \cup DOMAIN nuevos |->
     IF i \in DOMAIN nuevos THEN nuevos[i] ELSE viejos[i]]

------------------------------------------------------------------------------
(* The merge of compactar().                                               *)

\* leerDeTodosLosTmpC: for each key, the record with the highest timestamp.
MasNuevos(S) ==
  {r \in S : \A q \in S : q.key = r.key => q.timestamp <= r.timestamp}

ConClave(rs, ks) == {i \in DOMAIN rs : rs[i].key \in ks}

\* obtenerTimestampMasAltoSiExiste: list_find gives the first of the key.
MasAlto_SinComparar(r, rs) == r
MasAlto(r, rs) ==
  LET indices == ConClave(rs, {r.key})
  IN  IF indices # {} /\ rs[Min(indices)].timestamp > r.timestamp
        THEN rs[Min(indices)] ELSE r

\* list_remove_and_destroy_by_condition(registrosDeParticiones, estaEnTmpC):
\* removes one record, the first of the list, which starts with whichever
\* partition was found first.
Resto(rs, ks, elegida) ==
  IF elegida THEN RemoveAt(rs, Min(ConClave(rs, ks))) ELSE rs

\* list_add_all(registrosAEscribir, registrosDeParticiones).
AEscribir_RestoAntes(ganadores, resto) == resto \o ganadores
AEscribir(ganadores, resto) == ganadores \o resto

Tocadas(S) == {Particion(r.key) : r \in S}

ClavesDe(S) == {r.key : r \in S}

Ganadores(nuevos, p, rs) ==
  {MasAlto(r, rs) : r \in {q \in nuevos : Particion(q.key) = p}}

\* The lists that may be written in place of the .tmpc files and a partition;
\* "elegida" is the partition that loses a record.
Listas(enTmpc, particiones, p, elegida) ==
  LET nuevos == MasNuevos(enTmpc)
      rs == particiones[p].registros
  IN  IF p \in Tocadas(enTmpc)
        THEN {AEscribir(l, Resto(rs, ClavesDe(nuevos), p = elegida)) :
                l \in Listados(Ganadores(nuevos, p, rs))}
        ELSE {<<>>}

Repetidas(enTmpc, particiones) ==
  {p \in Tocadas(enTmpc) :
     ConClave(particiones[p].registros, ClavesDe(MasNuevos(enTmpc))) # {}}

Elegibles(enTmpc, particiones) ==
  IF Repetidas(enTmpc, particiones) = {} THEN {-1}
                                         ELSE Repetidas(enTmpc, particiones)

Mezclas(enTmpc, particiones) ==
  UNION {{f \in [Particiones -> UNION {Listas(enTmpc, particiones, p, e) : p \in Particiones}] :
            \A p \in Particiones : f[p] \in Listas(enTmpc, particiones, p, e)} :
           e \in Elegibles(enTmpc, particiones)}

------------------------------------------------------------------------------
Ocioso == [pc |-> "ocioso", tabla |-> CHOOSE t \in Tablas : TRUE,
           key |-> CHOOSE k \in Claves : TRUE, leidos |-> {}, debidos |-> {},
           respuesta |-> KEY_NO_EXISTE]

\* The tables have just been created: each partition has a block and SIZE=0.
Init ==
  /\ memtable = [t \in Tablas |-> <<>>]
  /\ tmp = [t \in Tablas |-> <<>>]
  /\ tmpc = [t \in Tablas |-> <<>>]
  /\ \E bloque \in [Tablas \X Particiones -> Bloques] :
       /\ IsInjective(bloque)
       /\ Range(bloque) = 0..(Cardinality(Tablas \X Particiones) - 1)
       /\ bin = [t \in Tablas |-> [p \in Particiones |->
                   [registros |-> <<>>, bloques |-> {bloque[<<t, p>>]}]]]
       /\ bitmap = Range(bloque)
  /\ sinBloques = FALSE
  /\ sinTmp = FALSE
  /\ mutex = [t \in Tablas |-> [id \in Ids |-> "libre"]]
  /\ sel = [c \in Clientes |-> Ocioso]
  /\ dump = [pc |-> "dormido", tabla |-> CHOOSE t \in Tablas : TRUE,
             pendientes |-> {}]
  /\ comp = [t \in Tablas |-> [pc |-> "dormido", i |-> 1, porGuardar |-> {},
                            nuevos |-> [p \in Particiones |-> <<>>]]]
  /\ vivo = TRUE
  /\ insertados = [t \in Tablas |-> {}]
  /\ cantInserts = 0

------------------------------------------------------------------------------
(* INSERT and SELECT.                                                      *)

\* dumpear() holds mutexMemtable from its first table to its last.
MemtableLibre == dump.pc = "dormido"

\* procesarInsert.
Insertar(c, t, r) ==
  /\ vivo /\ sel[c].pc = "ocioso" /\ MemtableLibre
  /\ cantInserts < MaxInserts
  /\ memtable' = [memtable EXCEPT ![t] = Append(@, r)]
  /\ insertados' = [insertados EXCEPT ![t] = @ \cup {r}]
  /\ cantInserts' = cantInserts + 1
  /\ UNCHANGED <<archivos, mutex, sel, dump, comp, vivo>>

\* A SELECT arrives; it owes its client whatever is inserted by now.
PedirSelect(c, t, k) ==
  /\ vivo /\ sel[c].pc = "ocioso"
  /\ sel' = [sel EXCEPT ![c] =
       [Ocioso EXCEPT !.pc = "pedido", !.tabla = t, !.key = k,
                      !.debidos = TimestampsDe(insertados[t], k)]]
  /\ UNCHANGED <<memtable, archivos, mutex, dump, comp, vivo, historia>>

\* obtenerRegistrosDeMemtable: the records of the key.
EnMemtable_SinFiltrar(t, k) == {r.timestamp : r \in Range(memtable[t])}
EnMemtable(t, k) == TimestampsDe(Range(memtable[t]), k)

LeerMemtable(c) ==
  /\ vivo /\ sel[c].pc = "pedido" /\ MemtableLibre
  /\ sel' = [sel EXCEPT ![c].pc = "esperaMutex",
                        ![c].leidos = EnMemtable(sel[c].tabla, sel[c].key)]
  /\ UNCHANGED <<memtable, archivos, mutex, dump, comp, vivo, historia>>

\* The client locks the mutex registered under its own id.
BloquearPropio(c) ==
  LET t == sel[c].tabla
  IN  /\ vivo /\ sel[c].pc = "esperaMutex" /\ mutex[t][c] = "libre"
      /\ mutex' = [mutex EXCEPT ![t][c] = "propio"]
      /\ sel' = [sel EXCEPT ![c].pc = "leeTmp"]
      /\ UNCHANGED <<memtable, archivos, dump, comp, vivo, historia>>

\* The N.tmp that dumpear has opened and not filled in yet.
TmpIncompleto(t) == dump.pc = "escribiendo" /\ dump.tabla = t

\* obtenerRegistrosDeTmp.
EnTemporales_SoloTmp(t) == RegistrosDe(tmp[t])
EnTemporales(t) == RegistrosDe(tmp[t]) \cup RegistrosDe(tmpc[t])

LeerTmp(c) ==
  LET t == sel[c].tabla
  IN  /\ vivo /\ sel[c].pc = "leeTmp" /\ ~TmpIncompleto(t)
      /\ sel' = [sel EXCEPT ![c].pc = "leeParticion",
           ![c].leidos = @ \cup TimestampsDe(EnTemporales(t), sel[c].key)]
      /\ UNCHANGED <<memtable, archivos, mutex, dump, comp, vivo, historia>>

\* A .tmp without BLOCKS: config_get_string_value gives NULL, and the process
\* dies on it.
LeerTmpIncompleto(c) ==
  /\ vivo /\ sel[c].pc = "leeTmp" /\ TmpIncompleto(sel[c].tabla)
  /\ vivo' = FALSE
  /\ UNCHANGED <<memtable, archivos, mutex, sel, dump, comp, historia>>

\* obtenerRegistrosDeParticiones.
LeerParticion(c) ==
  LET t == sel[c].tabla
      k == sel[c].key
  IN  /\ vivo /\ sel[c].pc = "leeParticion"
      /\ sel' = [sel EXCEPT ![c].pc = "leyo",
           ![c].leidos = @ \cup TimestampsDe(Range(bin[t][Particion(k)].registros), k)]
      /\ UNCHANGED <<memtable, archivos, mutex, dump, comp, vivo, historia>>

\* list_sort, newest first, and head.
Primeros_AlReves(ts) ==
  IF ts = {} THEN {KEY_NO_EXISTE} ELSE {m \in ts : \A x \in ts : m <= x}
Primeros(ts) ==
  IF ts = {} THEN {KEY_NO_EXISTE} ELSE {m \in ts : \A x \in ts : x <= m}

\* Unlocks, sorts and answers.
Responder_SinDesbloquear(c) ==
  /\ vivo /\ sel[c].pc = "leyo"
  /\ \E r \in Primeros(sel[c].leidos) :
       sel' = [sel EXCEPT ![c].pc = "respondido", ![c].leidos = {},
                          ![c].respuesta = r]
  /\ UNCHANGED <<memtable, archivos, mutex, dump, comp, vivo, historia>>

Responder(c) ==
  LET t == sel[c].tabla
  IN  /\ vivo /\ sel[c].pc = "leyo"
      /\ mutex' = [mutex EXCEPT ![t][c] = "libre"]
      /\ \E r \in Primeros(sel[c].leidos) :
           sel' = [sel EXCEPT ![c].pc = "respondido", ![c].leidos = {},
                              ![c].respuesta = r]
      /\ UNCHANGED <<memtable, archivos, dump, comp, vivo, historia>>

\* enviar(), at the end of interpretarRequest; the thread takes its next
\* request.
Enviar(c) ==
  /\ vivo /\ sel[c].pc = "respondido"
  /\ sel' = [sel EXCEPT ![c] = Ocioso]
  /\ UNCHANGED <<memtable, archivos, mutex, dump, comp, vivo, historia>>

------------------------------------------------------------------------------
(* dumpear().                                                              *)

ComenzarDump ==
  /\ vivo /\ dump.pc = "dormido"
  /\ dump' = [dump EXCEPT !.pc = "recorriendo",
                          !.pendientes = {t \in Tablas : memtable[t] # <<>>}]
  /\ UNCHANGED <<memtable, archivos, mutex, sel, comp, vivo, historia>>

\* Locks the dump's mutex of the table and creates its next N.tmp, empty.
AbrirTmp(t) ==
  /\ vivo /\ dump.pc = "recorriendo" /\ t \in dump.pendientes
  /\ mutex[t][IdDump] = "libre"
  /\ mutex' = [mutex EXCEPT ![t][IdDump] = "propio"]
  /\ dump' = [dump EXCEPT !.pc = "escribiendo", !.tabla = t,
                          !.pendientes = @ \ {t}]
  /\ UNCHANGED <<memtable, archivos, sel, comp, vivo, historia>>

EscribirTmp_SinDesbloquear ==
  LET t == dump.tabla
  IN  /\ vivo /\ dump.pc = "escribiendo"
      /\ tmp' = [tmp EXCEPT ![t] = Append(@, ArchivoEscrito(memtable[t]))]
      /\ bitmap' = bitmap \cup ArchivoEscrito(memtable[t]).bloques
      /\ sinBloques' = (sinBloques \/ FaltanBloques(memtable[t]))
      /\ dump' = [dump EXCEPT !.pc = "recorriendo"]
      /\ UNCHANGED <<memtable, tmpc, bin, sinTmp, mutex, sel, comp, vivo, historia>>

\* opendir or fopen(pathTmp, "a+") fails: ERROR_CREANDO_ARCHIVO at most, which
\* hiloDump only logs; the dump goes on to the next table and TerminarDump
\* empties the memtable of this one too.
SaltearTabla(t) ==
  /\ vivo /\ dump.pc = "recorriendo" /\ t \in dump.pendientes
  /\ dump' = [dump EXCEPT !.pendientes = @ \ {t}]
  /\ sinTmp' = TRUE
  /\ UNCHANGED <<memtable, tmp, tmpc, bin, bitmap, sinBloques, mutex, sel, comp,
                 vivo, historia>>

\* The dump has the mutex of the table and fopen gives a file or does not.
VisitarTabla(t) ==
  AbrirTmp(t) \/ (mutex[t][IdDump] = "libre" /\ SaltearTabla(t))

\* The blocks are filled, the N.tmp is completed and the table unlocked.
EscribirTmp ==
  LET t == dump.tabla
  IN  /\ vivo /\ dump.pc = "escribiendo"
      /\ tmp' = [tmp EXCEPT ![t] = Append(@, ArchivoEscrito(memtable[t]))]
      /\ bitmap' = bitmap \cup ArchivoEscrito(memtable[t]).bloques
      /\ sinBloques' = (sinBloques \/ FaltanBloques(memtable[t]))
      /\ mutex' = [mutex EXCEPT ![t][IdDump] = "libre"]
      /\ dump' = [dump EXCEPT !.pc = "recorriendo"]
      /\ UNCHANGED <<memtable, tmpc, bin, sinTmp, sel, comp, vivo, historia>>

\* Empties the memtable and unlocks it.
TerminarDump ==
  /\ vivo /\ dump.pc = "recorriendo" /\ dump.pendientes = {}
  /\ memtable' = [t \in Tablas |-> <<>>]
  /\ dump' = [dump EXCEPT !.pc = "dormido"]
  /\ UNCHANGED <<archivos, mutex, sel, comp, vivo, historia>>

------------------------------------------------------------------------------
(* compactar().                                                            *)

FinDeLista_SinElUltimo(t) == comp[t].i >= Len(CosasABloquear)
FinDeLista(t) == comp[t].i > Len(CosasABloquear)

ComenzarCompactacion(t) ==
  /\ vivo /\ comp[t].pc = "dormido"
  /\ comp' = [comp EXCEPT ![t].pc = "bloqueando1", ![t].i = 1]
  /\ UNCHANGED <<memtable, archivos, mutex, sel, dump, vivo, historia>>

\* One turn of the loop of setBlockTo(nombreTabla, 1).
Bloquear(t) ==
  LET id == CosasABloquear[comp[t].i]
  IN  /\ vivo /\ comp[t].pc \in {"bloqueando1", "bloqueando2"} /\ ~FinDeLista(t)
      /\ mutex[t][id] = "libre"
      /\ mutex' = [mutex EXCEPT ![t][id] = "compactador"]
      /\ comp' = [comp EXCEPT ![t].i = @ + 1]
      /\ UNCHANGED <<memtable, archivos, sel, dump, vivo, historia>>

\* One turn of the loop of setBlockTo(nombreTabla, 0).
Desbloquear(t) ==
  LET id == CosasABloquear[comp[t].i]
  IN  /\ vivo /\ comp[t].pc \in {"desbloqueando1", "desbloqueando2"} /\ ~FinDeLista(t)
      /\ mutex' = [mutex EXCEPT ![t][id] = "libre"]
      /\ comp' = [comp EXCEPT ![t].i = @ + 1]
      /\ UNCHANGED <<memtable, archivos, sel, dump, vivo, historia>>

\* renombrarTmp_a_TmpC.
Renombrar(t) ==
  /\ vivo /\ comp[t].pc = "bloqueando1" /\ FinDeLista(t)
  /\ tmpc' = [tmpc EXCEPT ![t] = Renombrados(@, tmp[t])]
  /\ tmp' = [tmp EXCEPT ![t] = <<>>]
  /\ comp' = [comp EXCEPT ![t].pc = "desbloqueando1", ![t].i = 1]
  /\ UNCHANGED <<memtable, bin, bitmap, sinBloques, sinTmp, mutex, sel, dump, vivo,
                 historia>>

\* leerDeTodosLosTmpC, leerDeTodasLasParticiones and the merge, with the table
\* unlocked: only this thread touches the files they read.
Mezclar(t) ==
  /\ vivo /\ comp[t].pc = "desbloqueando1" /\ FinDeLista(t)
  /\ RegistrosDe(tmpc[t]) # {}
  /\ \E m \in Mezclas(RegistrosDe(tmpc[t]), bin[t]) :
       comp' = [comp EXCEPT ![t] =
                  [pc |-> "bloqueando2", i |-> 1, nuevos |-> m,
                   porGuardar |-> Tocadas(RegistrosDe(tmpc[t]))]]
  /\ UNCHANGED <<memtable, archivos, mutex, sel, dump, vivo, historia>>

NadaQueCompactar(t) ==
  /\ vivo /\ comp[t].pc = "desbloqueando1" /\ FinDeLista(t)
  /\ RegistrosDe(tmpc[t]) = {}
  /\ comp' = [comp EXCEPT ![t].pc = "dormido", ![t].i = 1]
  /\ UNCHANGED <<memtable, archivos, mutex, sel, dump, vivo, historia>>

LiberarBloques_SinBorrar(t) ==
  LET tocadas == comp[t].porGuardar
  IN  /\ vivo /\ comp[t].pc = "bloqueando2" /\ FinDeLista(t)
      /\ bitmap' = bitmap \ (BloquesDe(tmpc[t]) \cup
                             UNION {bin[t][p].bloques : p \in tocadas})
      /\ bin' = [bin EXCEPT ![t] =
           [p \in Particiones |->
              IF p \in tocadas
                THEN [registros |-> <<>>, bloques |-> bin[t][p].bloques]
                ELSE bin[t][p]]]
      /\ comp' = [comp EXCEPT ![t].pc = "guardando"]
      /\ UNCHANGED <<memtable, tmp, tmpc, sinBloques, sinTmp, mutex, sel, dump,
                     vivo, historia>>

\* liberarBloquesDeTmpCyParticiones: the .tmpc files go, and the blocks of the
\* touched partitions are emptied; their BLOCKS list is not updated yet.
LiberarBloques(t) ==
  LET tocadas == comp[t].porGuardar
  IN  /\ vivo /\ comp[t].pc = "bloqueando2" /\ FinDeLista(t)
      /\ bitmap' = bitmap \ (BloquesDe(tmpc[t]) \cup
                             UNION {bin[t][p].bloques : p \in tocadas})
      /\ tmpc' = [tmpc EXCEPT ![t] = <<>>]
      /\ bin' = [bin EXCEPT ![t] =
           [p \in Particiones |->
              IF p \in tocadas
                THEN [registros |-> <<>>, bloques |-> bin[t][p].bloques]
                ELSE bin[t][p]]]
      /\ comp' = [comp EXCEPT ![t].pc = "guardando"]
      /\ UNCHANGED <<memtable, tmp, sinBloques, sinTmp, mutex, sel, dump, vivo,
                     historia>>

\* guardarDatosNuevos, one partition.
GuardarParticion(t, p) ==
  LET archivo == ArchivoEscrito(comp[t].nuevos[p])
  IN  /\ vivo /\ comp[t].pc = "guardando" /\ p \in comp[t].porGuardar
      /\ bin' = [bin EXCEPT ![t][p] = archivo]
      /\ bitmap' = bitmap \cup archivo.bloques
      /\ sinBloques' = (sinBloques \/ FaltanBloques(comp[t].nuevos[p]))
      /\ comp' = [comp EXCEPT ![t].nuevos[p] = <<>>, ![t].porGuardar = @ \ {p}]
      /\ UNCHANGED <<memtable, tmp, tmpc, sinTmp, mutex, sel, dump, vivo, historia>>

Guardado(t) ==
  /\ vivo /\ comp[t].pc = "guardando" /\ comp[t].porGuardar = {}
  /\ comp' = [comp EXCEPT ![t].pc = "desbloqueando2", ![t].i = 1]
  /\ UNCHANGED <<memtable, archivos, mutex, sel, dump, vivo, historia>>

TerminarCompactacion(t) ==
  /\ vivo /\ comp[t].pc = "desbloqueando2" /\ FinDeLista(t)
  /\ comp' = [comp EXCEPT ![t].pc = "dormido", ![t].i = 1]
  /\ UNCHANGED <<memtable, archivos, mutex, sel, dump, vivo, historia>>

\* The process is dead: nothing moves any more.
Caido == ~vivo /\ UNCHANGED vars

------------------------------------------------------------------------------
AccionesDeCliente(c) ==
  \/ \E t \in Tablas, r \in Registro : Insertar(c, t, r)
  \/ \E t \in Tablas, k \in Claves : PedirSelect(c, t, k)
  \/ LeerMemtable(c)
  \/ BloquearPropio(c)
  \/ LeerTmp(c)
  \/ LeerTmpIncompleto(c)
  \/ LeerParticion(c)
  \/ Responder(c)
  \/ Enviar(c)

AccionesDeDump ==
  \/ ComenzarDump
  \/ \E t \in Tablas : AbrirTmp(t) \/ SaltearTabla(t)
  \/ EscribirTmp
  \/ TerminarDump

AccionesDeCompactacion(t) ==
  \/ ComenzarCompactacion(t)
  \/ Bloquear(t)
  \/ Desbloquear(t)
  \/ Renombrar(t)
  \/ Mezclar(t)
  \/ NadaQueCompactar(t)
  \/ LiberarBloques(t)
  \/ \E p \in Particiones : GuardarParticion(t, p)
  \/ Guardado(t)
  \/ TerminarCompactacion(t)

Next ==
  \/ \E c \in Clientes : AccionesDeCliente(c)
  \/ AccionesDeDump
  \/ \E t \in Tablas : AccionesDeCompactacion(t)
  \/ Caido

Spec == Init /\ [][Next]_vars

\* Mutexes are contended for, the rest of a thread's steps are not; INSERT and
\* SELECT arrive as the clients please.
Fairness ==
  /\ \A c \in Clientes :
       /\ SF_vars(LeerMemtable(c)) /\ SF_vars(BloquearPropio(c))
       /\ WF_vars(LeerTmp(c)) /\ WF_vars(LeerParticion(c))
       /\ WF_vars(LeerTmpIncompleto(c))
       /\ WF_vars(Responder(c)) /\ WF_vars(Enviar(c))
  /\ WF_vars(ComenzarDump) /\ WF_vars(EscribirTmp) /\ WF_vars(TerminarDump)
  /\ \A t \in Tablas :
       /\ SF_vars(VisitarTabla(t)) /\ SF_vars(Bloquear(t))
       /\ WF_vars(AccionesDeCompactacion(t))

FairSpec == Spec /\ Fairness

------------------------------------------------------------------------------
(* Type invariant.                                                         *)

PcDeSelect == {"ocioso", "pedido", "esperaMutex", "leeTmp", "leeParticion",
               "leyo", "respondido"}
PcDeCompactacion == {"dormido", "bloqueando1", "desbloqueando1",
                     "bloqueando2", "guardando", "desbloqueando2"}

EstadosDeMutex == {"libre", "propio", "compactador"}

EstadosDeSelect ==
  [pc : PcDeSelect, tabla : Tablas, key : Claves, leidos : SUBSET Timestamps,
   debidos : SUBSET Timestamps, respuesta : Timestamps \cup {KEY_NO_EXISTE}]

EstadosDeDump ==
  [pc : {"dormido", "recorriendo", "escribiendo"}, tabla : Tablas,
   pendientes : SUBSET Tablas]

EstadosDeCompactacion ==
  [pc : PcDeCompactacion, i : 1..(Len(CosasABloquear) + 1),
   nuevos : [Particiones -> Seq(Registro)], porGuardar : SUBSET Particiones]

\* Every variable keeps its type: blocks are blocks of the disk, indices stay
\* within the list of mutexes.
TypeOK ==
  /\ memtable \in [Tablas -> Seq(Registro)]
  /\ tmp \in [Tablas -> Seq(Archivo)]
  /\ tmpc \in [Tablas -> Seq(Archivo)]
  /\ bin \in [Tablas -> [Particiones -> Archivo]]
  /\ bitmap \subseteq Bloques
  /\ sinBloques \in BOOLEAN
  /\ sinTmp \in BOOLEAN
  /\ mutex \in [Tablas -> [Ids -> EstadosDeMutex]]
  /\ sel \in [Clientes -> EstadosDeSelect]
  /\ dump \in EstadosDeDump
  /\ comp \in [Tablas -> EstadosDeCompactacion]
  /\ vivo \in BOOLEAN
  /\ insertados \in [Tablas -> SUBSET Registro]
  /\ cantInserts \in Nat

------------------------------------------------------------------------------
(* Mutual exclusion.                                                       *)

Leyendo(c, t) ==
  sel[c].tabla = t /\ sel[c].pc \in {"leeTmp", "leeParticion", "leyo"}

\* The compactor has every mutex of the table and is changing its files.
Reescribiendo(t) ==
  \/ comp[t].pc \in {"bloqueando1", "bloqueando2"} /\ FinDeLista(t)
  \/ comp[t].pc = "guardando"

\* Nobody reads a table's files, and the dump is not in the middle of a .tmp of
\* it, while the compactor renames, frees or rewrites them: what the list of
\* one mutex per client (t_bloqueo) is for.
Exclusion ==
  \A t \in Tablas : Reescribiendo(t) =>
    ~TmpIncompleto(t) /\ \A c \in Clientes : ~Leyendo(c, t)

------------------------------------------------------------------------------
(* Data.                                                                   *)

\* Between LiberarBloques and GuardarParticion the only copy of a partition is
\* in the memory of the compaction thread.
EnPreparacion(t) == UNION {Range(comp[t].nuevos[p]) : p \in Particiones}

EnVuelo(t) == IF comp[t].pc = "guardando" THEN EnPreparacion(t) ELSE {}

EnParticiones(t) == UNION {Range(bin[t][p].registros) : p \in Particiones}

EnArchivos(t) == EnTemporales(t) \cup EnParticiones(t) \cup EnVuelo(t)

EnTabla(t) == Range(memtable[t]) \cup EnArchivos(t)

Cubre(rs, r) == \E q \in rs : q.key = r.key /\ q.timestamp >= r.timestamp

\* The two ways a record of the memtable does not reach the disk, both only
\* logged: no block was free, or its N.tmp could not be opened.
NadaSalteado == ~sinBloques /\ ~sinTmp

\* An acknowledged INSERT is never lost: at every moment the memtable and the
\* files hold it or a newer record of its key, unless blocks ran out or a dump
\* could not open its .tmp.
NadaSePierde ==
  NadaSalteado =>
    \A t \in Tablas : \A r \in insertados[t] : Cubre(EnTabla(t), r)

\* A SELECT answers with a record at least as new as every INSERT of the key
\* that had succeeded when it arrived, whatever the dump and the compactor do
\* while it reads, unless a dump has dropped records (no blocks, no .tmp); it is
\* why procesarSelect copies the memtable first.
Frescura ==
  NadaSalteado =>
    \A c \in Clientes : sel[c].pc = "respondido" =>
      \A d \in sel[c].debidos : sel[c].respuesta >= d

\* Nothing is read, moved or answered that was not inserted in that table.
NadaInventado ==
  /\ \A t \in Tablas : EnTabla(t) \subseteq insertados[t]
  /\ \A c \in Clientes : sel[c].pc = "respondido" =>
       sel[c].respuesta \in
         TimestampsDe(insertados[sel[c].tabla], sel[c].key) \cup {KEY_NO_EXISTE}

\* In a partition the first record of a key is its newest, which is what lets
\* the merge look only at the first (list_find).
PrimeroEsElMayor ==
  \A t \in Tablas, p \in Particiones :
    LET rs == bin[t][p].registros
    IN  \A j \in DOMAIN rs :
          rs[Min(ConClave(rs, {rs[j].key}))].timestamp >= rs[j].timestamp

------------------------------------------------------------------------------
(* Refinement.                                                             *)

Pedido(s) ==
  CASE s.pc = "ocioso" -> [estado |-> "ninguno"]
    [] s.pc = "respondido" -> [estado |-> "respondido", respuesta |-> s.respuesta]
    [] OTHER -> [estado |-> "pendiente", tabla |-> s.tabla, key |-> s.key,
                 debidos |-> s.debidos]

Abstracta == INSTANCE TablaAbstracta WITH
  pedido <- [c \in Clientes |-> Pedido(sel[c])],
  degradado <- ~NadaSalteado

\* The threads and the files together behave as the table of TablaAbstracta:
\* each answer is given as if SELECT had looked, at one moment between its
\* arrival and its answer, at records at least as new as those it owed.
ImplementaTabla == Abstracta!Spec

------------------------------------------------------------------------------
(* Blocks.                                                                 *)

\* A partition whose blocks were freed lists them until it is rewritten.
EnReescritura(t, p) == comp[t].pc = "guardando" /\ p \in comp[t].porGuardar

ListasDeBloques ==
  (UNION {{<<"bin", t, p>> : p \in {q \in Particiones : ~EnReescritura(t, q)}} :
            t \in Tablas})
    \cup (UNION {{<<"tmp", t, i>> : i \in DOMAIN tmp[t]} : t \in Tablas})
    \cup (UNION {{<<"tmpc", t, i>> : i \in DOMAIN tmpc[t]} : t \in Tablas})

BloquesListados(l) ==
  CASE l[1] = "bin" -> bin[l[2]][l[3]].bloques
    [] l[1] = "tmp" -> tmp[l[2]][l[3]].bloques
    [] l[1] = "tmpc" -> tmpc[l[2]][l[3]].bloques

\* The bitmap is exact: a block is marked exactly when a file lists it, and no
\* two files of any tables list the same block.
BitmapExacto ==
  /\ bitmap = UNION {BloquesListados(l) : l \in ListasDeBloques}
  /\ \A l, m \in ListasDeBloques :
       l # m => BloquesListados(l) \cap BloquesListados(m) = {}

------------------------------------------------------------------------------
(* What the comments promise and the code does not do.                     *)

\* Compactador.c:87: the merge keeps the highest timestamp of a repeated key;
\* so no partition holds a key twice.
SinClavesRepetidas ==
  \A t \in Tablas, p \in Particiones :
    LET rs == bin[t][p].registros
    IN  \A i, j \in DOMAIN rs : rs[i].key = rs[j].key => i = j

\* Dump.c:50: the dump takes the data of the memtable to disk; here, a dump that
\* opened every .tmp, which returns SUCCESS and is logged as successful.
DumpBajaLosDatos ==
  [][\A t \in Tablas : ~sinTmp /\ memtable[t] # <<>> /\ memtable'[t] = <<>> =>
       \A r \in Range(memtable[t]) : Cubre(EnArchivos(t), r)]_vars

------------------------------------------------------------------------------
(* Liveness.                                                               *)

\* Every SELECT is answered, as long as the process lives.
SelectTermina ==
  \A c \in Clientes : sel[c].pc = "pedido" ~> (sel[c].pc = "respondido" \/ ~vivo)

\* What is in the memtable is taken out of it by a dump, which always ends.
MemtableSeVacia ==
  \A t \in Tablas : memtable[t] # <<>> ~> (memtable[t] = <<>> \/ ~vivo)

\* Every .tmp is eventually compacted.
TmpSeCompacta ==
  \A t \in Tablas :
    tmp[t] # <<>> ~> ((tmp[t] = <<>> /\ tmpc[t] = <<>>) \/ ~vivo \/ sinBloques)

------------------------------------------------------------------------------
(* Inductive invariants: what makes the properties above hold.             *)

\* The compactor has the j-th mutex of the table.
EnPoderDelCompactador(t, j) ==
  \/ comp[t].pc \in {"bloqueando1", "bloqueando2"} /\ j < comp[t].i
  \/ comp[t].pc = "guardando"
  \/ comp[t].pc \in {"desbloqueando1", "desbloqueando2"} /\ j >= comp[t].i

\* Whoever is inside a critical section has its mutex.
MutexInv ==
  \A t \in Tablas :
    /\ \A c \in Clientes : Leyendo(c, t) => mutex[t][c] = "propio"
    /\ TmpIncompleto(t) => mutex[t][IdDump] = "propio"
    /\ \A j \in 1..Len(CosasABloquear) :
         EnPoderDelCompactador(t, j) => mutex[t][CosasABloquear[j]] = "compactador"

Datos(t) ==
  Range(memtable[t]) \cup EnTemporales(t) \cup EnParticiones(t) \cup EnPreparacion(t)

\* What a client has read, answers or owes comes from an INSERT.
OrigenDeSelect(c) ==
  LET ts == TimestampsDe(insertados[sel[c].tabla], sel[c].key)
  IN  /\ sel[c].leidos \subseteq ts /\ sel[c].debidos \subseteq ts
      /\ sel[c].pc = "respondido" => sel[c].respuesta \in ts \cup {KEY_NO_EXISTE}

\* Everything anywhere comes from an INSERT in its table.
OrigenInv ==
  /\ \A t \in Tablas : Datos(t) \subseteq insertados[t]
  /\ \A c \in Clientes : OrigenDeSelect(c)

\* Every record of the list is of a key of the partition.
EsDeSusClaves(rs, p) == \A q \in Range(rs) : Particion(q.key) = p

\* The lists a merge has prepared stand for the files it is about to free.
MezclaLista(t) ==
  /\ Tocadas(RegistrosDe(tmpc[t])) \subseteq comp[t].porGuardar
  /\ \A p \in comp[t].porGuardar :
       \A r \in RegistrosDe(tmpc[t]) \cup Range(bin[t][p].registros) :
         Particion(r.key) = p => Cubre(Range(comp[t].nuevos[p]), r)

\* What the files and the compaction in progress hold, phase by phase.
ArchivosDeTabla(t) ==
  /\ \A p \in Particiones : /\ EsDeSusClaves(bin[t][p].registros, p)
                            /\ EsDeSusClaves(comp[t].nuevos[p], p)
  /\ comp[t].pc \notin {"desbloqueando1", "bloqueando2"} => RegistrosDe(tmpc[t]) = {}
  /\ \A p \in Particiones : EnReescritura(t, p) => bin[t][p].registros = <<>>
  /\ comp[t].pc \in {"bloqueando2", "guardando"} =>
       \A p \in Particiones \ comp[t].porGuardar : comp[t].nuevos[p] = <<>>
  /\ comp[t].pc = "bloqueando2" => MezclaLista(t)

ArchivosInv == \A t \in Tablas : ArchivosDeTabla(t)

\* The records of a table that the dump has already taken are in its files.
DumpInv ==
  NadaSalteado /\ dump.pc # "dormido" =>
    \A t \in Tablas \ dump.pendientes : ~TmpIncompleto(t) =>
      \A r \in Range(memtable[t]) : Cubre(EnArchivos(t), r)

\* What the SELECT of a client has read or is still to read.
Alcanzables(c) ==
  LET t == sel[c].tabla
      k == sel[c].key
  IN  sel[c].leidos \cup
        CASE sel[c].pc \in {"esperaMutex", "leeTmp"} -> TimestampsDe(EnArchivos(t), k)
          [] sel[c].pc = "leeParticion" -> TimestampsDe(EnParticiones(t), k)
          [] OTHER -> {}

\* At each point of its way a SELECT can still see what it owes.
AlDia(c) ==
  /\ sel[c].pc \in {"esperaMutex", "leeTmp", "leeParticion", "leyo"} =>
       \A d \in sel[c].debidos : \E x \in Alcanzables(c) : x >= d
  /\ sel[c].pc = "respondido" => \A d \in sel[c].debidos : sel[c].respuesta >= d

SelectInv == NadaSalteado => \A c \in Clientes : AlDia(c)
==============================================================================
