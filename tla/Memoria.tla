------------------------------- MODULE Memoria -------------------------------
(***************************************************************************)
(* A memory process (memoria/memoria.c): a cache of pages, grouped in one  *)
(* segment per table, over a fixed number of frames, in front of the file  *)
(* system.  Three threads share it:                                        *)
(*                                                                         *)
(*   - "kernel": escucharMultiplesClientes, which serves the kernels one   *)
(*     request at a time;                                                  *)
(*   - "consola": leerDeConsola;                                           *)
(*   - "journal": hacerJournal, the automatic journal.                     *)
(*                                                                         *)
(* The value of an INSERT is the number of its request.  The file system   *)
(* is its table of newest records, and the connection a queue of answers.  *)
(* What the code does under the mutex of a segment is one step.            *)
(***************************************************************************)
EXTENDS Integers, Sequences, SequencesExt, FiniteSets

CONSTANTS
  Tablas, Claves,
  MarcosTotales,    \* frames of the memory
  Hilos,            \* the threads that run
  Operaciones,      \* the requests that are made
  TablasDeLFS,      \* the tables the file system starts with
  ClavesDeLFS,      \* the keys each of them starts with
  MaxPedidos,       \* bound: requests in a behaviour
  MaxCaidas         \* bound: falls of the file system in a behaviour

Clientes == Hilos \ {"journal"}
Marcos == 0..(MarcosTotales - 1)

SIN_VALOR == -1
COMPONENTE_CAIDO == -2
NADIE == "nadie"

ASSUME DatosAssumption == Tablas # {} /\ Claves # {}
ASSUME MarcosAssumption == MarcosTotales \in Nat \ {0}
ASSUME HilosAssumption == Hilos \subseteq {"kernel", "consola", "journal"}
ASSUME OperacionesAssumption ==
  Operaciones \subseteq {"SELECT", "INSERT", "CREATE", "DESCRIBE", "DROP", "JOURNAL"}
ASSUME DeLFSAssumption == TablasDeLFS \subseteq Tablas /\ ClavesDeLFS \subseteq Claves
ASSUME CotasAssumption == MaxPedidos \in Nat /\ MaxCaidas \in Nat

VARIABLES
  segmentos,   \* tablaDeSegmentos: the id and the table of each segment
  paginas,     \* the elements of their tablaDePagina
  marcos,      \* what each frame holds
  bits,        \* the frames whose bit is set in the bitarray
  mutex,       \* who has semMKERNEL, semMCONSOLA and semMJOURNAL
  est,         \* what each thread is doing
  conexion,    \* conexionLfs
  rotas,       \* the connections that the file system let fall
  deLFS,       \* the answers on their way, in order
  lfs,         \* the file system is up
  enLFS,       \* what it holds
  hora,        \* obtenerHoraActual, which always advances
  vivo,        \* the process has not made an invalid access
  pedidos,     \* history: how many requests were made
  caidas,      \* history: how many times the file system fell
  vigente,     \* history: the value each key was last given
  pisada       \* history: an INSERT took a page without writing it

cache == <<segmentos, paginas, marcos, bits>>
fs == <<conexion, rotas, deLFS, lfs, enLFS>>
historia == <<pedidos, caidas, vigente, pisada>>
vars == <<cache, mutex, est, fs, hora, vivo, historia>>

------------------------------------------------------------------------------
(* Segments and pages.                                                     *)

Indices(t) == {i \in DOMAIN segmentos : segmentos[i].tabla = t}

\* list_find: the first segment of the table, or 0.
Segmento(t) == IF Indices(t) = {} THEN 0 ELSE segmentos[Min(Indices(t))].id

EnUso == {segmentos[i].id : i \in DOMAIN segmentos}

\* An address that nobody holds.
IdLibre ==
  LET tomados == EnUso \cup UNION {{est[h].seg, est[h].victima} : h \in Hilos}
  IN  Min(1..(Cardinality(tomados) + 1) \ tomados)

PaginasDe(s, k) == {p \in paginas : p.seg = s /\ marcos[p.marco].key = k}

\* correrAlgoritmoLRU: the unmodified pages with the lowest timestamp.
SinModificar_DelPrimero ==
  {p \in paginas : ~p.modificado /\ p.seg = segmentos[1].id}
SinModificar_Todas == paginas
SinModificar == {p \in paginas : ~p.modificado}

Victimas ==
  {p \in SinModificar : \A q \in SinModificar :
     marcos[p.marco].timestamp <= marcos[q.marco].timestamp}

------------------------------------------------------------------------------
(* The file system, as its answers show it (lfs/API.c).                    *)

Inexistente == [existe |-> FALSE, datos |-> [k \in Claves |-> [valor |-> SIN_VALOR, ts |-> -1]]]
Vacia == [Inexistente EXCEPT !.existe = TRUE]

\* procesarCreate, procesarInsert, procesarSelect, procesarDrop.
CodigoDeLFS(m) ==
  IF m.op = "CREATE" /\ enLFS[m.tabla].existe THEN "TABLA_EXISTE"
  ELSE IF m.op # "CREATE" /\ ~enLFS[m.tabla].existe THEN "TABLA_NO_EXISTE"
  ELSE IF m.op = "SELECT" /\ enLFS[m.tabla].datos[m.key].valor = SIN_VALOR THEN "KEY_NO_EXISTE"
  ELSE "SUCCESS"

\* A record counts if none of its key is newer.
LFSDespuesDe(m) ==
  IF CodigoDeLFS(m) # "SUCCESS" THEN enLFS
  ELSE CASE m.op = "INSERT" /\ m.ts >= enLFS[m.tabla].datos[m.key].ts ->
              [enLFS EXCEPT ![m.tabla].datos[m.key] = [valor |-> m.valor, ts |-> m.ts]]
         [] m.op = "CREATE" -> [enLFS EXCEPT ![m.tabla] = Vacia]
         [] m.op = "DROP" -> [enLFS EXCEPT ![m.tabla] = Inexistente]
         [] OTHER -> enLFS

Respuesta(h, fd, m) ==
  LET dato == enLFS[m.tabla].datos[m.key]
  IN  [fd |-> fd, para |-> h, op |-> m.op, cod |-> CodigoDeLFS(m), tabla |-> m.tabla,
       key |-> m.key, valor |-> dato.valor, ts |-> dato.ts]

------------------------------------------------------------------------------
UnaTabla == CHOOSE t \in Tablas : TRUE
UnaClave == CHOOSE k \in Claves : TRUE

\* seg is the segment that estaEnMemoria found (0: SEGMENTOINEXISTENTE), and
\* victima the segment the page that is being replaced was in (0: the frame
\* was free).
Ocioso ==
  [pc |-> "ocioso", op |-> "SELECT", tabla |-> UnaTabla, key |-> UnaClave,
   valor |-> SIN_VALOR, ec |-> TRUE, i |-> 1, seg |-> 0, victima |-> 0,
   marco |-> 0, ts |-> 0, fd |-> 0, propia |-> FALSE, ajena |-> FALSE,
   visitadas |-> {}, cod |-> "SUCCESS"]

\* inicializarMemoria leaves no segment and every frame free.
CacheVacia ==
  /\ segmentos = <<>> /\ paginas = {} /\ bits = {}
  /\ marcos = [m \in Marcos |-> [key |-> UnaClave, valor |-> SIN_VALOR, timestamp |-> 0]]

InicioDeLFS(t) ==
  [existe |-> t \in TablasDeLFS,
   datos |-> [k \in Claves |-> IF t \in TablasDeLFS /\ k \in ClavesDeLFS
                               THEN [valor |-> 0, ts |-> 0] ELSE Vacia.datos[k]]]

NadieSirve ==
  /\ mutex = [m \in {"kernel", "consola", "journal"} |-> NADIE]
  /\ est = [h \in Hilos |-> Ocioso]
  /\ conexion = 1 /\ rotas = {} /\ deLFS = <<>> /\ lfs = TRUE
  /\ enLFS = [t \in Tablas |-> InicioDeLFS(t)]
  /\ hora = 0 /\ vivo = TRUE
  /\ pedidos = 0 /\ caidas = 0 /\ pisada = FALSE
  /\ vigente = [t \in Tablas |-> [k \in Claves |-> enLFS[t].datos[k].valor]]

Init == CacheVacia /\ NadieSirve

\* The thread goes on at pc with these fields of its request changed.
Sigue(h, pc, e) == est' = [est EXCEPT ![h] = [e EXCEPT !.pc = pc]]
Responde(h, cod, e) == Sigue(h, "responde", [e EXCEPT !.cod = cod])

------------------------------------------------------------------------------
(* Requests and their mutexes.                                             *)

\* Only SELECT and INSERT name a key, and JOURNAL does not name a table.
Argumentos(op, t, k) ==
  /\ op \notin {"SELECT", "INSERT"} => k = UnaClave
  /\ op = "JOURNAL" => t = UnaTabla

\* A request arrives from a kernel, with the consistency of its table, or from
\* the console, which asks as EC.
Recibir(h, op, t, k) ==
  /\ vivo /\ est[h].pc = "ocioso" /\ pedidos < MaxPedidos /\ Argumentos(op, t, k)
  /\ pedidos' = pedidos + 1
  /\ \E ec \in (IF h = "kernel" /\ op = "DROP" THEN BOOLEAN ELSE {TRUE}) :
       Sigue(h, "toma", [Ocioso EXCEPT !.op = op, !.tabla = t, !.key = k, !.ec = ec,
                                       !.valor = pedidos + 1])
  /\ UNCHANGED <<cache, mutex, fs, hora, vivo, caidas, vigente, pisada>>

\* hacerJournal, at the end of its sleep.
EmpezarJournal ==
  /\ vivo /\ "journal" \in Hilos /\ est["journal"].pc = "ocioso"
  /\ Sigue("journal", "toma", [Ocioso EXCEPT !.op = "JOURNAL"])
  /\ UNCHANGED <<cache, mutex, fs, hora, vivo, historia>>

\* The mutexes of interpretarRequest and procesarJournal, in the order they
\* are taken and released.
MutexDe_SinConsola(h) == IF est[h].op = "JOURNAL" THEN <<"kernel", "journal">> ELSE <<h>>
MutexDe_OtroOrden(h) ==
  CASE est[h].op # "JOURNAL" -> <<h>>
    [] h = "consola" -> <<"consola", "kernel", "journal">>
    [] OTHER -> <<"kernel", "consola", "journal">>
MutexDe(h) ==
  IF est[h].op = "JOURNAL" THEN <<"kernel", "consola", "journal">> ELSE <<h>>

Primero(op) ==
  CASE op \in {"SELECT", "INSERT"} -> "busca"
    [] op = "JOURNAL" -> "recorre"
    [] OTHER -> "envia"

Tomar(h) ==
  LET e == est[h]
      m == MutexDe(h)[e.i]
  IN  /\ vivo /\ e.pc = "toma" /\ mutex[m] = NADIE
      /\ mutex' = [mutex EXCEPT ![m] = h]
      /\ IF e.i = Len(MutexDe(h)) THEN Sigue(h, Primero(e.op), [e EXCEPT !.i = 1])
                                  ELSE Sigue(h, "toma", [e EXCEPT !.i = @ + 1])
      /\ UNCHANGED <<cache, fs, hora, vivo, historia>>

\* validarValue, of an INSERT of a kernel.
RechazarValor(h) ==
  /\ vivo /\ h = "kernel" /\ est[h].pc = "busca" /\ est[h].op = "INSERT"
  /\ Responde(h, "VALUE_INVALIDO", est[h])
  /\ UNCHANGED <<cache, mutex, fs, hora, vivo, historia>>

\* enviarAlDestinatarioCorrecto.
Responder(h) ==
  /\ vivo /\ est[h].pc = "responde"
  /\ Sigue(h, "suelta", [Ocioso EXCEPT !.op = est[h].op])
  /\ UNCHANGED <<cache, mutex, fs, hora, vivo, historia>>

\* The mutexes are given back, one after the other and nothing in between.
Soltar(h) ==
  /\ vivo /\ est[h].pc = "suelta"
  /\ mutex' = [m \in DOMAIN mutex |-> IF m \in Range(MutexDe(h)) THEN NADIE ELSE mutex[m]]
  /\ est' = [est EXCEPT ![h] = Ocioso]
  /\ UNCHANGED <<cache, fs, hora, vivo, historia>>

------------------------------------------------------------------------------
(* SELECT and INSERT: estaEnMemoria.                                       *)

DespuesDeBuscar(h, e) ==
  Sigue(h, IF e.op = "SELECT" THEN "envia" ELSE "pideMarco", e)

BuscarSegmento(h) ==
  LET e == est[h]
      s == Segmento(e.tabla)
  IN  /\ vivo /\ e.pc = "busca"
      /\ IF s = 0 THEN DespuesDeBuscar(h, e)
                  ELSE Sigue(h, "buscaPagina", [e EXCEPT !.seg = s])
      /\ UNCHANGED <<cache, mutex, fs, hora, vivo, historia>>

\* A segment that a DROP has freed is used all the same: whatever happens then
\* is not modelled.
Invalido == vivo' = FALSE /\ UNCHANGED <<cache, mutex, est, fs, hora, historia>>

SegmentoLiberado(h) ==
  /\ vivo /\ est[h].pc = "buscaPagina" /\ est[h].seg \notin EnUso
  /\ Invalido

FaltaPagina(h) ==
  LET e == est[h]
  IN  /\ vivo /\ e.pc = "buscaPagina" /\ e.seg \in EnUso /\ PaginasDe(e.seg, e.key) = {}
      /\ DespuesDeBuscar(h, e)
      /\ UNCHANGED <<cache, mutex, fs, hora, vivo, historia>>

\* procesarSelect, of a page in the cache: it is used now.
LeerPagina(h) ==
  LET e == est[h]
  IN  /\ vivo /\ e.pc = "buscaPagina" /\ e.op = "SELECT" /\ e.seg \in EnUso
      /\ \E p \in PaginasDe(e.seg, e.key) :
           /\ marcos' = [marcos EXCEPT ![p.marco].timestamp = hora + 1]
           /\ Responde(h, "SUCCESS", [e EXCEPT !.valor = marcos[p.marco].valor])
      /\ hora' = hora + 1
      /\ UNCHANGED <<segmentos, paginas, bits, mutex, fs, vivo, historia>>

\* actualizarElementoEnTablaDePagina.
ActualizarPagina_SinMarcar(h) ==
  LET e == est[h]
  IN  /\ vivo /\ e.pc = "buscaPagina" /\ e.op = "INSERT" /\ e.seg \in EnUso
      /\ \E p \in PaginasDe(e.seg, e.key) :
           marcos' = [marcos EXCEPT ![p.marco] =
             [key |-> e.key, valor |-> e.valor, timestamp |-> hora + 1]]
      /\ vigente' = [vigente EXCEPT ![e.tabla][e.key] = e.valor]
      /\ Responde(h, "SUCCESS", e)
      /\ hora' = hora + 1
      /\ UNCHANGED <<segmentos, paginas, bits, mutex, fs, vivo, pedidos, caidas, pisada>>

ActualizarPagina(h) ==
  LET e == est[h]
  IN  /\ vivo /\ e.pc = "buscaPagina" /\ e.op = "INSERT" /\ e.seg \in EnUso
      /\ \E p \in PaginasDe(e.seg, e.key) :
           /\ marcos' = [marcos EXCEPT ![p.marco] =
                [key |-> e.key, valor |-> e.valor, timestamp |-> hora + 1]]
           /\ paginas' = (paginas \ {p}) \cup {[p EXCEPT !.modificado = TRUE]}
      /\ vigente' = [vigente EXCEPT ![e.tabla][e.key] = e.valor]
      /\ Responde(h, "SUCCESS", e)
      /\ hora' = hora + 1
      /\ UNCHANGED <<segmentos, bits, mutex, fs, vivo, pedidos, caidas, pisada>>

------------------------------------------------------------------------------
(* A frame for a page: obtenerPaginaDisponible and correrAlgoritmoLRU.     *)

MarcosLibres_UnoDeMas == (0..MarcosTotales) \ bits

\* obtenerIndiceMarcoDisponible: the frames whose bit is clear.
MarcosLibres == Marcos \ bits

\* The first free frame; it is marked when the page is stored.  An INSERT reads the
\* clock now; a SELECT has the timestamp of its record.
PedirMarco(h) ==
  LET e == [est[h] EXCEPT !.ts = IF est[h].op = "INSERT" THEN hora + 1 ELSE @]
  IN  /\ vivo /\ e.pc = "pideMarco"
      /\ hora' = IF e.op = "INSERT" THEN hora + 1 ELSE hora
      /\ IF MarcosLibres # {} THEN Sigue(h, "guarda", [e EXCEPT !.marco = Min(MarcosLibres)])
                              ELSE Sigue(h, "eligeVictima", e)
      /\ UNCHANGED <<cache, mutex, fs, vivo, historia>>

\* The walk over the segments is one step.
ElegirVictima(h) ==
  LET e == est[h]
  IN  /\ vivo /\ e.pc = "eligeVictima"
      /\ \E p \in Victimas :
           Sigue(h, "desvincula", [e EXCEPT !.victima = p.seg, !.marco = p.marco])
      /\ UNCHANGED <<cache, mutex, fs, hora, vivo, historia>>

MemoriaFull(h) ==
  /\ vivo /\ est[h].pc = "eligeVictima" /\ Victimas = {}
  /\ Responde(h, "MEMORIA_FULL", est[h])
  /\ UNCHANGED <<cache, mutex, fs, hora, vivo, historia>>

\* desvincularVictimaDeSuSegmento: in each segment, the pages of that frame,
\* but one that follows another in its list is skipped.
PaginasDelMarco(m) == {p \in paginas : p.marco = m}

Desvincular_Nada(h) ==
  /\ vivo /\ est[h].pc = "desvincula" /\ est[h].victima \in EnUso
  /\ Sigue(h, "guarda", est[h])
  /\ UNCHANGED <<cache, mutex, fs, hora, vivo, historia>>

Desvincular(h) ==
  LET e == est[h]
  IN  /\ vivo /\ e.pc = "desvincula" /\ e.victima \in EnUso
      /\ \E quitadas \in SUBSET PaginasDelMarco(e.marco) :
           /\ \A p \in PaginasDelMarco(e.marco) : \E q \in quitadas : q.seg = p.seg
           /\ paginas' = paginas \ quitadas
      /\ Sigue(h, "guarda", e)
      /\ UNCHANGED <<segmentos, marcos, bits, mutex, fs, hora, vivo, historia>>

VictimaLiberada(h) ==
  /\ vivo /\ est[h].pc = "desvincula" /\ est[h].victima \notin EnUso
  /\ Invalido

------------------------------------------------------------------------------
(* The page is stored: insertar and guardarRespuestaDeLFSaMemoria.         *)

\* modificarElem reads the clock; crearElementoEnTablaDePagina does not.
Contenido(e) ==
  [key |-> e.key, valor |-> e.valor,
   timestamp |-> IF e.victima # 0 THEN hora + 1 ELSE e.ts]

Avanza(e) == hora' = IF e.victima # 0 THEN hora + 1 ELSE hora

Pagina(s, e, modificado) ==
  [id |-> Min(1..(Cardinality(paginas) + 1) \ {p.id : p \in paginas}),
   seg |-> s, marco |-> e.marco, modificado |-> modificado]

Reconoce(e) ==
  vigente' = IF e.op = "INSERT" THEN [vigente EXCEPT ![e.tabla][e.key] = e.valor]
                                ELSE vigente

Escribe(h, s, e) ==
  /\ marcos' = [marcos EXCEPT ![e.marco] = Contenido(e)]
  /\ bits' = bits \cup {e.marco}
  /\ paginas' = paginas \cup {Pagina(s, e, e.op = "INSERT")}
  /\ Reconoce(e) /\ Avanza(e)
  /\ Responde(h, "SUCCESS", e)
  /\ UNCHANGED <<mutex, fs, vivo, pedidos, caidas, pisada>>

\* KEYINEXISTENTE: the segment is looked for again, by name.
GuardarEnSegmento(h) ==
  LET e == est[h]
  IN  /\ vivo /\ e.pc = "guarda" /\ e.seg # 0 /\ Segmento(e.tabla) # 0
      /\ Escribe(h, Segmento(e.tabla), e)
      /\ UNCHANGED segmentos

\* A DROP took it meanwhile: an INSERT dies on the NULL it is given; a SELECT
\* does not store its page, and does not give back the frame of a victim.
GuardarSinSegmento(h) ==
  LET e == est[h]
  IN  /\ vivo /\ e.pc = "guarda" /\ e.seg # 0 /\ Segmento(e.tabla) = 0
      /\ IF e.op = "INSERT" THEN Invalido
         ELSE /\ marcos' = IF e.victima = 0 THEN marcos
                           ELSE [marcos EXCEPT ![e.marco] = Contenido(e)]
              /\ bits' = IF e.victima = 0 THEN bits ELSE bits \cup {e.marco}
              /\ Avanza(e)
              /\ Responde(h, "SUCCESS", e)
              /\ UNCHANGED <<segmentos, paginas, mutex, fs, vivo, historia>>

\* SEGMENTOINEXISTENTE: the segment is created with the page.
GuardarEnNuevo(h) ==
  LET e == est[h]
  IN  /\ vivo /\ e.pc = "guarda" /\ e.seg = 0 /\ (e.op = "SELECT" \/ e.victima = 0)
      /\ segmentos' = Append(segmentos, [id |-> IdLibre, tabla |-> e.tabla])
      /\ Escribe(h, IdLibre, e)

\* An INSERT that creates its segment with the page of a victim never calls
\* modificarElem: the page keeps the key and the value of the victim.
GuardarVictimaIntacta(h) ==
  LET e == est[h]
  IN  /\ vivo /\ e.pc = "guarda" /\ e.seg = 0 /\ e.op = "INSERT" /\ e.victima # 0
      /\ segmentos' = Append(segmentos, [id |-> IdLibre, tabla |-> e.tabla])
      /\ paginas' = paginas \cup {Pagina(IdLibre, e, FALSE)}
      /\ pisada' = TRUE
      /\ Reconoce(e)
      /\ Responde(h, "SUCCESS", e)
      /\ UNCHANGED <<marcos, bits, mutex, fs, hora, vivo, pedidos, caidas>>

------------------------------------------------------------------------------
(* intercambiarConFileSystem.                                              *)

FdLibre ==
  LET tomados == {conexion} \cup rotas \cup {est[h].fd : h \in Hilos}
  IN  Min(1..(Cardinality(tomados) + 1) \ tomados)

Mensaje(e) ==
  [op |-> IF e.op = "JOURNAL" THEN "INSERT" ELSE e.op, tabla |-> e.tabla,
   key |-> e.key, valor |-> e.valor, ts |-> e.ts]

\* The file system takes the request as soon as it is sent.
LlegaALFS(h, fd, m) ==
  /\ deLFS' = Append(deLFS, Respuesta(h, fd, m))
  /\ enLFS' = LFSDespuesDe(m)
  /\ vigente' = IF m.op = "DROP" /\ enLFS[m.tabla].existe
                  THEN [vigente EXCEPT ![m.tabla] = [k \in Claves |-> SIN_VALOR]]
                  ELSE vigente

\* The first answer of the connection, whoever it is for.
PrimeraDe(fd) == Min({i \in DOMAIN deLFS : deLFS[i].fd = fd} \cup {Len(deLFS) + 1})

Enviar(h) ==
  LET e == est[h]
  IN  /\ vivo /\ e.pc = "envia" /\ conexion \notin rotas \cup {COMPONENTE_CAIDO}
      /\ LlegaALFS(h, conexion, Mensaje(e))
      /\ Sigue(h, "espera", [e EXCEPT !.fd = conexion])
      /\ UNCHANGED <<cache, mutex, conexion, rotas, lfs, hora, vivo, pedidos, caidas, pisada>>

\* conexionLfs is COMPONENTE_CAIDO: the thread connects on its own.
EnviarReconectando(h) ==
  LET e == est[h]
  IN  /\ vivo /\ e.pc = "envia" /\ conexion = COMPONENTE_CAIDO /\ lfs
      /\ LlegaALFS(h, FdLibre, Mensaje(e))
      /\ Sigue(h, "espera", [e EXCEPT !.fd = FdLibre, !.propia = TRUE])
      /\ UNCHANGED <<cache, mutex, conexion, rotas, lfs, hora, vivo, pedidos, caidas, pisada>>

\* The file system has fallen and send() does not notice yet.
EnviarEnVano(h) ==
  LET e == est[h]
  IN  /\ vivo /\ e.pc = "envia" /\ conexion \in rotas
      /\ Sigue(h, "espera", [e EXCEPT !.fd = conexion])
      /\ UNCHANGED <<cache, mutex, fs, hora, vivo, historia>>

Fracaso(h, e) ==
  IF e.op = "JOURNAL" THEN Sigue(h, "recorre", [e EXCEPT !.cod = "NUESTRO_ERROR"])
                      ELSE Responde(h, "LFS_CAIDO", e)

\* send() fails or nobody listens: the caller writes through a packet that
\* was never set, which may kill the process (as may SIGPIPE).
FallarEnvio(h) ==
  /\ vivo /\ est[h].pc = "envia"
  /\ conexion \in rotas \/ (conexion = COMPONENTE_CAIDO /\ ~lfs)
  /\ conexion' = COMPONENTE_CAIDO
  /\ vivo' \in BOOLEAN
  /\ Fracaso(h, est[h])
  /\ UNCHANGED <<cache, mutex, rotas, deLFS, lfs, enLFS, hora, historia>>

\* What each procesar does with the answer d.
Atiende(h, d, e) ==
  CASE e.op = "JOURNAL" ->
         Sigue(h, "recorre", [e EXCEPT !.cod =
           IF d.cod \in {"SUCCESS", "TABLA_NO_EXISTE"} THEN "SUCCESS" ELSE "NUESTRO_ERROR"])
    [] e.op = "SELECT" /\ d.cod = "SUCCESS" ->
         Sigue(h, "pideMarco", [e EXCEPT !.tabla = d.tabla, !.key = d.key,
                                         !.valor = d.valor, !.ts = d.ts])
    [] e.op = "CREATE" -> Sigue(h, "crea", e)
    [] e.op = "DROP" /\ e.ec -> Sigue(h, "elimina", [e EXCEPT !.cod = d.cod])
    [] OTHER -> Responde(h, d.cod, e)

\* A SELECT that is given the answer of another kind of request reads words
\* that are not there.
RecibirDeLFS(h) ==
  LET e == est[h]
      i == PrimeraDe(e.fd)
      d == deLFS[i]
  IN  /\ vivo /\ e.pc = "espera" /\ i <= Len(deLFS)
      /\ deLFS' = RemoveAt(deLFS, i)
      /\ conexion' = IF e.propia THEN e.fd ELSE conexion
      /\ Atiende(h, d, [e EXCEPT !.fd = 0, !.propia = FALSE, !.ajena = (d.para # h)])
      /\ vivo' = ~(e.op = "SELECT" /\ d.op # "SELECT" /\ d.cod = "SUCCESS")
      /\ UNCHANGED <<cache, mutex, rotas, lfs, enLFS, hora, historia>>

\* recv() says the connection fell; a thread that had just connected on its
\* own keeps it as conexionLfs.
RecibirCaida(h) ==
  LET e == est[h]
  IN  /\ vivo /\ e.pc = "espera" /\ e.fd \in rotas /\ PrimeraDe(e.fd) > Len(deLFS)
      /\ conexion' = IF e.propia THEN e.fd ELSE COMPONENTE_CAIDO
      /\ Fracaso(h, [e EXCEPT !.fd = 0, !.propia = FALSE])
      /\ UNCHANGED <<cache, mutex, rotas, deLFS, lfs, enLFS, hora, vivo, historia>>

\* recibir is three recv, of a connection that nobody locks: two threads that wait in
\* it may each read a part of the first answer, and take it for a size.  Both may wait
\* for the rest for ever, with their mutexes, or go on with what is not an answer.
PartirRespuesta(h) ==
  /\ vivo /\ est[h].pc = "espera" /\ PrimeraDe(est[h].fd) <= Len(deLFS)
  /\ \E x \in Hilos \ {h} :
       /\ est[x].pc = "espera" /\ est[x].fd = est[h].fd
       /\ est' = [est EXCEPT ![h].pc = "partida", ![x].pc = "partida"]
  /\ deLFS' = RemoveAt(deLFS, PrimeraDe(est[h].fd))
  /\ UNCHANGED <<cache, mutex, conexion, rotas, lfs, enLFS, hora, vivo, historia>>

RecibirPartida(h) == vivo /\ est[h].pc = "partida" /\ Invalido

\* The file system falls: of the answers on their way, the last may be lost.
CaerLFS ==
  /\ vivo /\ lfs /\ caidas < MaxCaidas
  /\ lfs' = FALSE /\ caidas' = caidas + 1
  /\ rotas' = ({conexion} \cup {est[h].fd : h \in Hilos}) \ {COMPONENTE_CAIDO, 0}
  /\ \E n \in 0..Len(deLFS) : deLFS' = SubSeq(deLFS, 1, n)
  /\ UNCHANGED <<cache, mutex, est, conexion, enLFS, hora, vivo, pedidos, vigente, pisada>>

LevantarLFS ==
  /\ vivo /\ ~lfs
  /\ lfs' = TRUE
  /\ UNCHANGED <<cache, mutex, est, conexion, rotas, deLFS, enLFS, hora, vivo, historia>>

------------------------------------------------------------------------------
(* create, procesarDrop and procesarJournal.                               *)

\* existeSegmentoEnMemoria.
BuscarAntesDeCrear_Siempre(h) ==
  /\ vivo /\ est[h].pc = "crea"
  /\ Sigue(h, "creaSegmento", est[h])
  /\ UNCHANGED <<cache, mutex, fs, hora, vivo, historia>>

BuscarAntesDeCrear(h) ==
  LET e == est[h]
  IN  /\ vivo /\ e.pc = "crea"
      /\ IF Segmento(e.tabla) = 0 THEN Sigue(h, "creaSegmento", e)
                                  ELSE Responde(h, "SUCCESS", e)
      /\ UNCHANGED <<cache, mutex, fs, hora, vivo, historia>>

\* CREATE is answered with SUCCESS, whatever the file system said.
CrearSegmento(h) ==
  LET e == est[h]
  IN  /\ vivo /\ e.pc = "creaSegmento"
      /\ segmentos' = Append(segmentos, [id |-> IdLibre, tabla |-> e.tabla])
      /\ Responde(h, "SUCCESS", e)
      /\ UNCHANGED <<paginas, marcos, bits, mutex, fs, hora, vivo, historia>>

\* eliminarUnSegmento of each segment in s: their pages and frames.
Eliminar(s) ==
  LET suyas == {p \in paginas : p.seg \in s}
      liberados == {p.marco : p \in suyas}
  IN  /\ paginas' = paginas \ suyas
      /\ bits' = bits \ liberados
      /\ marcos' = [m \in Marcos |-> IF m \in liberados
                                       THEN [marcos[m] EXCEPT !.valor = SIN_VALOR]
                                       ELSE marcos[m]]

\* list_remove_and_destroy_by_condition: the first segment of the table, if
\* there is one.
EliminarSegmento(h) ==
  LET e == est[h]
      i == Indices(e.tabla)
  IN  /\ vivo /\ e.pc = "elimina"
      /\ segmentos' = IF i = {} THEN segmentos ELSE RemoveAt(segmentos, Min(i))
      /\ Eliminar({Segmento(e.tabla)})
      /\ Responde(h, e.cod, e)
      /\ UNCHANGED <<mutex, fs, hora, vivo, historia>>

PorEnviar(h) == {p \in paginas : p.modificado} \ est[h].visitadas

TablaDelSegmento(s) == segmentos[CHOOSE i \in DOMAIN segmentos : segmentos[i].id = s].tabla

\* A modified page becomes an INSERT for the file system.
TomarPagina(h) ==
  LET e == est[h]
  IN  /\ vivo /\ e.pc = "recorre"
      /\ \E p \in PorEnviar(h) :
           Sigue(h, "envia",
             [e EXCEPT !.tabla = TablaDelSegmento(p.seg), !.key = marcos[p.marco].key,
                       !.valor = marcos[p.marco].valor, !.ts = marcos[p.marco].timestamp,
                       !.visitadas = @ \cup {p}])
      /\ UNCHANGED <<cache, mutex, fs, hora, vivo, historia>>

\* Every segment is freed, whatever the file system answered; the result is
\* that of the last page, and the automatic journal always reports success.
Limpiar(h) ==
  LET e == est[h]
  IN  /\ vivo /\ e.pc = "recorre" /\ PorEnviar(h) = {}
      /\ segmentos' = <<>> /\ Eliminar(EnUso)
      /\ Responde(h, IF h = "journal" \/ e.cod = "SUCCESS" THEN "SUCCESS" ELSE "FAILURE", e)
      /\ UNCHANGED <<mutex, fs, hora, vivo, historia>>

Caido == ~vivo /\ UNCHANGED vars

------------------------------------------------------------------------------
Buscar(h) ==
  BuscarSegmento(h) \/ SegmentoLiberado(h) \/ FaltaPagina(h) \/ LeerPagina(h)
    \/ ActualizarPagina(h)

ConseguirMarco(h) ==
  PedirMarco(h) \/ ElegirVictima(h) \/ MemoriaFull(h) \/ Desvincular(h) \/ VictimaLiberada(h)

GuardarPagina(h) ==
  GuardarEnSegmento(h) \/ GuardarSinSegmento(h) \/ GuardarEnNuevo(h)
    \/ GuardarVictimaIntacta(h)

Intercambiar(h) ==
  Enviar(h) \/ EnviarReconectando(h) \/ EnviarEnVano(h) \/ FallarEnvio(h)
    \/ RecibirDeLFS(h) \/ RecibirCaida(h)

CrearYEliminar(h) == BuscarAntesDeCrear(h) \/ CrearSegmento(h) \/ EliminarSegmento(h)

Journal(h) == TomarPagina(h) \/ Limpiar(h)

Avanzar(h) ==
  \/ RechazarValor(h)
  \/ Buscar(h)
  \/ ConseguirMarco(h)
  \/ GuardarPagina(h)
  \/ Intercambiar(h)
  \/ CrearYEliminar(h)
  \/ Journal(h)
  \/ Responder(h)
  \/ Soltar(h)

Next ==
  \/ \E h \in Clientes, op \in Operaciones, t \in Tablas, k \in Claves : Recibir(h, op, t, k)
  \/ EmpezarJournal
  \/ \E h \in Hilos : Tomar(h) \/ Avanzar(h) \/ PartirRespuesta(h) \/ RecibirPartida(h)
  \/ CaerLFS
  \/ LevantarLFS
  \/ Caido

Spec == Init /\ [][Next]_vars

\* The mutexes are contended for; the rest of a thread's steps are its own.
\* Requests come as they please, the automatic journal as its sleep says, and
\* a file system that fell need not come back.  Nobody wakes those who wait for the
\* rest of an answer that another read.
Fairness == \A h \in Hilos : SF_vars(Tomar(h)) /\ WF_vars(Avanzar(h))

FairSpec == Spec /\ Fairness

------------------------------------------------------------------------------
Pcs == {"ocioso", "toma", "busca", "buscaPagina", "pideMarco", "eligeVictima",
        "desvincula", "guarda", "envia", "espera", "partida", "crea", "creaSegmento",
        "elimina", "recorre", "responde", "suelta"}

Codigos == {"SUCCESS", "KEY_NO_EXISTE", "TABLA_NO_EXISTE", "TABLA_EXISTE", "LFS_CAIDO",
            "MEMORIA_FULL", "VALUE_INVALIDO", "NUESTRO_ERROR", "FAILURE"}

Valores == {SIN_VALOR} \cup Nat

\* A record that was never written has timestamp -1.
Horas == {-1} \cup Nat

Operacion == Operaciones \cup {"SELECT", "JOURNAL"}

TipoDeSegmento == [id : Nat \ {0}, tabla : Tablas]

TipoDePagina == [id : Nat \ {0}, seg : Nat \ {0}, marco : Marcos, modificado : BOOLEAN]

EstadosDeHilo ==
  [pc : Pcs, op : Operacion, tabla : Tablas, key : Claves, valor : Valores, ec : BOOLEAN,
   i : 1..3, seg : Nat, victima : Nat, marco : Marcos, ts : Horas, fd : Nat,
   propia : BOOLEAN, ajena : BOOLEAN, visitadas : SUBSET TipoDePagina, cod : Codigos]

Respuestas ==
  [fd : Nat, para : Hilos, op : Operacion \cup {"INSERT"}, cod : Codigos, tabla : Tablas,
   key : Claves, valor : Valores, ts : Horas]

DatosDeTabla == [existe : BOOLEAN, datos : [Claves -> [valor : Valores, ts : Horas]]]

\* Every variable keeps its type: a thread takes only the mutexes of its
\* request, every page is in a frame, and was created in a segment.
TypeOK ==
  /\ segmentos \in Seq(TipoDeSegmento)
  /\ paginas \subseteq TipoDePagina
  /\ marcos \in [Marcos -> [key : Claves, valor : Valores, timestamp : Horas]]
  /\ bits \subseteq Marcos
  /\ mutex \in [{"kernel", "consola", "journal"} -> Hilos \cup {NADIE}]
  /\ est \in [Hilos -> EstadosDeHilo]
  /\ \A h \in Hilos : est[h].i \in 1..Len(MutexDe(h))
  /\ conexion \in Nat \cup {COMPONENTE_CAIDO} /\ rotas \subseteq Nat
  /\ deLFS \in Seq(Respuestas) /\ enLFS \in [Tablas -> DatosDeTabla]
  /\ lfs \in BOOLEAN /\ vivo \in BOOLEAN /\ pisada \in BOOLEAN
  /\ hora \in Nat /\ pedidos \in 0..MaxPedidos /\ caidas \in 0..MaxCaidas
  /\ vigente \in [Tablas -> [Claves -> Valores]]

------------------------------------------------------------------------------
(* What holds while only one client is served at a time.                   *)

EnMano == {est[h].marco : h \in {x \in Hilos : est[x].pc = "guarda" /\ est[x].victima # 0}}

\* A frame is marked exactly when a page is in it (or a request is about to
\* reuse it), and never holds two pages.
MarcosExactos ==
  /\ \A p, q \in paginas : p.marco = q.marco => p = q
  /\ bits = {p.marco : p \in paginas} \cup EnMano

\* A table has one segment, and a key one page in it.
ClavesUnicas ==
  /\ \A i, j \in DOMAIN segmentos : segmentos[i].tabla = segmentos[j].tabla => i = j
  /\ \A p, q \in paginas :
       p.seg = q.seg /\ marcos[p.marco].key = marcos[q.marco].key => p = q

\* A SELECT that succeeds answers with the last value its key was given,
\* wherever it was: in the cache, evicted, or journaled.
LecturaCorrecta ==
  ~pisada =>
    \A h \in Clientes : est[h].pc = "responde" /\ est[h].op = "SELECT" =>
      CASE est[h].cod = "SUCCESS" -> est[h].valor = vigente[est[h].tabla][est[h].key]
        [] est[h].cod = "KEY_NO_EXISTE" -> vigente[est[h].tabla][est[h].key] = SIN_VALOR
        [] OTHER -> TRUE

EnCache(t, k) == {p \in paginas : TablaDelSegmento(p.seg) = t /\ marcos[p.marco].key = k}

\* The last value of a key is in a modified page or in the file system: no
\* replacement and no journal drops the only copy.
NadaSePierde ==
  ~pisada /\ (\A h \in Hilos : est[h].pc # "espera") =>
    \A t \in Tablas, k \in Claves :
      LET cubierta == \E p \in EnCache(t, k) : /\ p.modificado
                                              /\ marcos[p.marco].valor = vigente[t][k]
      IN  cubierta \/ enLFS[t].datos[k].valor = vigente[t][k]

\* MEMORIA_FULL is answered only when every frame has a modified page, which
\* is when the kernel must ask for a journal.
LlenaDeVerdad ==
  \A h \in Clientes : est[h].pc = "responde" /\ est[h].cod = "MEMORIA_FULL" =>
    {p.marco : p \in {q \in paginas : q.modificado}} = Marcos

------------------------------------------------------------------------------
(* What holds with kernel, console and automatic journal together.         *)

Sirviendo(h) == est[h].pc \notin {"ocioso", "toma"}

\* From its third mutex to the end a JOURNAL has the memory to itself: no
\* request of a kernel, of the console or of the automatic journal is served.
ElJournalSirveSolo ==
  \A x, h \in Hilos : Sirviendo(x) /\ est[x].op = "JOURNAL" /\ Sirviendo(h) => h = x

Limpia == \E h \in Hilos : est[h].pc = "recorre" /\ est'[h].pc = "responde"

Llego(p) ==
  LET t == TablaDelSegmento(p.seg)
      m == marcos[p.marco]
  IN  enLFS[t].existe => enLFS[t].datos[m.key].ts >= m.timestamp

\* When a journal clears the cache, the file system has each modified page of a table
\* it has as the page is then, or a newer record of the key, unless it fell: nobody
\* changes a page between its INSERT and the end of the journal.  What is in pages of
\* a table that the file system does not have is lost, and answered with success.
JournalCompleto ==
  [][Limpia /\ caidas = 0 => \A p \in paginas : p.modificado => Llego(p)]_vars

\* Every request ends and gives its mutexes back, whoever else is served and
\* whether or not the file system falls, as long as the process lives; unless kernel
\* and console have read an answer in pieces, when both may wait for ever.
Partidos == \A x \in Clientes : est[x].pc = "partida"
RequestTermina ==
  \A h \in Clientes : est[h].pc = "toma" ~> (est[h].pc = "ocioso" \/ ~vivo \/ Partidos)

------------------------------------------------------------------------------
(* What the comments promise and the code does not do.                     *)

\* memoria.c:1460: when the segment does not exist it is created, and the
\* steps of an INSERT in an existing one follow; so an INSERT that is answered
\* with success has its value in a page of its table.
InsertQueda ==
  \A h \in Clientes :
    est[h].pc = "responde" /\ est[h].op = "INSERT" /\ est[h].cod = "SUCCESS" =>
      \E p \in EnCache(est[h].tabla, est[h].key) : marcos[p.marco].valor = est[h].valor

\* memoria.c:779: a request is sent to the file system and its answer waited
\* for; so nobody is given the answer to the request of another thread.
RespuestaPropia == \A h \in Hilos : ~est[h].ajena

------------------------------------------------------------------------------
(* Inductive invariants: what makes JournalCompleto hold.                  *)

\* Every page is in a segment there is; addresses and connections are finite.
PaginasInv ==
  /\ IsFiniteSet(paginas) /\ IsFiniteSet(rotas)
  /\ \A p \in paginas : p.seg \in EnUso

\* A thread that serves a request has the mutexes of the request, and while it
\* takes them, those before the next.
MutexInv ==
  \A h \in Hilos :
    \A j \in 1..Len(MutexDe(h)) :
      Sirviendo(h) \/ (est[h].pc = "toma" /\ j < est[h].i) => mutex[MutexDe(h)[j]] = h

\* The INSERT that is about to be sent is of the page.
EsLaQueEnvia(h, p) ==
  /\ est[h].pc = "envia" /\ est[h].tabla = TablaDelSegmento(p.seg)
  /\ est[h].key = marcos[p.marco].key /\ est[h].ts = marcos[p.marco].timestamp

\* What a journal has visited has arrived, but for the page it is sending.
JournalDeHilo(h) ==
  /\ est[h].op # "JOURNAL" => est[h].pc # "recorre"
  /\ est[h].op = "JOURNAL" =>
       /\ est[h].pc \in {"toma", "recorre", "envia", "espera", "responde", "suelta"}
       /\ est[h].pc = "toma" => est[h].visitadas = {}
       /\ est[h].pc \in {"recorre", "envia", "espera"} =>
            /\ est[h].visitadas \subseteq paginas
            /\ caidas = 0 => \A p \in est[h].visitadas : Llego(p) \/ EsLaQueEnvia(h, p)

JournalInv ==
  /\ caidas = 0 => rotas = {} /\ lfs
  /\ \A h \in Hilos : JournalDeHilo(h)
------------------------------------------------------------------------------
(* Inductive invariant: what a single client is promised.                  *)

\* One thread besides the automatic journal makes requests.
UnCliente == \A x, y \in Clientes : x = y

\* What the search of estaEnMemoria found still holds: the segment of the
\* table, or none, and no page of the key in it.
SinPagina(e) == e.seg = Segmento(e.tabla) /\ PaginasDe(e.seg, e.key) = {}

\* A request that needs a frame, or asks the file system for the record it
\* will put in one.
LeFaltaPagina(e) ==
  \/ e.pc \in {"pideMarco", "eligeVictima", "desvincula", "guarda"}
  \/ e.op = "SELECT" /\ e.pc \in {"envia", "espera"}

\* What a request at e knows of the cache, which no other changes meanwhile.
Sabe(e) ==
  /\ e.pc = "buscaPagina" => e.seg = Segmento(e.tabla)
  /\ LeFaltaPagina(e) => SinPagina(e)
  /\ e.pc \in {"eligeVictima", "desvincula"} => bits = Marcos
  /\ e.pc = "guarda" /\ e.victima = 0 => e.marco \notin bits
  /\ e.pc = "guarda" /\ e.victima # 0 => PaginasDelMarco(e.marco) = {}
  /\ e.pc = "creaSegmento" => Segmento(e.tabla) = 0
  /\ e.pc = "responde" /\ e.cod = "MEMORIA_FULL" =>
       {p.marco : p \in {q \in paginas : q.modificado}} = Marcos

\* What it has found and chosen, by where it is.
Lleva(h, e) ==
  /\ h = "journal" /\ e.pc # "ocioso" => e.op = "JOURNAL"
  /\ e.pc \in {"toma", "busca"} => e.seg = 0
  /\ e.pc \notin {"desvincula", "guarda", "responde"} => e.victima = 0
  /\ e.pc = "desvincula" => e.victima # 0
  /\ e.pc = "elimina" => e.cod # "MEMORIA_FULL"

\* Nothing comes from the file system but the answer that somebody waits for.
RespuestaEsperada ==
  /\ Len(deLFS) <= 1
  /\ \A i \in DOMAIN deLFS :
       /\ deLFS[i].cod # "MEMORIA_FULL"
       /\ \E h \in Hilos : /\ est[h].pc = "espera" /\ deLFS[i].fd = est[h].fd
                           /\ deLFS[i].tabla = est[h].tabla /\ deLFS[i].key = est[h].key

IdsUnicos == \A i, j \in DOMAIN segmentos : segmentos[i].id = segmentos[j].id => i = j

UnoInv ==
  /\ \A h \in Hilos : Sabe(est[h]) /\ Lleva(h, est[h])
  /\ RespuestaEsperada
  /\ IdsUnicos /\ MarcosExactos /\ ClavesUnicas
------------------------------------------------------------------------------
(* Inductive invariant: no value is lost.                                  *)

\* Nothing takes a value away: no DROP, the tables are there from the start,
\* and the file system does not fall.
SinPerdidas == "DROP" \notin Operaciones /\ TablasDeLFS = Tablas /\ MaxCaidas = 0

TablaDe(p) == TablaDelSegmento(p.seg)
ClaveDe(p) == marcos[p.marco].key
Dato(p) == enLFS[TablaDe(p)].datos[ClaveDe(p)]
Vigente(p) == vigente[TablaDe(p)][ClaveDe(p)]

\* No time is later than the clock.
HorasInv ==
  /\ \A m \in Marcos : marcos[m].timestamp <= hora
  /\ \A t \in Tablas, k \in Claves : enLFS[t].datos[k].ts <= hora
  /\ \A h \in Hilos : est[h].ts <= hora

\* A page has the last value of its key, and a time with which the file system
\* will take it; if it is not modified the file system has the value too, and
\* so it is with a key without a page.
CacheInv ==
  /\ \A p \in paginas : /\ marcos[p.marco].valor = Vigente(p)
                        /\ Dato(p).ts <= marcos[p.marco].timestamp
                        /\ ~p.modificado => Dato(p).valor = Vigente(p)
  /\ \A t \in Tablas, k \in Claves :
       EnCache(t, k) = {} => enLFS[t].datos[k].valor = vigente[t][k]

\* A SELECT comes back with the record of the file system, and an INSERT has a
\* time with which the file system will take it.
Trae(e) ==
  /\ e.pc # "elimina" /\ (e.op = "INSERT" => e.pc \notin {"envia", "espera"})
  /\ e.pc \in {"busca", "buscaPagina", "pideMarco", "eligeVictima", "desvincula", "guarda"} =>
       e.op \in {"SELECT", "INSERT"}
  /\ e.pc \in {"crea", "creaSegmento"} => e.op # "SELECT"
  /\ e.op = "SELECT" /\ e.pc \in {"pideMarco", "eligeVictima", "desvincula", "guarda"} =>
       e.valor = vigente[e.tabla][e.key]
  /\ \/ e.pc \in {"eligeVictima", "desvincula", "guarda"}
     \/ e.op = "SELECT" /\ e.pc = "pideMarco"
     => enLFS[e.tabla].datos[e.key].ts <= e.ts
  /\ e.pc = "desvincula" => \A p \in PaginasDelMarco(e.marco) : ~p.modificado
  /\ e.op = "SELECT" /\ e.pc = "espera" =>
       \A i \in DOMAIN deLFS :
         /\ deLFS[i].cod = "SUCCESS" =>
              /\ deLFS[i].valor = vigente[e.tabla][e.key]
              /\ deLFS[i].ts = enLFS[e.tabla].datos[e.key].ts
         /\ deLFS[i].cod = "KEY_NO_EXISTE" => vigente[e.tabla][e.key] = SIN_VALOR
  /\ e.op = "SELECT" /\ e.pc = "responde" =>
       /\ e.cod = "SUCCESS" => e.valor = vigente[e.tabla][e.key]
       /\ e.cod = "KEY_NO_EXISTE" => vigente[e.tabla][e.key] = SIN_VALOR

LaEnvia(h, p) == EsLaQueEnvia(h, p) /\ est[h].valor = marcos[p.marco].valor

\* What a journal has visited is worth the same in the file system, but for the
\* page it is sending.
Entrega(h) ==
  est[h].op = "JOURNAL" =>
    /\ est[h].pc \in {"recorre", "envia", "espera"} =>
         \A p \in est[h].visitadas : Dato(p).valor = Vigente(p) \/ LaEnvia(h, p)
    /\ est[h].pc = "envia" => \E p \in est[h].visitadas : LaEnvia(h, p)

ValoresInv ==
  /\ \A t \in Tablas : enLFS[t].existe
  /\ ~pisada => HorasInv /\ CacheInv /\ \A h \in Hilos : Trae(est[h]) /\ Entrega(h)
==============================================================================
