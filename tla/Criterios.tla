------------------------------ MODULE Criterios ------------------------------
(***************************************************************************)
(* How the kernel (kernel/kernel.c) routes requests: the memories it knows *)
(* and those of each criterion, the tables of each criterion, and the      *)
(* threads that use and change them, each list under a mutex of its own:   *)
(*   - the threads of requests (manejarRequest), which choose a memory,    *)
(*     connect, send, and react to its answer or its fall;                 *)
(*   - the thread of the automatic DESCRIBE (hacerDescribe);               *)
(*   - the thread of gossiping (hacerGossiping).                           *)
(*                                                                         *)
(* Of memories and file system there is what memoria.c and API.c may       *)
(* answer to each request, as if each got the answer to its own, and that  *)
(* they may fall.  Order is kept where the code depends on it, which is in *)
(* memoriasShc (a key is hashed to a position); the other lists are sets,  *)
(* or bags where an element may be repeated.  To choose a memory, connect  *)
(* to it and send are one step: nothing that others see happens between    *)
(* them.                                                                   *)
(***************************************************************************)
EXTENDS Integers, Sequences, SequencesExt, FiniteSets

CONSTANTS
  Memorias,      \* the memories there may be
  Ppal,          \* the memory of IP_MEMORIA and PUERTO_MEMORIA
  Tablas,
  Hilos,         \* the threads of requests
  HiloDescribe, HiloGossip,
  Requests,      \* the requests that may be typed
  Nadie,         \* NULL, or a numero that is still ""
  Liberada,      \* an element of a list that has been freed
  LfsInicial,    \* what the file system may hold when the kernel starts
  MaxPedidos,    \* bound: requests typed
  Fragiles,      \* bound: the memories that may fall
  MaxFallas      \* bound: falls of memories, file system down, stale gossip

Consistencias == {"SC", "SHC", "EC"}
DeDatos == {"SELECT", "INSERT"}
Todos == Hilos \cup {HiloDescribe, HiloGossip}

ASSUME MemoriasAssumption == Ppal \in Memorias /\ {Nadie, Liberada} \cap Memorias = {}
ASSUME NadieAssumption == Nadie # Liberada /\ Nadie \notin Tablas
ASSUME FragilesAssumption == Fragiles \subseteq Memorias
ASSUME HilosAssumption ==
  HiloDescribe # HiloGossip /\ {HiloDescribe, HiloGossip} \cap Hilos = {}
ASSUME LfsAssumption == LfsInicial \subseteq [Tablas -> Consistencias \cup {Nadie}]
\* A parameter that a request has not is Nadie, 0 or "SC".
ASSUME RequestsAssumption ==
  Requests \subseteq
    [op : DeDatos \cup {"CREATE", "DROP"}, tabla : Tablas, criterio : Consistencias,
     clave : Nat, memoria : {Nadie}]
    \cup [op : {"DESCRIBE"}, tabla : Tablas \cup {Nadie}, criterio : {"SC"},
          clave : {0}, memoria : {Nadie}]
    \cup [op : {"JOURNAL"}, tabla : {Nadie}, criterio : {"SC"}, clave : {0},
          memoria : {Nadie}]
    \cup [op : {"ADD"}, tabla : {Nadie}, criterio : Consistencias, clave : {0},
          memoria : Memorias \cup {Nadie}]

VARIABLES
  memorias,     \* memorias
  memoriaSc,    \* memoriaSc
  memoriasShc,  \* memoriasShc
  memoriasEc,   \* memoriasEc
  tablas,       \* tablasSC, tablasSHC and tablasEC: how often each table is there
  hilo,         \* what each thread is doing
  cursor,       \* the element list_iterate is to visit next, for each thread
  numeroPpal,   \* whether numeroPpal is known
  vivo,         \* FALSE once a thread used freed memory or NULL
  levantadas,   \* external: the memories that are up
  lfs,          \* external: the consistency of each table, Nadie if none
  pedidos, fallas,
  fantasmas,    \* history: what ADD put in a criterion when memorias had lost it
  deben         \* history: the memories of a criterion that the JOURNAL of
                \* each thread owes

listas == <<memorias, memoriaSc, memoriasShc, memoriasEc>>
externas == <<levantadas, lfs, fallas>>
historia == <<fantasmas, deben>>
vars == <<listas, tablas, hilo, cursor, numeroPpal, vivo, externas, pedidos, historia>>

\* A thread: where it is; its request; the memory it is connected to (or is
\* eliminating), whether the connection is still open, what it was used for
\* and what was answered; what is left of a list; where it goes afterwards;
\* how many times the request was executed by a memory.
Libre ==
  [pc |-> "libre", op |-> "DESCRIBE", tabla |-> Nadie, clave |-> 0,
   criterio |-> "SC", memoria |-> Nadie, abierta |-> FALSE, fase |-> "pedido",
   rta |-> "SUCCESS", lista |-> {}, sigue |-> "libre", hechas |-> 0]

ApenasEmpieza ==
  /\ memorias = {} /\ memoriaSc = Nadie /\ memoriasShc = <<>> /\ memoriasEc = {}
  /\ tablas = [c \in Consistencias |-> [t \in Tablas |-> 0]]
  /\ hilo = [h \in Todos |->
       IF h = HiloGossip THEN [Libre EXCEPT !.pc = "gossip", !.memoria = Ppal,
                                            !.fase = "inicial"]
                         ELSE Libre]
  /\ cursor = [h \in Todos |-> Nadie]
  /\ numeroPpal = FALSE /\ vivo = TRUE
  /\ levantadas \in SUBSET Memorias /\ lfs \in LfsInicial
  /\ fallas = 0
  /\ fantasmas = {} /\ deben = [h \in Todos |-> {}]

Init == ApenasEmpieza /\ pedidos = 0

------------------------------------------------------------------------------
(* Helpers.                                                                *)

DelCriterio(c) ==
  CASE c = "SC" -> {memoriaSc} \ {Nadie}
    [] c = "SHC" -> ToSet(memoriasShc)
    [] c = "EC" -> memoriasEc

Siguiente(c) == IF c = "SC" THEN "SHC" ELSE "EC"

\* What changes in a thread, and nothing else in the system.
Pasa(h, r) == hilo' = [hilo EXCEPT ![h] = r]
Fin(r, rta) ==
  [Libre EXCEPT !.pc = "fin", !.rta = rta, !.hechas = r.hechas, !.fase = r.fase,
                !.abierta = r.abierta, !.memoria = r.memoria]

\* The memory falls or cannot be reached: eliminarMemoria, then go on at "donde".
AEliminar(r, donde) ==
  [r EXCEPT !.pc = "eliminarDeMemorias", !.abierta = FALSE, !.sigue = donde]

\* enviar, once connected.
AEnviar(r, fase) == [r EXCEPT !.pc = "enviado", !.abierta = TRUE, !.fase = fase]

\* obtenerIndiceHash: position of a key, any if it is 0.  The keys that pass
\* the validation of INSERT keep the product below 2^32.
IndicesHash(k, maximo) ==
  IF k = 0 THEN 1..maximo ELSE {(((k + 23) * 1999) % maximo) + 1}

\* The memories encontrarMemoriaSegunConsistencia may choose.
Candidatas(c, k) ==
  IF c = "SHC" THEN IF memoriasShc = <<>> THEN {}
                    ELSE {memoriasShc[i] : i \in IndicesHash(k, Len(memoriasShc))}
  ELSE DelCriterio(c)

------------------------------------------------------------------------------
(* eliminarMemoria: one critical section per list.                         *)

\* The memory is no longer in the criterion: no JOURNAL is owed to it for that.
Salio(c, m) ==
  /\ deben' = [h \in Todos |-> deben[h] \ {<<c, m>>}]
  /\ fantasmas' = fantasmas \ {<<c, m>>}

EliminarDeMemorias_YNadaMas(h) ==
  LET r == hilo[h] IN
  /\ r.pc = "eliminarDeMemorias"
  /\ memorias' = memorias \ {r.memoria}
  /\ Pasa(h, [r EXCEPT !.pc = r.sigue])
  /\ UNCHANGED <<memoriaSc, memoriasShc, memoriasEc, tablas, cursor, numeroPpal,
                 vivo, externas, pedidos, historia>>

EliminarDeMemorias(h) ==
  LET r == hilo[h] IN
  /\ r.pc = "eliminarDeMemorias"
  /\ memorias' = memorias \ {r.memoria}
  /\ Pasa(h, [r EXCEPT !.pc = "eliminarDeSC"])
  /\ UNCHANGED <<memoriaSc, memoriasShc, memoriasEc, tablas, cursor, numeroPpal,
                 vivo, externas, pedidos, historia>>

EliminarDeSC(h) ==
  LET r == hilo[h] IN
  /\ r.pc = "eliminarDeSC"
  /\ memoriaSc' = IF memoriaSc = r.memoria THEN Nadie ELSE memoriaSc
  /\ Salio("SC", r.memoria)
  /\ Pasa(h, [r EXCEPT !.pc = "eliminarDeSHC"])
  /\ UNCHANGED <<memorias, memoriasShc, memoriasEc, tablas, cursor, numeroPpal,
                 vivo, externas, pedidos>>

\* list_remove_and_destroy_by_condition frees the element: a list_iterate that
\* was to visit it next is left with a dangling pointer.
EliminarDeSHC(h) ==
  LET r == hilo[h] IN
  /\ r.pc = "eliminarDeSHC"
  /\ memoriasShc' = RemoveFirst(memoriasShc, r.memoria)
  /\ cursor' = [g \in Todos |-> IF r.memoria # Nadie /\ cursor[g] = r.memoria
                                THEN Liberada ELSE cursor[g]]
  /\ Salio("SHC", r.memoria)
  /\ Pasa(h, [r EXCEPT !.pc = "eliminarDeEC"])
  /\ UNCHANGED <<memorias, memoriaSc, memoriasEc, tablas, numeroPpal, vivo,
                 externas, pedidos>>

EliminarDeEC(h) ==
  LET r == hilo[h] IN
  /\ r.pc = "eliminarDeEC"
  /\ memoriasEc' = memoriasEc \ {r.memoria}
  /\ Salio("EC", r.memoria)
  /\ Pasa(h, [r EXCEPT !.pc = r.sigue])
  /\ UNCHANGED <<memorias, memoriaSc, memoriasShc, tablas, cursor, numeroPpal,
                 vivo, externas, pedidos>>

Eliminar(h) ==
  EliminarDeMemorias(h) \/ EliminarDeSC(h) \/ EliminarDeSHC(h) \/ EliminarDeEC(h)

------------------------------------------------------------------------------
(* manejarRequest and the first half of enviarMensajeAMemoria.             *)

SoloHilo(h, r) ==
  /\ Pasa(h, r)
  /\ UNCHANGED <<listas, tablas, cursor, numeroPpal, vivo, externas, pedidos, historia>>

\* conectarseAMemoria, and enviar.
Conectado(r, m) ==
  IF m \in levantadas THEN AEnviar([r EXCEPT !.memoria = m], "pedido")
                      ELSE AEliminar([r EXCEPT !.memoria = m], "reintentar")

\* Where a thread goes with a request.  A DESCRIBE goes to any memory; a CREATE
\* says its criterion; for the others it is looked for in the lists of tables.
Empezado(r) ==
  CASE r.op = "ADD" -> {[r EXCEPT !.pc = "add"]}
    [] r.op = "JOURNAL" -> {[r EXCEPT !.pc = "juntar"]}
    [] r.op \notin {"ADD", "JOURNAL"} /\ memorias = {} -> {Fin(r, "FAILURE")}
    [] r.op = "DESCRIBE" /\ memorias # {} -> {Conectado(r, m) : m \in memorias}
    [] r.op = "CREATE" /\ memorias # {} -> {[r EXCEPT !.pc = "elegir"]}
    [] r.op \in DeDatos \cup {"DROP"} /\ memorias # {} -> {[r EXCEPT !.pc = "buscarTabla"]}

Debe(op) ==
  IF op = "JOURNAL" THEN UNION {{<<c, m>> : m \in DelCriterio(c)} : c \in Consistencias}
                    ELSE {}

Pedir(h, p) ==
  /\ hilo[h].pc = "libre" /\ pedidos < MaxPedidos
  /\ pedidos' = pedidos + 1
  /\ \E r \in Empezado([Libre EXCEPT !.op = p.op, !.tabla = p.tabla, !.clave = p.clave,
                             !.criterio = p.criterio, !.memoria = p.memoria]) : Pasa(h, r)
  /\ deben' = [deben EXCEPT ![h] = Debe(p.op)]
  /\ UNCHANGED <<listas, tablas, cursor, numeroPpal, vivo, externas, fantasmas>>

\* hacerDescribe.
DescribeAutomatico ==
  /\ hilo[HiloDescribe].pc = "libre"
  /\ \E r \in Empezado(Libre) : SoloHilo(HiloDescribe, r)

\* obtenerConsistenciaTabla; a table in no list is logged and is no error.
BuscarTabla(h) ==
  LET r == hilo[h] IN
  /\ r.pc = "buscarTabla"
  /\ IF tablas[r.criterio][r.tabla] > 0 THEN SoloHilo(h, [r EXCEPT !.pc = "elegir"])
     ELSE IF r.criterio = "EC" THEN SoloHilo(h, Fin(r, "SUCCESS"))
     ELSE SoloHilo(h, [r EXCEPT !.criterio = Siguiente(r.criterio)])

ElegirMemoria(h) ==
  LET r == hilo[h]
      candidatas == Candidatas(r.criterio, r.clave)
  IN
  /\ r.pc = "elegir"
  /\ \/ candidatas = {} /\ SoloHilo(h, Fin(r, "SUCCESS"))
     \/ \E m \in candidatas : SoloHilo(h, Conectado(r, m))

\* reintentarConexion: any memory, whatever the criterion of the table.
ReintentarConexion(h) ==
  LET r == hilo[h] IN
  /\ r.pc = "reintentar"
  /\ \/ memorias = {} /\ SoloHilo(h, Fin(r, "SUCCESS"))
     \/ \E m \in memorias : SoloHilo(h, Conectado(r, m))

------------------------------------------------------------------------------
(* What memories and file system do.                                       *)

\* mandarHandshake again, on the connection already open.
ConHandshake(r, fase) == [r EXCEPT !.pc = "handshake", !.fase = fase]

\* Answers that are logged and do not cancel a script.
Perdonadas(fase) ==
  {"KEY_NO_EXISTE", "TABLA_EXISTE", "LFS_CAIDO"}
    \cup (IF fase = "pedido" THEN {"COMPONENTE_CAIDO"} ELSE {})

Perdonado_Reintenta(r, rta) ==
  IF rta = "COMPONENTE_CAIDO" /\ r.fase = "pedido" THEN AEliminar(r, "reintentar")
  ELSE Fin(r, IF rta \in Perdonadas(r.fase) THEN "SUCCESS" ELSE rta)

Perdonado(r, rta) == Fin(r, IF rta \in Perdonadas(r.fase) THEN "SUCCESS" ELSE rta)

\* actualizarTablas empties the lists first unless there is exactly one table.
AActualizar(r, filas) ==
  [r EXCEPT !.lista = filas, !.criterio = "SC",
            !.pc = IF Cardinality(filas) # 1 THEN "limpiar" ELSE "agregar"]

\* What the kernel does with the answer to a request: a memory that is full is
\* asked for a JOURNAL, after which the request is sent once more.
Recibido(r, rta, filas) ==
  CASE r.fase = "journal" ->
         IF rta = "SUCCESS" THEN ConHandshake(r, "reenvio") ELSE Fin(r, rta)
    [] r.fase = "pedido" /\ rta = "MEMORIA_FULL" -> ConHandshake(r, "journal")
    [] r.fase # "journal" /\ rta = "SUCCESS" ->
         IF r.op \in {"DESCRIBE", "CREATE"} THEN AActualizar(r, filas) ELSE Fin(r, rta)
    [] OTHER -> Perdonado(r, rta)

\* And with the answer to the JOURNAL of procesarJournal.
JournalRecibido(r, rta) ==
  IF rta = "COMPONENTE_CAIDO" THEN AEliminar(r, "siguiente")
                              ELSE [r EXCEPT !.pc = "siguiente"]

Comun(r) == r.op \notin {"JOURNAL", "ADD"}

\* A memory executes what it was sent.  If it falls meanwhile the answer is
\* lost, and the kernel sees the connection closed.
Responde(h, rta, filas) ==
  LET r == [hilo[h] EXCEPT !.hechas =
              IF hilo[h].fase # "journal" /\ rta = "SUCCESS" THEN @ + 1 ELSE @]
      llega == IF r.abierta THEN rta ELSE "COMPONENTE_CAIDO"
  IN
  /\ r.pc = "enviado"
  /\ Pasa(h, IF Comun(r) THEN Recibido(r, llega, filas) ELSE JournalRecibido(r, llega))
  /\ UNCHANGED <<listas, tablas, cursor, numeroPpal, vivo, levantadas, pedidos, fantasmas>>

\* A SELECT may find the memory full once the file system has answered it.
DeLaMemoria(op) ==
  {"SUCCESS", "MEMORIA_FULL"}
    \cup (IF op = "SELECT" THEN {"KEY_NO_EXISTE", "TABLA_NO_EXISTE"} ELSE {"VALUE_INVALIDO"})

AtenderDatos(h, rta) ==
  LET r == hilo[h] IN
  /\ r.fase # "journal" /\ r.op \in DeDatos /\ rta \in DeLaMemoria(r.op)
  /\ Responde(h, rta, {})
  /\ UNCHANGED <<lfs, fallas, deben>>

\* Success, whatever the file system answered: the table may exist, maybe with
\* another criterion, or its directory not be created.
AtenderCreate(h) ==
  LET r == hilo[h] IN
  /\ r.op = "CREATE"
  /\ Responde(h, "SUCCESS", {<<r.tabla, r.criterio>>})
  /\ \/ UNCHANGED lfs
     \/ lfs[r.tabla] = Nadie /\ lfs' = [lfs EXCEPT ![r.tabla] = r.criterio]
  /\ UNCHANGED <<fallas, deben>>

AtenderDrop(h) ==
  LET r == hilo[h] IN
  /\ r.op = "DROP"
  /\ Responde(h, IF lfs[r.tabla] = Nadie THEN "TABLA_NO_EXISTE" ELSE "SUCCESS", {})
  /\ lfs' = [lfs EXCEPT ![r.tabla] = Nadie]
  /\ UNCHANGED <<fallas, deben>>

AtenderDescribe(h) ==
  LET r == hilo[h]
      filas == {<<t, lfs[t]>> : t \in {x \in Tablas : lfs[x] # Nadie
                                                        /\ r.tabla \in {x, Nadie}}}
  IN
  /\ r.op = "DESCRIBE"
  /\ Responde(h, IF r.tabla # Nadie /\ filas = {} THEN "TABLA_NO_EXISTE" ELSE "SUCCESS",
              filas)
  /\ UNCHANGED <<lfs, fallas, deben>>

\* A JOURNAL fails if the file system refused a page, or was down for one.
AtenderJournal(h, rta) ==
  /\ hilo[h].fase = "journal" /\ rta \in {"SUCCESS", "FAILURE"}
  /\ Responde(h, rta, {})
  /\ deben' = [deben EXCEPT ![h] = {p \in @ : p[2] # hilo[h].memoria}]
  /\ UNCHANGED <<lfs, fallas>>

\* The file system is down for a request that needs it: an INSERT does not, and a
\* JOURNAL says so with FAILURE.
AtenderSinLFS(h) ==
  /\ hilo[h].fase # "journal" /\ hilo[h].op # "INSERT" /\ fallas < MaxFallas
  /\ fallas' = fallas + 1
  /\ Responde(h, "LFS_CAIDO", {})
  /\ UNCHANGED <<lfs, deben>>

\* The memory fell before it read the request.
SinRespuesta(h) ==
  /\ ~hilo[h].abierta
  /\ Responde(h, "COMPONENTE_CAIDO", {})
  /\ UNCHANGED <<lfs, fallas, deben>>

Atender(h) ==
  \/ \E rta \in {"SUCCESS", "MEMORIA_FULL", "VALUE_INVALIDO", "KEY_NO_EXISTE",
                 "TABLA_NO_EXISTE"} : AtenderDatos(h, rta)
  \/ AtenderCreate(h)
  \/ AtenderDrop(h)
  \/ AtenderDescribe(h)
  \/ \E rta \in {"SUCCESS", "FAILURE"} : AtenderJournal(h, rta)
  \/ AtenderSinLFS(h)
  \/ SinRespuesta(h)

\* The memory that fell is eliminated, and the request that was not executed is
\* no error.
Handshake(h) ==
  LET r == hilo[h] IN
  /\ r.pc = "handshake"
  /\ SoloHilo(h, IF r.abierta THEN AEnviar(r, r.fase) ELSE AEliminar(r, "sinEjecutar"))

SinEjecutar(h) ==
  hilo[h].pc = "sinEjecutar" /\ SoloHilo(h, Fin(hilo[h], "SUCCESS"))

Terminar(h) ==
  hilo[h].pc = "fin" /\ SoloHilo(h, Libre)

Caer(m) ==
  /\ m \in levantadas \cap Fragiles /\ fallas < MaxFallas
  /\ fallas' = fallas + 1
  /\ levantadas' = levantadas \ {m}
  /\ hilo' = [h \in Todos |-> IF hilo[h].memoria = m THEN [hilo[h] EXCEPT !.abierta = FALSE]
                                                     ELSE hilo[h]]
  /\ UNCHANGED <<listas, tablas, cursor, numeroPpal, vivo, lfs, pedidos, historia>>

Levantar(m) ==
  /\ m \notin levantadas
  /\ levantadas' = levantadas \cup {m}
  /\ UNCHANGED <<listas, tablas, hilo, cursor, numeroPpal, vivo, lfs, fallas,
                 pedidos, historia>>

------------------------------------------------------------------------------
(* actualizarTablas and agregarTablaACriterio.  The tables are independent of *)
(* each other, so the order in which they came is not kept.                *)

Fila(r) == CHOOSE f \in r.lista : TRUE
Quedan(r, fila) ==
  LET resto == r.lista \ {fila} IN
  [r EXCEPT !.lista = resto, !.criterio = "SC",
            !.pc = IF resto = {} THEN "fin" ELSE "agregar"]

SoloTablas(h, r) ==
  /\ Pasa(h, r)
  /\ UNCHANGED <<listas, cursor, numeroPpal, vivo, externas, pedidos, historia>>

LimpiarTablas(h) ==
  LET r == hilo[h]
      sigue == IF r.criterio # "EC" THEN "limpiar"
               ELSE IF r.lista = {} THEN "fin" ELSE "agregar"
  IN
  /\ r.pc = "limpiar"
  /\ tablas' = [tablas EXCEPT ![r.criterio] = [t \in Tablas |-> 0]]
  /\ SoloTablas(h, [r EXCEPT !.pc = sigue,
       !.criterio = IF sigue = "limpiar" THEN Siguiente(@) ELSE "SC"])

\* The table is looked for in each list in turn; where it is and should not be,
\* one of its occurrences is removed.
BuscarParaAgregar(h) ==
  LET r == hilo[h]
      fila == Fila(r)
      esta == tablas[r.criterio][fila[1]] > 0
  IN
  /\ r.pc = "agregar"
  /\ tablas' = IF esta /\ r.criterio # fila[2]
               THEN [tablas EXCEPT ![r.criterio][fila[1]] = @ - 1] ELSE tablas
  /\ SoloTablas(h,
       IF esta /\ r.criterio = fila[2] THEN Quedan(r, fila)
       ELSE IF esta \/ r.criterio = "EC" THEN [r EXCEPT !.pc = "agregarEn"]
       ELSE [r EXCEPT !.criterio = Siguiente(@)])

AgregarTabla(h) ==
  LET r == hilo[h]
      fila == Fila(r)
  IN
  /\ r.pc = "agregarEn"
  /\ tablas' = [tablas EXCEPT ![fila[2]][fila[1]] = @ + 1]
  /\ SoloTablas(h, Quedan(r, fila))

ActualizarTablas(h) == LimpiarTablas(h) \/ BuscarParaAgregar(h) \/ AgregarTabla(h)

------------------------------------------------------------------------------
(* procesarJournal.  All the criteria: the memories are gathered without    *)
(* repetition, one list at a time, and sent a JOURNAL each afterwards.      *)

JuntarMemorias_SinEC(h) ==
  LET r == hilo[h]
      lista == r.lista \cup DelCriterio(r.criterio)
  IN
  /\ r.pc = "juntar"
  /\ SoloHilo(h, IF r.criterio = "SHC"
                 THEN [r EXCEPT !.lista = lista, !.pc = "siguiente"]
                 ELSE [r EXCEPT !.lista = lista, !.criterio = Siguiente(@)])

JuntarMemorias(h) ==
  LET r == hilo[h]
      lista == r.lista \cup DelCriterio(r.criterio)
  IN
  /\ r.pc = "juntar"
  /\ SoloHilo(h, IF r.criterio = "EC"
                 THEN [r EXCEPT !.lista = lista, !.pc = "siguiente"]
                 ELSE [r EXCEPT !.lista = lista, !.criterio = Siguiente(@)])

\* The result of conectarseAMemoria is not looked at: enviar fails in turn, and
\* the memory is eliminated a second time.
EnviarJournal(r, m) ==
  IF m \in levantadas THEN AEnviar([r EXCEPT !.memoria = m], "journal")
                      ELSE AEliminar([r EXCEPT !.memoria = m], "enviarSinConexion")

SiguienteJournal(h) ==
  LET r == hilo[h]
      m == CHOOSE x \in r.lista : TRUE
  IN
  /\ r.pc = "siguiente" /\ r.op = "JOURNAL"
  /\ SoloHilo(h, IF r.lista = {} THEN Fin(r, "SUCCESS")
                 ELSE EnviarJournal([r EXCEPT !.lista = @ \ {m}], m))

EnviarSinConexion(h) ==
  /\ hilo[h].pc = "enviarSinConexion"
  /\ SoloHilo(h, AEliminar(hilo[h], "siguiente"))

\* Only SHC, after an ADD: list_iterate over memoriasShc itself, whose mutex is
\* given back while each JOURNAL is sent.  list_iterate (external) takes the
\* element that follows before it calls the closure.
DespuesDe(m) ==
  LET i == CHOOSE j \in DOMAIN memoriasShc : memoriasShc[j] = m
  IN  IF i = Len(memoriasShc) THEN Nadie ELSE memoriasShc[i + 1]

Visitar(h, m) ==
  /\ cursor' = [cursor EXCEPT ![h] = IF m = Nadie THEN Nadie ELSE DespuesDe(m)]
  /\ Pasa(h, IF m = Nadie THEN Fin(hilo[h], "SUCCESS") ELSE EnviarJournal(hilo[h], m))
  /\ UNCHANGED <<listas, tablas, numeroPpal, vivo, externas, pedidos, historia>>

IterarSHC(h) ==
  /\ hilo[h].pc = "iterar"
  /\ Visitar(h, IF memoriasShc = <<>> THEN Nadie ELSE Head(memoriasShc))

SiguienteSHC(h) ==
  /\ hilo[h].pc = "siguiente" /\ hilo[h].op = "ADD" /\ cursor[h] # Liberada
  /\ Visitar(h, cursor[h])

\* The element that was to follow has been freed by eliminarMemoria.
SiguienteLiberada(h) ==
  /\ hilo[h].pc = "siguiente" /\ hilo[h].op = "ADD" /\ cursor[h] = Liberada
  /\ vivo' = FALSE
  /\ UNCHANGED <<listas, tablas, hilo, cursor, numeroPpal, externas, pedidos, historia>>

Journal(h) ==
  \/ JuntarMemorias(h)
  \/ SiguienteJournal(h)
  \/ EnviarSinConexion(h)
  \/ IterarSHC(h)
  \/ SiguienteSHC(h)
  \/ SiguienteLiberada(h)

------------------------------------------------------------------------------
(* procesarAdd.                                                            *)

\* The memory is looked for by its number, and copied.
BuscarMemoria(h) ==
  LET r == hilo[h] IN
  /\ r.pc = "add"
  /\ SoloHilo(h, IF r.memoria \in memorias THEN [r EXCEPT !.pc = "agregarMemoria"]
                                          ELSE Fin(r, "FAILURE"))

\* What the history says of an element that enters a criterion.
Entro(h, c, m) ==
  fantasmas' = IF m \in memorias THEN fantasmas ELSE fantasmas \cup {<<c, m>>}

AgregarASC(h) ==
  LET r == hilo[h] IN
  /\ r.pc = "agregarMemoria" /\ r.criterio = "SC"
  /\ memoriaSc' = r.memoria
  /\ fantasmas' = {p \in fantasmas : p[1] # "SC"}
                    \cup (IF r.memoria \in memorias THEN {} ELSE {<<"SC", r.memoria>>})
  /\ deben' = [g \in Todos |-> {p \in deben[g] : p[1] = "SC" => p[2] = r.memoria}]
  /\ Pasa(h, Fin(r, "SUCCESS"))
  /\ UNCHANGED <<memorias, memoriasShc, memoriasEc, tablas, cursor, numeroPpal,
                 vivo, externas, pedidos>>

AgregarASHC_SinMirar(h) ==
  LET r == hilo[h] IN
  /\ r.pc = "agregarMemoria" /\ r.criterio = "SHC"
  /\ memoriasShc' = Append(memoriasShc, r.memoria)
  /\ Entro(h, "SHC", r.memoria)
  /\ deben' = [deben EXCEPT ![h] = {<<"SHC", m>> : m \in ToSet(memoriasShc')}]
  /\ Pasa(h, [r EXCEPT !.pc = "iterar"])
  /\ UNCHANGED <<memorias, memoriaSc, memoriasEc, tablas, cursor, numeroPpal,
                 vivo, externas, pedidos>>

AgregarASHC(h) ==
  LET r == hilo[h] IN
  /\ r.pc = "agregarMemoria" /\ r.criterio = "SHC" /\ r.memoria \notin ToSet(memoriasShc)
  /\ memoriasShc' = Append(memoriasShc, r.memoria)
  /\ Entro(h, "SHC", r.memoria)
  /\ deben' = [deben EXCEPT ![h] = {<<"SHC", m>> : m \in ToSet(memoriasShc')}]
  /\ Pasa(h, [r EXCEPT !.pc = "iterar"])
  /\ UNCHANGED <<memorias, memoriaSc, memoriasEc, tablas, cursor, numeroPpal,
                 vivo, externas, pedidos>>

AgregarAEC(h) ==
  LET r == hilo[h] IN
  /\ r.pc = "agregarMemoria" /\ r.criterio = "EC" /\ r.memoria \notin memoriasEc
  /\ memoriasEc' = memoriasEc \cup {r.memoria}
  /\ Entro(h, "EC", r.memoria)
  /\ Pasa(h, Fin(r, "SUCCESS"))
  /\ UNCHANGED <<memorias, memoriaSc, memoriasShc, tablas, cursor, numeroPpal,
                 vivo, externas, pedidos, deben>>

YaEstaba(h) ==
  LET r == hilo[h] IN
  /\ r.pc = "agregarMemoria" /\ r.criterio # "SC" /\ r.memoria \in DelCriterio(r.criterio)
  /\ SoloHilo(h, Fin(r, "SUCCESS"))

Add(h) ==
  \/ BuscarMemoria(h)
  \/ AgregarASC(h)
  \/ AgregarASHC(h)
  \/ AgregarAEC(h)
  \/ YaEstaba(h)

------------------------------------------------------------------------------
(* hacerGossiping and procesarGossiping.                                   *)

Gossip == hilo[HiloGossip]

\* While its number is not known eliminarMemoria does not find the main memory.
AOlvidar(r) ==
  AEliminar([r EXCEPT !.memoria = IF @ = Ppal /\ ~numeroPpal THEN Nadie ELSE @],
            "gossipElegir")

\* The memory answers (external) with itself and those it believes are up,
\* which may be some that fell.
RecibirGossip(conocidas) ==
  /\ Gossip.pc = "gossip"
  /\ Gossip.memoria \in levantadas \cap conocidas
  /\ \/ conocidas \subseteq levantadas /\ UNCHANGED fallas
     \/ ~(conocidas \subseteq levantadas) /\ fallas < MaxFallas /\ fallas' = fallas + 1
  /\ Pasa(HiloGossip, [Gossip EXCEPT !.pc = "gossipAgregar", !.lista = conocidas])
  /\ UNCHANGED <<listas, tablas, cursor, numeroPpal, vivo, levantadas, lfs,
                 pedidos, historia>>

\* The memory is down, or falls before it answers.
GossipSinRespuesta ==
  /\ Gossip.pc = "gossip" /\ Gossip.memoria \notin levantadas
  /\ SoloHilo(HiloGossip, AOlvidar(Gossip))

AgregarConocida ==
  /\ Gossip.pc = "gossipAgregar"
  /\ \E m \in Gossip.lista :
       /\ memorias' = memorias \cup {m}
       /\ Pasa(HiloGossip, [Gossip EXCEPT !.lista = @ \ {m},
                 !.pc = IF Gossip.lista # {m} THEN @
                        ELSE IF numeroPpal THEN "gossipElegir" ELSE "gossipPpal"])
  /\ UNCHANGED <<memoriaSc, memoriasShc, memoriasEc, tablas, cursor, numeroPpal,
                 vivo, externas, pedidos, historia>>

\* list_find(memorias, encontrarMemPpal) is used without asking if it is NULL:
\* another thread may have eliminated the main memory since.
RecordarPpal ==
  /\ Gossip.pc = "gossipPpal"
  /\ numeroPpal' = (Ppal \in memorias)
  /\ vivo' = (Ppal \in memorias)
  /\ Pasa(HiloGossip, [Gossip EXCEPT !.pc = "gossipElegir"])
  /\ UNCHANGED <<listas, tablas, cursor, externas, pedidos, historia>>

\* The memory to ask next.  The size of the list and the element are read in
\* two critical sections: if the list shrank between them, it is the main one.
\* Before the loop it is the main one again.
ElegirProxima ==
  /\ Gossip.pc = "gossipElegir"
  /\ \E m \in IF Gossip.fase = "inicial" THEN {Ppal} ELSE memorias \cup {Ppal} :
       SoloHilo(HiloGossip, [Gossip EXCEPT !.pc = "gossip", !.memoria = m,
                                           !.fase = "vuelta"])

Gossiping ==
  \/ \E conocidas \in SUBSET Memorias : RecibirGossip(conocidas)
  \/ GossipSinRespuesta
  \/ AgregarConocida
  \/ RecordarPpal
  \/ ElegirProxima

------------------------------------------------------------------------------
Avanzar(h) ==
  \/ Eliminar(h)
  \/ BuscarTabla(h)
  \/ ElegirMemoria(h)
  \/ ReintentarConexion(h)
  \/ Atender(h)
  \/ Handshake(h)
  \/ SinEjecutar(h)
  \/ ActualizarTablas(h)
  \/ Journal(h)
  \/ Add(h)
  \/ Terminar(h)

Next ==
  \/ /\ vivo
     /\ \/ \E h \in Hilos, p \in Requests : Pedir(h, p)
        \/ DescribeAutomatico
        \/ \E h \in Todos : Avanzar(h)
        \/ Gossiping
        \/ \E m \in Memorias : Caer(m) \/ Levantar(m)
  \/ ~vivo /\ UNCHANGED vars

Spec == Init /\ [][Next]_vars

------------------------------------------------------------------------------
DeEliminar(c) ==
  CASE c = "SC" -> {"eliminarDeSC"}
    [] c = "SHC" -> {"eliminarDeSC", "eliminarDeSHC"}
    [] c = "EC" -> {"eliminarDeSC", "eliminarDeSHC", "eliminarDeEC"}

Pcs ==
  {"libre", "buscarTabla", "elegir", "reintentar", "enviado", "handshake",
   "sinEjecutar", "fin", "limpiar", "agregar", "agregarEn", "juntar", "siguiente",
   "enviarSinConexion", "iterar", "add", "agregarMemoria", "gossip",
   "gossipAgregar", "gossipPpal", "gossipElegir", "eliminarDeMemorias"} \cup DeEliminar("EC")

\* Every variable keeps its type; in particular a memory is once at most in
\* each criterion, and no list of tables has a negative number of one.
TypeOK ==
  /\ memorias \subseteq Memorias /\ memoriasEc \subseteq Memorias
  /\ memoriaSc \in Memorias \cup {Nadie}
  /\ memoriasShc \in Seq(Memorias) /\ IsInjective(memoriasShc)
  /\ tablas \in [Consistencias -> [Tablas -> Nat]]
  /\ \A h \in Todos :
       /\ hilo[h].pc \in Pcs /\ hilo[h].memoria \in Memorias \cup {Nadie}
       /\ hilo[h].criterio \in Consistencias /\ hilo[h].hechas \in Nat
  /\ cursor \in [Todos -> Memorias \cup {Nadie, Liberada}]
  /\ levantadas \subseteq Memorias /\ lfs \in [Tablas -> Consistencias \cup {Nadie}]

\* A request is executed by one memory once at most, whatever fell and however
\* often it was sent again, and one that was executed does not cancel its
\* script, unless its memory fell once asked for a JOURNAL.
UnaSolaVez ==
  \A h \in Todos :
    /\ hilo[h].hechas <= 1
    /\ hilo[h].pc = "fin" /\ hilo[h].rta # "SUCCESS" /\ hilo[h].hechas = 1
         => hilo[h].fase = "reenvio" /\ ~hilo[h].abierta

\* A memory of a criterion that memorias has lost is being removed from the
\* criterion too, unless an ADD that had found it added it since.
FantasmaSoloPorAdd ==
  \A c \in Consistencias : \A m \in DelCriterio(c) :
    \/ m \in memorias
    \/ <<c, m>> \in fantasmas
    \/ \E h \in Todos : hilo[h].memoria = m /\ hilo[h].pc \in DeEliminar(c)

\* When a JOURNAL, or an ADD to SHC, ends, each memory that was in its criteria
\* from beginning to end has received a JOURNAL.
JournalATodas ==
  \A h \in Todos : hilo[h].pc = "fin" => deben[h] = {}
==============================================================================
