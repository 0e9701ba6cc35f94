# Lissandra in TLA+

Models, model checks and proofs of the Lissandra trabajo practico: a distributed
key-value store made of a file system process (`lfs/`), cache processes
(`memoria/`) and a kernel that schedules scripts over them (`kernel/`), written
in C with POSIX threads and TCP sockets.

Names in the modules are those of the code (Spanish included), so that a reader
can go from a definition to its function by name. Paths below are relative to
the sources.

## 1. Inventory

### 1.1 The components

| component | state it keeps | operations | correct when |
|---|---|---|---|
| **LFS storage engine** (`lfs/API.c`, `Dump.c`, `Compactador.c`, `Helper.c`) | memtable; per table: `N.tmp`, `N.tmpc`, `P.bin` files and a list of one mutex per client; a bitmap of blocks | INSERT, SELECT, dump, compaction | an acknowledged INSERT is never lost; a SELECT is never stale or invented; nobody reads files being rewritten; the bitmap is exact; everything terminates |
| **LFS table life cycle** (`lfs/API.c`, `Lissandra.c`) | `Tablas/` directory, `tablasParaCompactaciones`, `memoriasConectadas` | CREATE, DROP, DESCRIBE, connection and loss of a memory, start and end of a compaction thread | a table has one thread and one entry; its registered clients are the connected ones; a dropped table leaves nothing behind |
| **LFS start-up and recovery** (`lfs/Lissandra.c`) | Metadata.bin, Bitmap.bin, the files a crash left | start, clean end | a restart finds what was acknowledged |
| **Memory cache** (`memoria/memoria.c`) | segments, pages, frames, bitarray; three mutexes; the socket to the LFS | SELECT, INSERT, CREATE, DESCRIBE, DROP, JOURNAL, automatic journal, LRU, reconnection | frames exact; keys unique; reads right; no dirty page dropped; a journal complete; MEMORIA_FULL truthful; no deadlock |
| **Memory select loop and handshakes** (`memoria/memoria.c`) | fd sets | accept, serve, disconnect | one kernel request at a time |
| **Gossiping** (`memoria/memoria.c`, `kernel/kernel.c`) | membership lists, seeds | exchange, insertion, removal of a fallen memory | live memories are eventually known, dead ones forgotten |
| **Kernel scheduler** (`kernel/kernel.c`) | queues `new`, `ready`; semaphores; script queues; quantum | type a request, validate, dispatch, run a quantum, requeue, end | slots conserved; no empty queue read; a request with one thread only; round robin; every request resolved |
| **Kernel routing** (`kernel/kernel.c`) | tables by criterion, memories by criterion | ADD, DESCRIBE, choose a memory, MEMORIA_FULL then JOURNAL then retry, removal of a fallen memory | a table is served by memories of its criterion |
| **Kernel metrics** (`kernel/kernel.c`) | counters | count, report, reset | informative only |
| **Shared library** (`nuestro_lib/`) | none | validation, conversion, packets | pure functions |

### 1.2 How they interact

    console --> kernel --request--> memory --request--> LFS
                  |  <--- packet ---   |  <--- packet ---
                  +------ gossiping ---+------ gossiping (memory to memory)

* Kernel to memory: one connection per request, synchronous.
* Memory to LFS: **one** connection per memory, shared by the thread that serves
  kernels, the console and the automatic journal.
* Inside the LFS: threads for the console, for each memory, for the dump and for
  the compaction of each table, over shared lists and files. `mutexMemtable`
  is held by a whole dump; the mutexes of `cosasABloquear` (one per client and
  table) keep clients and dump out of a compaction.
* Inside the kernel: console, validator, dispatcher and the threads of requests
  communicate by two queues, their semaphores and `semMultiprocesamiento`.

### 1.3 What is hard

Steps between two mutexes (a SELECT copies the memtable, then waits, then reads
files); the two critical sections of a compaction with the merge outside both;
the dump holding the memtable while it waits for tables; blocks freed before
the files that list them are rewritten; a socket shared without a critical
section; a journal that clears the cache at its end; LRU across tables; falls of
the file system at any point; slots and semaphores given back on every path;
scripts returned to a queue by a thread still running. `PROJECT.json` lists
each hazard at its line, with the properties that would catch it or why none
does.

## 2. The modules

| module | what it is |
|---|---|
| `TablaAbstracta` | what a table promises its clients, with no memtable, files or locks |
| `LFS` | the storage engine; implements `TablaAbstracta` |
| `MCLFS` | instances of `LFS` |
| `PlanificadorAbstracto` | what the scheduler promises: bounded concurrency, each request resolved once, lines of a script in order |
| `Planificador` | the scheduler; implements `PlanificadorAbstracto` |
| `MCPlanificador` | instances of `Planificador` |
| `Memoria` | a memory process, with the file system behind its connection |
| `MCMemoria` | instances of `Memoria` |
| `TablasLFS` | the life of the tables of the file system: CREATE, DROP, compaction threads, start and restart |
| `MCTablasLFS` | instances of `TablasLFS` |
| `Criterios` | the routing of the kernel: memories and tables of each criterion |
| `MCCriterios` | instances of `Criterios` |
| `Gossip` | the gossip between memories |
| `MCGossip` | instances of `Gossip` |
| `Secuencias_lemas` | lemmas on ranges, prefixes, minima |
| `LFS_proofs` | lemmas on blocks, files and the merge of a compaction; types and mutual exclusion of `LFS` |
| `LFS_datos_proofs` | the data properties of `LFS`, its refinement, its bitmap and the order of the records in its partitions |
| `TablasLFS_proofs` | the safety properties of `TablasLFS` |
| `Planificador_proofs` | the safety properties of `Planificador` and its refinement |
| `Criterios_proofs` | the safety properties of `Criterios` |
| `Memoria_proofs` | types of `Memoria`, the exclusion of a JOURNAL, that it loses nothing, and what a single client is promised of frames, keys and values |
| `Gossip_proofs` | types of `Gossip`, and that its lists have no repeated memory |

### 2.1 LFS

| state | code |
|---|---|
| `memtable` | `memtable`, under `mutexMemtable`; the mutex is "held" exactly while `dump.pc` is not `dormido` (`MemtableLibre`), because every other holder takes and gives it within one step |
| `tmp`, `tmpc`, `bin` | the files of a table: the records in their blocks and their BLOCKS list |
| `bitmap` | the bits that are set |
| `mutex[t][id]` | the `t_bloqueo` of the client (or of the dump, id 2) in the table |
| `sel[c]` | how far `procesarSelect` of the client has gone |
| `dump`, `comp[t]` | the dump thread; the compaction thread of the table |
| `vivo` | false once a thread dereferences NULL |

A SELECT is five steps (arrive, copy memtable, lock, read `.tmp` and `.tmpc`,
read the partition, unlock and answer) because dump and compactor may move
between any two. A dump is one step to open each `N.tmp` and one to fill it; or
`fopen` does not give the file (`SaltearTabla`, `lfs/Dump.c:104`), the dump goes on to the
next table, and the memtable is emptied of that one too. A
compaction takes its mutexes one at a time, twice, with the rename in the first
critical section, the merge outside both, and the freeing and the rewriting of
each partition in the second.

Abstractions: the value of a record follows its key and timestamp; a block holds
one record, so a file asks for as many blocks as it has records; every order in
which `readdir` may list files is possible; tables and registered clients do
not change (tables that come and go are `TablasLFS`). In the code the text of a
file is cut at block boundaries, so when blocks run out half a record may be left
(`lfs/Dump.c:132-140`, `lfs/Compactador.c:597-606`): the model drops records whole, and
its data properties promise nothing from then on. Files other than a `.tmp` that the
dump creates are assumed to open (`config_create`, `fopen` of a block).

Two conditions appear in the properties. `NadaSalteado` (`~sinBloques` and `~sinTmp`):
once the disk is full, or a `.tmp` could not be opened, the code drops records
(section 5), so the data properties promise nothing from
then on; the abstract table says the same with `degradado`. `vivo`: a SELECT that meets a `.tmp` still without BLOCKS ends the
process (`LeerTmpIncompleto`, `lfs/API.c:270`), so liveness is "or the process
died". The safety properties do not assume `vivo`.

### 2.2 Planificador

`new`, `ready`, `semNew`, `semReady`, `semMulti` are the code's queues and
semaphores; `consola`, `validador`, `despachador` are the program counters of
`leerDeConsola`, `planificarNewAReady` and `planificarReadyAExec`;
`hilos` are the threads of requests. Push and post are different steps, and so
are each `sem_wait` and the pop. A request for a memory is abstracted to its
outcome; QUANTUM changes at any moment (`escucharCambiosEnConfig`) and is read
once per turn; `pthread_create` may fail, which loses the slot. A mutex that only
guards a push or a pop is the atomicity of that step. `adelantos` is a history
variable: how often a request was given a thread while another waited.

### 2.3 Memoria

`segmentos`, `paginas`, `marcos`, `bits` are the segment table, the elements of
the page tables, the frames and the bitarray; `mutex` holds semMKERNEL,
semMCONSOLA and semMJOURNAL; `est[h]` is what each of the three threads is
doing. `conexion`, `rotas`, `deLFS` are the socket `conexionLfs`, the
connections the other end has let fall, and the answers on their way. Each
critical section of the mutex of a segment, and each call of the exchange with
the file system (connect and send, receive), is one step, and threads
interleave between them. `recibir` is three `recv` (`nuestro_lib/nuestro_lib/nuestro_lib.c:493-503`)
on a socket that kernel and console share with no mutex
(`memoria/memoria.c:842`): two threads that wait there may take one answer between them
(`PartirRespuesta`). What each has is then text read as a code or a size, so it waits
for ever, with its mutex, or ends the process (`RecibirPartida`).

Abstractions:

* The file system is its answers: the newest record of each key of each table,
  as `LFS` promises it. A table created again after a DROP is empty (the code
  leaves the memtable behind, see hazard `lfs/API.c:522`; no property of
  `Memoria` distinguishes it).
* The clock always advances (milliseconds in the code), so an LRU tie exists
  only between records read from the file system.
* The segment that `estaEnMemoria` found is kept by address across
  RETARDO_MEM. An address that a DROP freed may be used afterwards: the model
  ends the process (`vivo` false) instead of guessing. The last search of the
  segment and `list_add` of the page are one step, though the code sleeps
  between them; a DROP in that window is the same use of freed memory.
* The walk of LRU over the segments is one step.
* Values are data of one size: a value of `maxValue` characters, which reaches the
  next frame (`nuestro_lib/nuestro_lib/nuestro_lib.c:949`, `memoria/memoria.c:1676`), is not seen.

History variables: `vigente` (the value each key was last given) and `pisada` (an
INSERT took a victim's page without writing it, section 5; `LecturaCorrecta` and
`NadaSePierde` promise nothing from then on, since from then on the cache holds
a wrong value).

### 2.4 TablasLFS

The same process as `LFS`, seen from its tables instead of their records.

| state | code |
|---|---|
| `dir`, `metadata`, `archivos`, `bitmap` | which directory a table has, its Metadata.bin, its files with their blocks, the bits set |
| `entradas`, `tablasParaCompactaciones` | every `t_hiloTabla` there has been (with its mutex, `finalizarCompactacion`, and whether it was freed), and those that are in the list |
| `hilos` | the compaction threads |
| `cliente`, `dump` | where CREATE, DROP or INSERT of each client is, and the dump |
| `memtable` | the tables that have records in it |

CREATE is one step per file and directory it makes and per structure it enters;
DROP takes the mutex of the entry, frees the blocks of each file and removes it, one
at a time, removes the directory, condemns the entry and gives its mutex back. A compaction thread looks for its
entry when it starts and keeps the pointer across its sleeps (`lfs/Compactador.c:28`); when it
finds it condemned it frees it. A compaction is a step for each change on disk: the
`.tmp` becomes a `.tmpc` (`Renombrar`), the table is blocked (`BloquearTabla`), each file read
gives its blocks back (`LiberarBloques`), and each partition asks for blocks one at a time and
lists them at the end (`PedirBloqueNuevo`, `GuardarParticion`); CREATE and DROP of other
tables, and the dump, move between any two. `BloquesExactos` counts a partition that is
waiting for its new blocks as listing none. `Reiniciar` ends the process between any two
steps and starts it again over the directories it left (`levantarFS`).

What the code does there, and the model with it:

* DROP and CREATE of a table within one COMPACTION_TIME leave two entries of the same
  name and two threads. Whichever wakes first frees the condemned entry, and
  the other may be using it: `Perdida(e)` is an entry that is NULL or freed, and
  what reads or writes it ends the model (`vivo` false).
* The entry is freed with its mutex locked (`lfs/Compactador.c:35`, `75`). A DROP
  (`lfs/API.c:513`) or a thread that waits for that mutex does so for ever, alone, in a process that
  lives, or the process ends (`DropColgado`, `HiloColgado`, `UsarLiberada`). The dump may be waiting
  for its own mutex in that entry (`lfs/Dump.c:90`), which was destroyed and not locked: it hangs with
  `mutexMemtable`, goes on without it or ends (`DumpColgado`). None of these steps is in a
  fairness condition. `RequestTermina` and `CondenadaSeQuita` leave out
  just those who hang so: no comment promises otherwise, and the hazard at
  `lfs/API.c:513` says it.
* A `.tmp` that cannot be opened is skipped, as in `LFS`. A dump begins once no table in the
  memtable has a `.tmp` (`UnTmpPorTabla`, a bound: the code takes the next free number).
* A partition that got no block lists none, and DROP of its table dereferences
  NULL; so does a DROP whose table has a directory and no entry.
* A `.tmp` that the dump creates while DROP empties the directory leaves the
  directory behind; a kill in the middle of CREATE leaves one without
  Metadata.bin, whose thread dereferences NULL at the next start.
* The records of a dropped table stay in the memtable.

`BloquesExactos` says nothing once CREATE and DROP of one table overlapped
(`choque`) or the process was killed in the middle of something (`cortado`);
the rest does not assume either. A `.tmpc` left by a kill in the middle of a compaction is
replaced by the next one, and its blocks stay marked: that is one of the things `cortado`
leaves out. Records, and the mutexes of each client in a table, are in `LFS`.

### 2.5 Criterios

`memorias`, `memoriaSc`, `memoriasShc`, `memoriasEc`, `tablas` are the lists of the
kernel, each under its own mutex, and each critical section is one step.
`hilo[h]` is where a thread is: the threads of requests (`manejarRequest`), the
automatic DESCRIBE and the gossip. `cursor` is the element that a `list_iterate`
outside the mutex visits next. What a memory answers is that of `memoria/memoria.c`, reduced
to what the kernel looks at: a SELECT may be answered MEMORIA_FULL once the file system
has answered it, a CREATE is answered SUCCESS whatever the file system said, a JOURNAL SUCCESS
or FAILURE, and LFS_CAIDO what needs a file system that is down. Answers that the
memory has crossed (`Memoria_cruzadas`) are not considered here. Only the fall and
the start of a memory (`levantadas`) are external.

The order of `memoriasShc` is kept, because a key is hashed to a position and
because JOURNAL walks it; the other lists are sets or bags. A request goes
through table, memory, connection, answer and, depending on it, MEMORIA_FULL,
JOURNAL and a new send; or the fall of the memory, its removal from the four
lists and a choice of another.

* `actualizarTablas` empties the lists of tables and fills them afterwards
  (`kernel/kernel.c:1044`): a request in that window finds no table, is not executed and is
  no error. The model has it.
* `memorias` loses a fallen memory in a critical section other than those of
  the criteria, and an ADD that found it before may add it after:
  `FantasmaSoloPorAdd` says that nothing else leaves a fallen memory in a
  criterion.
* The kernel's SIGPIPE (a send on a connection the memory closed) is not
  modelled: `send` is followed by a `recv` that sees the fall.

History: `fantasmas` (what a late ADD put back), `deben[h]` (the memories a
JOURNAL owes: those that were in its criteria all the time), and `hechas` (how
often a memory executed the request).

### 2.6 Gossip

`memoriasLevantadas[m]` is the list of memory `m`, `ronda[m]` its thread of
gossip (look whether each one is up, then send the list to the seeds and to
the memories of it), `buzon` what was sent and not read, `arriba` the
processes that run. Removing a memory that fell is done without the mutex
that adding takes (`eliminarMemoria`), and a second send on a broken connection kills the
process (SIGPIPE); both are in the model. `SeConocenTodas` is about memories
whose seeds join them (`Unidas`). What the kernel does with the list that it
asks a memory for is in `Criterios`.

### 2.7 How the modules compose

`LFS` implements `TablaAbstracta`, which is what `Memoria` takes the file
system to be (the newest record of each key). `Planificador` takes a request
to be its outcome; `Criterios` is what happens in the step between, one
thread of requests at a time. `TablasLFS` gives `LFS` its tables.
These are assumptions between modules stated here, not modules that TLC runs
together: the products are beyond it.

## 3. What is checked

Each property below is stated in its module with a comment, and for each one a
plausible bug of the code, kept in the module beside the definition it alters,
violates it.

| run | asks | instance |
|---|---|---|
| `LFS_lecturas` | is any answer stale or invented, does anybody read files being rewritten, is `TablaAbstracta` implemented, does every SELECT, dump and compaction end? (`Frescura`, `NadaInventado`, `Exclusion`, `ImplementaTabla`, `SelectTermina`, `MemtableSeVacia`, `TmpSeCompacta`) | the console, one table, two partitions, two INSERTs, three blocks, under fairness |
| `LFS_escritura` | is an acknowledged record lost, does the first record of a key stay its newest, is the bitmap exact? (`TypeOK`, `BitmapExacto`, `PrimeroEsElMayor`, `NadaSePierde`) | the writing side, four INSERTs of two keys, one partition, four blocks |
| `Planificador_turnos` | slots, semaphores, one place per request, round robin, refinement, is every accepted request resolved? (`TypeOK`, `SlotsConservados`, `SemaforosRespaldados`, `EnUnSoloLugar`, `TurnosJustos`, `ImplementaPlanificador`, `TodaRequestTermina`) | a request of each kind and two scripts, one slot, QUANTUM 0 or 1, one failed thread, under fairness |
| `Memoria_serie` | frames, keys, reads, writes, MEMORIA_FULL (`MarcosExactos`, `ClavesUnicas`, `LecturaCorrecta`, `NadaSePierde`, `LlenaDeVerdad`) | a kernel and the automatic journal, two tables of two keys over two frames, four requests |
| `Memoria_concurrente` | is a JOURNAL alone and complete, does every request end? (`TypeOK`, `ElJournalSirveSolo`, `JournalCompleto`, `RequestTermina`) | the three threads over one frame with a page in it, two requests, a fall of the file system at any point, under fairness |
| `TablasLFS_vida` | blocks neither lost nor given twice, every table its entry, every thread its entry, requests end, condemned entries go (`TypeOK`, `BloquesExactos`, `EntradaVigente`, `HilosConEntrada`, `RequestTermina`, `CondenadaSeQuita`) | two clients, two tables, one partition, two blocks, two requests, a thread that fails to be created, a kill and restart at any moment, under fairness |
| `Criterios_ruteo` | is a request executed twice, does a fallen memory stay in a criterion, does a JOURNAL skip one? (`TypeOK`, `UnaSolaVez`, `FantasmaSoloPorAdd`, `JournalATodas`) | two memories of which the main one falls and rises, a table, one request of any kind beside the automatic DESCRIBE and the gossip |
| `Gossip_vida` | do live memories end up knowing each other and forgetting the dead? (`TypeOK`, `SeConocenTodas`, `CaidasSeOlvidan`) | three memories, each the seed of the next, two falls, one start, under fairness |
| `LFS_repetidas`, `LFS_sinbloques`, `Memoria_insert`, `Memoria_cruzadas` | section 5 | |

Why these bounds are enough for the question asked:

* *LFS_lecturas.* The races of a SELECT are with one dump and one compaction of
  its table, and with a `.tmp` that does not open at any dump; two INSERTs put one record on disk and one in memory, two
  timestamps make old and new differ, two partitions make one be touched and
  the other not, and the list the compactor walks has a client and the dump.
  Three blocks, two of them the partitions' from the start, let the disk fill up. More clients
  and tables are covered by the theorems of section 4; the dump of another table that takes the
  blocks a compaction freed is in `TablasLFS_vida`, which has two tables.
* *LFS_escritura.* Four INSERTs allow two compactions of a partition that
  already holds both keys, with the records in any order, which is what the
  merge by first occurrence depends on; with four blocks a dump takes those a
  compaction freed, and blocks run out. SELECTs change nothing on disk and are
  left out (`NextEscritura`).
* *Planificador.* Three requests share one slot: somebody always waits, a script
  returns to `ready` while others are there, and the failed thread loses the only
  slot there is. `SlotsConservados` for several slots is a theorem.
* *Memoria_serie.* Four requests fill both frames, evict, hit an evicted key and
  fill the memory with modified pages.
* *Memoria_concurrente.* One frame makes each request that misses replace or be
  refused; it starts with a page (`SpecConPagina`), as a SELECT leaves it, so
  that two requests are enough to evict, drop or journal it under another
  thread. DESCRIBE touches nothing of the cache and is left out there;
  `Memoria_serie` and `Memoria_cruzadas` include it.

* *TablasLFS_vida.* Starts with no table, with one whose thread is about to
  start (`Levantada`), or with one dropped and created again while its thread
  slept (`Recreada`), so that two requests are enough for CREATE against DROP,
  DROP against dump, a compaction against the CREATE of the other table, and the two
  entries of a name, with a DROP that waits for the one that is freed. Two blocks
  make the second table meet a full disk, or take the blocks a compaction has just
  freed.
* *Criterios_ruteo.* Starts as the kernel starts, with nothing typed
  (`Arranque`: the gossip learns the memories, the main one falls before its
  number is known), or as ADDs and a DESCRIBE leave it (`Armado`), so that the
  one request is any of eight: each operation on data or tables, JOURNAL, and
  ADDs that repeat a memory or bring another. One fall is what a retry takes;
  the theorems are for any number of each.
* *Gossip_vida.* Three in a chain: the first and the last know of each other only
  through the one between. One round at a time (`MaxRondas`), nobody begins a
  second while another has had none (`yaHicieron`), one unread message per pair.

`MaxInserts`, `MaxTimestamp`, `MaxFallas`, `MaxPedidos`, `MaxCaidas`, `MaxInicios`,
`MaxReinicios`, `MaxRondas` and the sets `Fragiles` are bounds of the models, not of the code.

What holds for one client only: `MarcosExactos`, `ClavesUnicas`,
`LecturaCorrecta` and `NadaSePierde` are about a memory that serves one client
(with the automatic journal beside it). With kernel *and* console the code can
give both the same free frame (`memoria/memoria.c:404`), let LRU take a page
that another thread is about to modify, and swap answers; no comment promises
otherwise, so these are recorded as hazards, and the finding of section 5 is
about the answers. The steps are in the model. The run also leaves DROP and falls
out, because `LecturaCorrecta` and `NadaSePierde` do not survive them: a DROP from a
kernel of a table that is not EC leaves its pages in the cache
(`memoria/memoria.c:2012`), and a journal during a fall clears pages that were not written.

`JournalCompleto` assumes the file system did not fall in that behaviour, and is about
pages of tables that the file system has: the
journal clears the cache even when its INSERTs failed
(`memoria/memoria.c:2247`), and counts TABLA_NO_EXISTE as a success (`memoria/memoria.c:2226`).

What the liveness properties leave out, because the code does not do it:
`RequestTermina` of `Memoria`, requests once kernel and console have read one answer in pieces
(`Partidos`); those of `TablasLFS`, who waits for a mutex that was freed;
`TodaRequestTermina`, a QUANTUM that is 0 for ever and a kernel that lost every slot.

### 3.1 Fairness

* Weak fairness for every step of a thread that depends only on itself.
* Strong fairness for the acquisition of a mutex that others take again and again:
  `LeerMemtable`, `BloquearPropio`, `VisitarTabla` and `Bloquear` in `LFS`, `Tomar`
  in `Memoria`. A POSIX mutex promises no order among those that wait, so this
  is an assumption; what justifies it is that the periodic holders sleep
  between rounds (`tiempoDump`, COMPACTION_TIME, RETARDO_JOURNAL), so that the
  mutex is free, and a waiter scheduled, again and again.
* In `TablasLFS` strong fairness for each client (it may wait for the mutex of an
  entry or of the memtable, which is free again and again), weak for each compaction thread and for
  the dump. A mutex they wait for is held by somebody who can go on.
* In `Gossip` weak fairness for the two threads of each memory that is up.
* `Criterios` states safety only.
* In `Planificador` weak fairness is enough: each semaphore has a single waiter.
* Nothing is assumed of clients (INSERT, SELECT, console), of the change of
  QUANTUM (`TodaRequestTermina` is conditional on its not being 0 forever), or
  of a file system or a memory that fell: it need not come back.

## 4. What is proved

The theorems hold for every value of the constants that satisfies the named
assumptions of the modules (non-empty tables; a finite non-empty set of natural
keys; at least one partition; `cosasABloquear` lists each registered id once;
more thread names than slots; any number of blocks, clients, requests, slots).

**LFS.** `TiposCorrectos` (TypeOK) is inductive by itself. The rest follows from
a chain of inductive invariants, each of which uses the ones before:

1. `MutexInv` (`LFS_proofs`): whoever is in a critical section has its mutex, and
   the compactor has the mutexes its index says. `ExclusionMutua` follows because
   a mutex has one holder and the list has every id.
2. `OrigenInv`: every record in memtable, files, in the compactor's hands or in a
   client's answer was inserted. It gives `NadaSeInventa`.
3. `ArchivosInv`: phase by phase, what `.tmpc` and partitions hold, and that the
   lists the merge prepared cover the files it will free (`MezclaLista`). The
   core is `MezclaCubre` in `LFS_proofs`: for each record in the `.tmpc` files or
   in a touched partition the merged list has one as new of its key, though
   only one repeated record is removed and only the first of a key compared.
4. `DumpInv`: the tables a dump has already written are covered by their files, so
   emptying the memtable loses nothing, as long as each `.tmp` was opened and had its blocks
   (`NadaSalteado`). With `ArchivosInv` it gives
   `NingunInsertSePierde`.
5. `SelectInv`: at each point of its way a SELECT has read, or can still read,
   something as new as each record it owes. The case that needs it is a SELECT
   between its copy of the memtable and its lock while a dump and a compaction
   run. It gives `LecturasFrescas`.
6. `LFSImplementaTabla`: under the mapping of `LFS` every step is a step of
   `TablaAbstracta` or a stutter; the answering step uses 2 and 5.
7. `BloquesBienRepartidos` (`LFS_datos_proofs`): the lists of blocks of all files,
   seen as one function, partition the bitmap (`Exacto`), and a step adds a list of
   free blocks, drops lists or moves one list to another file. The move is
   rename(): over an N.tmpc that still listed blocks it would leak them. It does not,
   because then no `.tmpc` has records (`ArchivosInv`) and a file without records has
   no blocks (`VaciosInv`).
8. `PrimeroSiempreElMayor`: `PrimeroManda`, of every partition and of every list a
   merge has prepared (`OrdenInv`), is kept because the winners go first and each
   beats the first record of its key, hence all of them, and because the record that
   is removed is of a key that a winner has.

**Planificador.** `LugarInv` (where each request that is not resolved is) gives
`CadaRequestEnUnLugar`; `SemaforosInv` (each post still to come stands for an
element already queued) with `SlotsConservados` gives `SlotsSeConservan` and
`NadieTomaDeColaVacia`; `TurnosInv` (nobody has been overtaken by whoever is
still ahead of it in `ready`) gives `LosTurnosSonJustos`. With these,
`PlanificadorImplementaAbstracto`: every step is a step of
`PlanificadorAbstracto` or a stutter. The step that needs them is a dispatch: the
slot the dispatcher holds is not one of a running request (`HayLugar`), and the
head of `ready` is with no thread.

**Criterios.** `Inv` says of each thread, by where it is, what it has (`QueTiene`),
where it may go on afterwards (`DondeVa`) and that it was not answered with success
before (`UnaVez`); with the types of the lists it is inductive and gives
`TiposDeCriterios` and `SeEjecutaUnaSolaVez`. Given it, `FantasmaSoloPorAdd` is
inductive (`LosFantasmasVienenDeAdd`). `ElJournalLlegaATodas` needs `DebenInv`:
each memory that a JOURNAL still owes is in its list to send, is the one it is with, or is
at or after the cursor of the list it is walking. The cursor is the delicate
part: `Precede` orders `memoriasShc`, and removing one element of it (another
thread's `eliminarMemoria`) keeps the order of the others.

**Memoria.** For any of the three threads, any operations, non-empty
tables and keys and at least one frame (`DatosAssumption`). `TiposDeMemoria` needs
`PaginasInv`: pages and broken connections are finitely many and each page is in
a segment that exists, so that the next number of a segment, a page or a
connection is always there. `MutexInv` says that a thread that serves has every
mutex of its request, and one that is taking them those before the next; it
gives `ElJournalExcluye`. `JournalInv` follows a journal until it clears the
cache: each modified page it has walked has arrived at the file system, or is
the INSERT it is about to send, as long as the file system never fell. It is kept because
nobody else serves meanwhile (`ElJournalSirveSolo`), so the cache does not change, and
because an INSERT only makes the records of the file system newer. It gives
`JournalNoPierde`, for the tables that the file system has. These three start from the empty cache of `Init`; the run of
their properties starts with a page in it.

With one client (`UnCliente`; the automatic journal is not a client) `MutexInv`
says more: one request is served at a time. `UnoInv` is what follows. What a
request learned of the cache (`Sabe`: the segment it found, that the key is not
in it, the free frame, or the victim's frame with no page left in it) still holds when
it is used, and the only answer on its way from the file system is the one the request waits
for (`RespuestaEsperada`). It gives `LosMarcosSonExactos`,
`LasClavesSonUnicas` and `LlenaSoloSiLlena`, for all six operations and any
falls, where `Memoria_serie` has four operations and no fall.

`ElSelectEsCorrecto` and `NingunValorSePierde` add `SinPerdidas` to `UnCliente`:
no DROP, the tables in the file system from the start, no falls. The code
really loses values without each of these (a DROP that does not reach the
cache, `memoria/memoria.c:2012`; an INSERT into a table that does not exist,
which the journal sends and forgets; a journal during a fall,
`memoria/memoria.c:2247`), and `Memoria_serie` is the instance with all three. As
long as no page was taken unwritten (`pisada`), `ValoresInv` says where the
last value of each key is (`CacheInv`: in its page, with a time with which the file
system will accept it, and in the file system too if the page is not
modified or there is none), what a request brings with it
between its reading and its writing (`Trae`), and what the pages a journal has walked
are worth at the other end (`Entrega`). The clock is part of it (`HorasInv`): the
file system keeps the newest of two records, so a value written by the
cache is only kept if no record of the key is later than the page.

**TablasLFS.** For any tables, clients, partitions and blocks, any number of
requests and, except where said, of restarts at any point. `TiposDeTablas` is
inductive: in particular the list of entries never has one twice nor one that
was freed, though a thread that holds a freed entry exists (`Perdida`).

* `LaTablaTieneEntrada` by `VigenteInv`. The order of `procesarDrop` is what keeps it:
  it removes Metadata.bin before it condemns the entry, so an entry that
  is condemned, or about to be (`PorCondenar`), is of a table that is not there; and a
  CREATE that has written Metadata.bin still has its entry to add
  (`Completandola`).
* `CadaHiloTieneEntrada` by `HilosInv`: threads and threads about to be created,
  together, are not more than the entries of their table. CREATE adds its entry
  before its thread; a thread that ends removes one entry of its table, which need
  not be its own.
* `CadaBloqueUnDuenio` by `BloquesInv`: while `~choque` and `~cortado`, each block that is
  set has one owner (`UnDuenio`), a CREATE or a compaction that has it in hand or a file, and no
  other block has any. It holds between any two steps of a compaction because the thread
  that frees and asks has the mutex of the entry (`MutexInv`: one holder, and the compactions and
  the DROP of a table exclude one another), and the dump waits while the table is
  blocked. It also needs that one client at a time is in a table (`UnoPorTabla`,
  which is what `~choque` says), where CREATE and DROP are in its list of
  files (`CreateInv`, `DropInv`), and that the dump finds no `.tmp` where it is about
  to create one (`DumpInv`), which would leak the blocks of the old one.

**Gossip.** For any memories, seeds and falls. `LasListasSonDeOtras` (TypeOK) by
`GossipInv`, which goes around the circle of the messages: a list has each memory
once because what arrives has each once; that, because the list to send is
made by looking at each entry once (`RondaInv`: what is in it is the memory
itself and entries before the cursor), and it is so although entries are
removed and added while it is made. A message is never for a memory that is
down because whoever was connected to one that fell has the connection broken
(`rota`). Adding the new ones of a message in one step is faithful to the loop of
`agregarMemorias`, which looks again at the list for each, only because a message has none
twice; this is where that is proved. `Elegidas` is written out instead
of `SelectSeq`, for which the prover has no definition.

**Only model-checked.** The liveness properties (`SelectTermina`,
`MemtableSeVacia`, `TmpSeCompacta`, `TodaRequestTermina`, the `RequestTermina` of
`Memoria` and of `TablasLFS`, `CondenadaSeQuita`, `SeConocenTodas`,
`CaidasSeOlvidan`): liveness under fairness and `ENABLED` are out of the
prover's reach, and so is induction over data. Every invariant and action
property that a passing run checks is stated by a theorem. The modules use no RECURSIVE
operator.

## 5. Where code and comments disagree

Each is a run in which TLC shows the code breaking what a comment says.

* `LFS_repetidas`: `compactar` removes one record for all the repeated keys
  (`list_remove_and_destroy_by_condition`, `lfs/Compactador.c:181`), so a
  partition can hold a key more than once, against `lfs/Compactador.c:87`. Reads are
  unaffected: a SELECT takes the newest of all (`NadaSePierde`, `Frescura` and
  `PrimeroEsElMayor` hold). The file grows.
* `LFS_sinbloques`: with no free block `dumpear` logs and empties the memtable all
  the same (`lfs/Dump.c:122`), against `lfs/Dump.c:50`. (A `.tmp` that cannot be opened has
  the same end, but then `dumpear` returns an error that `hiloDump` logs: it is a hazard and not
  a finding.)
* `Memoria_insert`: an INSERT that creates its segment with the page of an LRU
  victim never writes the page (`memoria/memoria.c:1516`): it is answered
  SUCCESS and the page keeps the victim's key and value, against
  `memoria/memoria.c:1460`.
* `Memoria_cruzadas`: send and receive on the shared connection are not one
  critical section (`memoria/memoria.c:841`): kernel and console may receive each
  other's answers, against `memoria/memoria.c:779`.

## 6. What is not modelled, and why

* Metrics: counters written to a log; nothing reads them back.
* Validation and conversion in `nuestro_lib/`: pure functions of one line; what they accept
  bounds the requests of the models.
* Sockets, packets, handshakes, configuration files: I/O. Their failures appear as
  outcomes (a connection that falls, a line that fails).
* In the LFS: DESCRIBE, which only reads; the registration of a memory in
  `cosasABloquear` and the steps of `setBlockTo` while the list changes (`LFS` has
  its clients registered from the beginning); the lookup of SELECT in
  `TablasLFS`; the creation of the first file system. A kill in the middle of
  a compaction is in `TablasLFS` as far as blocks go, and not in `LFS`: what it does to
  records is not modelled.
* A negative QUANTUM (`kernel/kernel.c:1833`) is undefined behaviour that ends the
  process; no configuration of the repository has one.
* Memory leaks and end of the process (`EXIT`).

## 7. What is done and what is left

1. `LFS`: modelled, checked, safety and refinement proved. Left: a restart in the
   middle of a compaction, which is where `N.tmpc` files are lost (`lfs/Compactador.c:155`).
2. `Planificador`: modelled, checked, safety and refinement proved.
3. `Memoria`: modelled, checked, every checked safety property proved. Left: frames
   and keys with kernel and console at once, for the requests that do not meet.
4. `TablasLFS`: modelled, checked, every checked safety property proved. Left:
   registration of memories.
5. `Criterios`: modelled, checked, every checked property proved. Left: liveness
   of a request that is sent again, which needs a bound on falls.
6. `Gossip`: modelled, checked, its safety proved.
7. Validation of requests as operators, against a reference definition.
