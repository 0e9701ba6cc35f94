---------------------------- MODULE Planificador ----------------------------
(***************************************************************************)
(* The scheduler of the kernel (kernel/kernel.c): the console, which       *)
(* queues requests in "new"; the thread that validates them and moves them *)
(* to "ready" (planificarNewAReady); the thread that gives each a thread   *)
(* of its own while the level of multiprogramming allows it                *)
(* (planificarReadyAExec); and those threads, which run a request, or a    *)
(* quantum of the lines of a script (procesarRequest, procesarRun).        *)
(*                                                                         *)
(* A request is an identifier; what it asks of a memory is modelled by its *)
(* outcome.  Each queue has a semaphore that counts it and a mutex, held   *)
(* only while the queue is touched, so that touching it is one step.       *)
(***************************************************************************)
EXTENDS Integers, Sequences, SequencesExt, FiniteSets

CONSTANTS
  Requests,            \* what is typed in the console, each once
  Tipo,                \* the kind of each request
  Lineas,              \* the lines of the script a RUN names
  Multiprocesamiento,  \* MULTIPROCESAMIENTO of the configuration
  Quantums,            \* the values QUANTUM may take
  Hilos,               \* names for the threads of the requests
  Nadie,               \* no request
  MaxFallas            \* bound: failures of pthread_create in a behaviour

\* "comun" stands for SELECT, INSERT, CREATE, DESCRIBE, DROP and JOURNAL;
\* "directa" for ADD and METRICS; "rechazada" for a request that does not pass
\* validarRequest, or a RUN whose file does not exist.
Tipos == {"comun", "run", "directa", "rechazada"}

\* A line is a request for a memory, or one that no script may have (invalid,
\* RUN, ADD, METRICS or JOURNAL).
Linea == {"memoria", "ilegal"}

ASSUME TipoAssumption == Tipo \in [Requests -> Tipos]
ASSUME NadieAssumption == Nadie \notin Requests
ASSUME LineasAssumption ==
  /\ Lineas \in [Requests -> Seq(Linea)]
  /\ \A r \in Requests : Tipo[r] # "run" => Lineas[r] = <<>>
ASSUME MultiprocesamientoAssumption == Multiprocesamiento \in Nat
ASSUME QuantumsAssumption == Quantums \subseteq Nat /\ Quantums # {}
ASSUME HilosAssumption ==
  /\ Hilos \subseteq Nat /\ IsFiniteSet(Hilos)
  /\ Cardinality(Hilos) > Multiprocesamiento
ASSUME MaxFallasAssumption == MaxFallas \in Nat

VARIABLES
  new,          \* the queue of requests to validate
  semNew,       \* semRequestNew
  consola,      \* leerDeConsola: has pushed a request and is about to post
  validador,    \* planificarNewAReady: the request it has
  ready,        \* the queue of requests to run
  semReady,     \* semRequestReady
  despachador,  \* planificarReadyAExec: what it waits for
  semMulti,     \* semMultiprocesamiento
  hilos,        \* the threads of the requests
  avance,       \* the lines taken out of the queue of each script
  quantum,      \* the kernel's quantum
  directas,     \* ADD and METRICS, with a thread of their own each
  fallas,       \* history: slots of semMulti that no thread will give back
  estado,       \* history: what became of each request
  adelantos     \* history: how many times a request was given a thread while
                \* another was waiting in ready

planificacion == <<consola, validador, despachador>>
colas == <<new, semNew, ready, semReady, semMulti>>
vars == <<colas, planificacion, hilos, avance, quantum, directas, fallas,
          estado, adelantos>>

Libre == [pc |-> "libre", req |-> Nadie, q |-> 0, i |-> 0]

Init ==
  /\ new = <<>> /\ semNew = 0
  /\ consola = "lee"
  /\ validador = [pc |-> "espera", req |-> Nadie]
  /\ ready = <<>> /\ semReady = 0
  /\ despachador = "esperaReady"
  /\ semMulti = Multiprocesamiento
  /\ hilos = [h \in Hilos |-> Libre]
  /\ avance = [r \in Requests |-> 0]
  /\ quantum \in Quantums
  /\ directas = {}
  /\ fallas = 0
  /\ estado = [r \in Requests |-> "afuera"]
  /\ adelantos = [r \in Requests |-> [s \in Requests |-> 0]]

------------------------------------------------------------------------------
(* planificarRequest.                                                      *)

Encolar(r) ==
  /\ consola = "lee" /\ estado[r] = "afuera" /\ Tipo[r] # "directa"
  /\ new' = Append(new, r)
  /\ consola' = "avisa"
  /\ estado' = [estado EXCEPT ![r] = "aceptada"]
  /\ UNCHANGED <<semNew, ready, semReady, semMulti, validador, despachador,
                 hilos, avance, quantum, directas, fallas, adelantos>>

AvisarNew ==
  /\ consola = "avisa"
  /\ semNew' = semNew + 1
  /\ consola' = "lee"
  /\ UNCHANGED <<new, ready, semReady, semMulti, validador, despachador,
                 hilos, avance, quantum, directas, fallas, estado, adelantos>>

\* ADD and METRICS do not wait for anybody.
EjecutarSinPlanificar(r) ==
  /\ consola = "lee" /\ estado[r] = "afuera" /\ Tipo[r] = "directa"
  /\ directas' = directas \cup {r}
  /\ estado' = [estado EXCEPT ![r] = "aceptada"]
  /\ UNCHANGED <<colas, planificacion, hilos, avance, quantum, fallas, adelantos>>

\* Their thread could not be created: an error is logged, and that is all.
FallarDirecta(r) ==
  /\ consola = "lee" /\ estado[r] = "afuera" /\ Tipo[r] = "directa"
  /\ estado' = [estado EXCEPT ![r] = "descartada"]
  /\ UNCHANGED <<colas, planificacion, hilos, avance, quantum, directas, fallas,
                 adelantos>>

\* procesarRequestSinPlanificar.
TerminarDirecta(r) ==
  /\ r \in directas
  /\ directas' = directas \ {r}
  /\ estado' = [estado EXCEPT ![r] = "terminada"]
  /\ UNCHANGED <<colas, planificacion, hilos, avance, quantum, fallas, adelantos>>

------------------------------------------------------------------------------
(* The queue of ready.                                                     *)

\* queue_push(ready, r).
Empujar_Adelante(r) == ready' = <<r>> \o ready /\ UNCHANGED adelantos
Empujar(r) == ready' = Append(ready, r) /\ UNCHANGED adelantos

\* queue_pop(ready): the first overtakes those that stay.
Sacar ==
  /\ ready # <<>>
  /\ ready' = Tail(ready)
  /\ adelantos' = [r \in Requests |-> [s \in Requests |->
       IF r \in Range(Tail(ready))
       THEN adelantos[r][s] + (IF s = Head(ready) THEN 1 ELSE 0)
       ELSE 0]]

------------------------------------------------------------------------------
(* planificarNewAReady.                                                    *)

TomarDeNew_SinEsperar ==
  /\ validador.pc = "espera" /\ new # <<>>
  /\ semNew' = semNew
  /\ validador' = [pc |-> "valida", req |-> Head(new)]
  /\ new' = Tail(new)
  /\ UNCHANGED <<ready, semReady, semMulti, consola, despachador, hilos, avance,
                 quantum, directas, fallas, estado, adelantos>>

TomarDeNew ==
  /\ validador.pc = "espera" /\ semNew > 0 /\ new # <<>>
  /\ semNew' = semNew - 1
  /\ validador' = [pc |-> "valida", req |-> Head(new)]
  /\ new' = Tail(new)
  /\ UNCHANGED <<ready, semReady, semMulti, consola, despachador, hilos, avance,
                 quantum, directas, fallas, estado, adelantos>>

Rechazar ==
  /\ validador.pc = "valida" /\ Tipo[validador.req] = "rechazada"
  /\ estado' = [estado EXCEPT ![validador.req] = "descartada"]
  /\ validador' = [pc |-> "espera", req |-> Nadie]
  /\ UNCHANGED <<colas, consola, despachador, hilos, avance, quantum, directas,
                 fallas, adelantos>>

\* reservarRecursos, up to its push.
Reservar ==
  /\ validador.pc = "valida" /\ Tipo[validador.req] # "rechazada"
  /\ Empujar(validador.req)
  /\ validador' = [pc |-> "avisa", req |-> Nadie]
  /\ UNCHANGED <<new, semNew, semReady, semMulti, consola, despachador, hilos,
                 avance, quantum, directas, fallas, estado>>

AvisarReady ==
  /\ validador.pc = "avisa"
  /\ semReady' = semReady + 1
  /\ validador' = [pc |-> "espera", req |-> Nadie]
  /\ UNCHANGED <<new, semNew, ready, semMulti, consola, despachador, hilos,
                 avance, quantum, directas, fallas, estado, adelantos>>

------------------------------------------------------------------------------
(* planificarReadyAExec.                                                   *)

EsperarReady_SinEsperar ==
  /\ despachador = "esperaReady"
  /\ semReady' = semReady - 1
  /\ despachador' = "esperaMulti"
  /\ UNCHANGED <<new, semNew, ready, semMulti, consola, validador, hilos, avance,
                 quantum, directas, fallas, estado, adelantos>>

EsperarReady ==
  /\ despachador = "esperaReady" /\ semReady > 0
  /\ semReady' = semReady - 1
  /\ despachador' = "esperaMulti"
  /\ UNCHANGED <<new, semNew, ready, semMulti, consola, validador, hilos, avance,
                 quantum, directas, fallas, estado, adelantos>>

EsperarMulti_SinEsperar ==
  /\ despachador = "esperaMulti"
  /\ semMulti' = semMulti
  /\ despachador' = "saca"
  /\ UNCHANGED <<new, semNew, ready, semReady, consola, validador, hilos, avance,
                 quantum, directas, fallas, estado, adelantos>>

EsperarMulti ==
  /\ despachador = "esperaMulti" /\ semMulti > 0
  /\ semMulti' = semMulti - 1
  /\ despachador' = "saca"
  /\ UNCHANGED <<new, semNew, ready, semReady, consola, validador, hilos, avance,
                 quantum, directas, fallas, estado, adelantos>>

\* Despachar gives a request a thread, under the first name nobody uses.
PrimeroLibre(h) ==
  hilos[h] = Libre /\ \A g \in Hilos : hilos[g] = Libre => h <= g

Despachar(h) ==
  /\ despachador = "saca" /\ PrimeroLibre(h)
  /\ Sacar
  /\ hilos' = [hilos EXCEPT ![h] =
       [Libre EXCEPT !.pc = IF Tipo[Head(ready)] = "run" THEN "empieza" ELSE "ejecuta",
                     !.req = Head(ready)]]
  /\ despachador' = "esperaReady"
  /\ UNCHANGED <<new, semNew, semReady, semMulti, consola, validador, avance,
                 quantum, directas, fallas, estado>>

\* pthread_create fails: the request is dropped, and its slot is not given back.
FallarHilo ==
  /\ despachador = "saca" /\ fallas < MaxFallas
  /\ Sacar
  /\ estado' = [estado EXCEPT ![Head(ready)] = "descartada"]
  /\ fallas' = fallas + 1
  /\ despachador' = "esperaReady"
  /\ UNCHANGED <<new, semNew, semReady, semMulti, consola, validador, hilos,
                 avance, quantum, directas>>

------------------------------------------------------------------------------
(* procesarRequest and procesarRun, in the thread of a request.            *)

\* manejarRequest, of a request that is not a RUN: its result is not used.
Ejecutar(h) ==
  /\ hilos[h].pc = "ejecuta"
  /\ estado' = [estado EXCEPT ![hilos[h].req] = "terminada"]
  /\ hilos' = [hilos EXCEPT ![h].pc = "libera"]
  /\ UNCHANGED <<colas, planificacion, avance, quantum, directas, fallas, adelantos>>

TomarQuantum(h) ==
  /\ hilos[h].pc = "empieza"
  /\ hilos' = [hilos EXCEPT ![h].pc = "itera", ![h].q = quantum]
  /\ UNCHANGED <<colas, planificacion, avance, quantum, directas, fallas, estado,
                 adelantos>>

ColaVacia(r) == avance[r] = Len(Lineas[r])

\* The line at the head of the script goes to a memory.
EnviarLinea(h) ==
  /\ hilos[h].pc = "itera" /\ ~ColaVacia(hilos[h].req) /\ hilos[h].i < hilos[h].q
  /\ hilos' = [hilos EXCEPT ![h].pc = "enviada"]
  /\ UNCHANGED <<colas, planificacion, avance, quantum, directas, fallas, estado,
                 adelantos>>

\* The line succeeded, and leaves the script.
LineaExitosa(h) ==
  LET r == hilos[h].req
  IN  /\ hilos[h].pc = "enviada" /\ Lineas[r][avance[r] + 1] = "memoria"
      /\ avance' = [avance EXCEPT ![r] = @ + 1]
      /\ hilos' = [hilos EXCEPT ![h].pc = "itera", ![h].i = @ + 1]
      /\ UNCHANGED <<colas, planificacion, quantum, directas, fallas, estado,
                     adelantos>>

\* The line was not valid or failed: the script is cancelled.
LineaFallida(h) ==
  /\ hilos[h].pc = "enviada"
  /\ estado' = [estado EXCEPT ![hilos[h].req] = "cancelada"]
  /\ hilos' = [hilos EXCEPT ![h].pc = "libera"]
  /\ UNCHANGED <<colas, planificacion, avance, quantum, directas, fallas, adelantos>>

FinDeQuantum_SinSoltar(h) ==
  /\ hilos[h].pc = "itera" /\ ~ColaVacia(hilos[h].req) /\ hilos[h].i = hilos[h].q
  /\ Empujar(hilos[h].req)
  /\ hilos' = [hilos EXCEPT ![h].pc = "empieza", ![h].i = 0]
  /\ UNCHANGED <<new, semNew, semReady, semMulti, planificacion, avance, quantum,
                 directas, fallas, estado>>

\* The script goes back to ready, and the thread forgets it.
FinDeQuantum(h) ==
  /\ hilos[h].pc = "itera" /\ ~ColaVacia(hilos[h].req) /\ hilos[h].i = hilos[h].q
  /\ Empujar(hilos[h].req)
  /\ hilos' = [hilos EXCEPT ![h].pc = "avisa"]
  /\ UNCHANGED <<new, semNew, semReady, semMulti, planificacion, avance, quantum,
                 directas, fallas, estado>>

FinDeScript(h) ==
  /\ hilos[h].pc = "itera" /\ ColaVacia(hilos[h].req)
  /\ estado' = [estado EXCEPT ![hilos[h].req] = "terminada"]
  /\ hilos' = [hilos EXCEPT ![h].pc = "libera"]
  /\ UNCHANGED <<colas, planificacion, avance, quantum, directas, fallas, adelantos>>

VolverAReady_SinAvisar(h) ==
  /\ hilos[h].pc = "avisa"
  /\ semReady' = semReady
  /\ hilos' = [hilos EXCEPT ![h].pc = "libera"]
  /\ UNCHANGED <<new, semNew, ready, semMulti, planificacion, avance, quantum,
                 directas, fallas, estado, adelantos>>

VolverAReady(h) ==
  /\ hilos[h].pc = "avisa"
  /\ semReady' = semReady + 1
  /\ hilos' = [hilos EXCEPT ![h].pc = "libera"]
  /\ UNCHANGED <<new, semNew, ready, semMulti, planificacion, avance, quantum,
                 directas, fallas, estado, adelantos>>

Liberar_SinAvisar(h) ==
  /\ hilos[h].pc = "libera"
  /\ hilos' = [hilos EXCEPT ![h] = Libre]
  /\ UNCHANGED <<colas, planificacion, avance, quantum, directas, fallas, estado,
                 adelantos>>

\* sem_post(&semMultiprocesamiento): the thread ends.
Liberar(h) ==
  /\ hilos[h].pc = "libera"
  /\ semMulti' = semMulti + 1
  /\ hilos' = [hilos EXCEPT ![h] = Libre]
  /\ UNCHANGED <<new, semNew, ready, semReady, planificacion, avance, quantum,
                 directas, fallas, estado, adelantos>>

\* escucharCambiosEnConfig.
CambiarQuantum(q) ==
  /\ quantum' = q
  /\ UNCHANGED <<colas, planificacion, hilos, avance, directas, fallas, estado,
                 adelantos>>

------------------------------------------------------------------------------
AccionesDeHilo(h) ==
  \/ Ejecutar(h)
  \/ TomarQuantum(h)
  \/ EnviarLinea(h)
  \/ LineaExitosa(h)
  \/ LineaFallida(h)
  \/ FinDeQuantum(h)
  \/ FinDeScript(h)
  \/ VolverAReady(h)
  \/ Liberar(h)

AccionesDeValidador == TomarDeNew \/ Rechazar \/ Reservar \/ AvisarReady

AccionesDeDespachador ==
  \/ EsperarReady
  \/ EsperarMulti
  \/ \E h \in Hilos : Despachar(h)
  \/ FallarHilo

Next ==
  \/ \E r \in Requests :
       \/ Encolar(r) \/ EjecutarSinPlanificar(r)
       \/ FallarDirecta(r) \/ TerminarDirecta(r)
  \/ AvisarNew
  \/ AccionesDeValidador
  \/ AccionesDeDespachador
  \/ \E h \in Hilos : AccionesDeHilo(h)
  \/ \E q \in Quantums : CambiarQuantum(q)

Spec == Init /\ [][Next]_vars

\* Every thread keeps running, and a memory answers or its connection falls.
\* Each semaphore has one thread that waits on it, so that weak fairness is
\* enough; the console and the configuration owe nothing.
Fairness ==
  /\ WF_vars(AvisarNew)
  /\ WF_vars(AccionesDeValidador)
  /\ WF_vars(AccionesDeDespachador)
  /\ \A h \in Hilos : WF_vars(AccionesDeHilo(h))
  /\ \A r \in Requests : WF_vars(TerminarDirecta(r))

FairSpec == Spec /\ Fairness

------------------------------------------------------------------------------
PcDeHilo == {"libre", "ejecuta", "empieza", "itera", "enviada", "avisa", "libera"}

Estados == {"afuera", "aceptada", "descartada", "terminada", "cancelada"}

\* Every variable keeps its type: semaphores do not go below zero, no script
\* advances beyond its last line.
TypeOK ==
  /\ new \in Seq(Requests) /\ semNew \in Nat
  /\ consola \in {"lee", "avisa"}
  /\ validador \in [pc : {"espera", "avisa"}, req : {Nadie}]
                     \cup [pc : {"valida"}, req : Requests]
  /\ ready \in Seq(Requests) /\ semReady \in Nat
  /\ despachador \in {"esperaReady", "esperaMulti", "saca"}
  /\ semMulti \in Nat
  /\ hilos \in [Hilos -> [pc : PcDeHilo, req : Requests \cup {Nadie}, q : Nat, i : Nat]]
  /\ avance \in [Requests -> Nat]
  /\ \A r \in Requests : avance[r] <= Len(Lineas[r])
  /\ quantum \in Quantums
  /\ directas \subseteq Requests
  /\ fallas \in Nat
  /\ estado \in [Requests -> Estados]
  /\ adelantos \in [Requests -> [Requests -> Nat]]

------------------------------------------------------------------------------
(* Safety.                                                                 *)

Activos == {h \in Hilos : hilos[h].pc # "libre"}

\* The script or request of the thread is its alone: it has not given it back
\* to ready nor finished it.
Duenio(h) == hilos[h].pc \in {"ejecuta", "empieza", "itera", "enviada"}

\* No more than MULTIPROCESAMIENTO threads run requests, and each slot of the
\* semaphore is free, in use, in the hands of the dispatcher or lost with a
\* thread that could not be created.
SlotsConservados ==
  Multiprocesamiento =
    semMulti + Cardinality(Activos) + fallas + (IF despachador = "saca" THEN 1 ELSE 0)

\* What a semaphore has counted is in its queue, so that planificarNewAReady
\* and planificarReadyAExec never look at the head of an empty one.
SemaforosRespaldados ==
  /\ semNew <= Len(new)
  /\ semReady + (IF despachador = "esperaReady" THEN 0 ELSE 1) <= Len(ready)

\* A request is in one place: waiting once, or with one thread.  Two threads
\* would share and free the same queue of lines.
EnUnSoloLugar ==
  /\ IsInjective(new) /\ IsInjective(ready)
  /\ Range(new) \cap Range(ready) = {}
  /\ \A g, h \in Hilos :
       Duenio(g) /\ Duenio(h) /\ g # h => hilos[g].req # hilos[h].req
  /\ \A h \in Hilos : Duenio(h) => hilos[h].req \notin Range(new) \cup Range(ready)

\* While a request waits in ready no other is given a thread twice: a script
\* that used up its quantum goes behind whoever was waiting.
TurnosJustos ==
  \A r \in Range(ready) : \A s \in Requests : adelantos[r][s] <= 1

\* The kernel runs requests as PlanificadorAbstracto promises.
Abstracto == INSTANCE PlanificadorAbstracto WITH
  Directas <- {r \in Requests : Tipo[r] = "directa"},
  exec <- {hilos[h].req : h \in {g \in Hilos : Duenio(g)}}

ImplementaPlanificador == Abstracto!Spec

------------------------------------------------------------------------------
(* Liveness.                                                               *)

Resuelta(r) == estado[r] \in {"terminada", "cancelada", "descartada"}

\* Every request that was accepted is finished, cancelled or dropped, unless
\* QUANTUM keeps being 0, which sends scripts back to ready forever, or every
\* slot was lost to threads that could not be created.
TodaRequestTermina ==
  (<>[](quantum # 0)) =>
    \A r \in Requests :
      estado[r] = "aceptada" ~> (Resuelta(r) \/ fallas = Multiprocesamiento)
------------------------------------------------------------------------------
(* Inductive invariants: what makes the safety properties hold.            *)

Avisando == {h \in Hilos : hilos[h].pc = "avisa"}

\* Each post that is still to come stands for an element already queued.
SemaforosInv ==
  /\ semNew + (IF consola = "avisa" THEN 1 ELSE 0) = Len(new)
  /\ semReady + (IF despachador = "esperaReady" THEN 0 ELSE 1)
       + (IF validador.pc = "avisa" THEN 1 ELSE 0) + Cardinality(Avisando) = Len(ready)

\* Where a request that has not been resolved is.
EnCola(r) == r \in Range(new) \cup Range(ready)
EnValidador(r) == validador.pc = "valida" /\ validador.req = r
EnHilo(r) == \E h \in Hilos : Duenio(h) /\ hilos[h].req = r

LugarInv ==
  /\ EnUnSoloLugar
  /\ \A r \in Requests : EnValidador(r) => ~EnCola(r) /\ ~EnHilo(r)
  /\ \A r \in Requests : EnCola(r) \/ EnValidador(r) \/ EnHilo(r) =>
       estado[r] = "aceptada" /\ Tipo[r] # "directa"
  /\ \A r \in directas : estado[r] = "aceptada" /\ Tipo[r] = "directa"
  /\ \A h \in Hilos :
       /\ Duenio(h) => hilos[h].req \in Requests
       /\ hilos[h].pc = "ejecuta" => Tipo[hilos[h].req] # "run"
       /\ hilos[h].pc = "enviada" => ~ColaVacia(hilos[h].req)

\* Nobody in ready has been overtaken by whoever is still ahead of it.
TurnosInv ==
  /\ TurnosJustos
  /\ \A r \in Requests \ Range(ready) : \A s \in Requests : adelantos[r][s] = 0
  /\ \A i, j \in DOMAIN ready : i < j => adelantos[ready[j]][ready[i]] = 0
==============================================================================
