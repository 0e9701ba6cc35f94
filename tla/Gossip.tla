-------------------------------- MODULE Gossip --------------------------------
(***************************************************************************)
(* The gossip between the memories (memoria/memoria.c).  Each has a list   *)
(* of the memories it believes are up, a thread that from time to time     *)
(* looks whether they still are, and sends its list to its seeds and to    *)
(* them (hacerGossiping, mandarGossiping), and a thread that attends to    *)
(* its sockets and adds what arrives (agregarMemorias).  Memories fall and *)
(* start again.  What the kernel does with the list it asks for is in      *)
(* module Criterios.                                                       *)
(*                                                                         *)
(* A memory is its ip and port; its number travels with it, and is there   *)
(* always: an entry without one is not added.                              *)
(***************************************************************************)
EXTENDS Integers, Sequences, SequencesExt, FiniteSets

CONSTANTS
  Memorias,
  Seeds,        \* IP_SEEDS and PUERTO_SEEDS of each memory
  Fragiles,     \* bound: the memories that may fall by themselves
  MaxCaidas,    \* bound: how many times that happens
  MaxInicios,   \* bound: how many times one is started again
  MaxRondas,    \* bound: how many rounds of gossip go on at once
  Nadie

ASSUME SeedsAssumption == Seeds \in [Memorias -> Seq(Memorias)]
ASSUME NadieAssumption == Nadie \notin Memorias

VARIABLES
  arriba,              \* the memories that are running
  memoriasLevantadas,  \* the list of each
  ronda,               \* what its thread of gossip is doing
  buzon,               \* what was sent and not read: bound, one from each to each
  yaHicieron,          \* bound: nobody does two rounds while another does none
  caidas, inicios

red == <<arriba, buzon>>
cuentas == <<yaHicieron, caidas, inicios>>
vars == <<red, memoriasLevantadas, ronda, cuentas>>

\* tengo: the list to send; faltan: whom to send it; a: to whom it is connected.
Duerme ==
  [pc |-> "duerme", i |-> 1, tengo |-> <<>>, faltan |-> <<>>, a |-> Nadie, rota |-> FALSE]

Init ==
  /\ arriba = Memorias /\ buzon = {}
  /\ memoriasLevantadas = [m \in Memorias |-> <<>>]
  /\ ronda = [m \in Memorias |-> Duerme]
  /\ yaHicieron = {} /\ caidas = 0 /\ inicios = 0

EsSeed(m, x) == x \in ToSet(Seeds[m])
Sin(lista, x) == RemoveFirst(lista, x)

\* Those at the places I of the list, in its order.
Elegidas(lista, I) ==
  [k \in 1..Cardinality(I) |->
     lista[CHOOSE i \in I : Cardinality({j \in I : j <= i}) = k]]

Pasa(m, r) == ronda' = [ronda EXCEPT ![m] = r] /\ UNCHANGED <<red, cuentas>>
SoloRonda(m, r) == Pasa(m, r) /\ UNCHANGED memoriasLevantadas

\* The process ends.  What was sent to it is lost, and who is connected to it
\* does not know yet.
Termina(m) ==
  /\ arriba' = arriba \ {m}
  /\ buzon' = {s \in buzon : s.para # m}
  /\ memoriasLevantadas' = [memoriasLevantadas EXCEPT ![m] = <<>>]
  /\ ronda' = [x \in Memorias |->
       IF x = m THEN Duerme ELSE [ronda[x] EXCEPT !.rota = @ \/ ronda[x].a = m]]

Caer(m) ==
  /\ m \in arriba \cap Fragiles /\ caidas < MaxCaidas
  /\ Termina(m)
  /\ caidas' = caidas + 1 /\ UNCHANGED <<inicios, yaHicieron>>

Levantar(m) ==
  /\ m \notin arriba /\ inicios < MaxInicios
  /\ arriba' = arriba \cup {m}
  /\ inicios' = inicios + 1
  /\ UNCHANGED <<buzon, memoriasLevantadas, ronda, yaHicieron, caidas>>

------------------------------------------------------------------------------
(* hacerGossiping.                                                         *)

Comenzar(m) ==
  LET enRonda == {x \in arriba : ronda[x].pc # "duerme"}
      hechas == IF arriba \subseteq yaHicieron THEN {} ELSE yaHicieron
  IN
  /\ ronda[m].pc = "duerme"
  /\ Cardinality(enRonda) < MaxRondas
  /\ m \notin hechas /\ yaHicieron' = hechas \cup {m}
  /\ ronda' = [ronda EXCEPT ![m] = [Duerme EXCEPT !.pc = "mirar", !.tengo = <<m>>]]
  /\ UNCHANGED <<red, memoriasLevantadas, caidas, inicios>>

Mirar_SinConectar(m) ==
  LET r == ronda[m]
      lista == memoriasLevantadas[m]
      x == lista[r.i]
  IN
  /\ r.pc = "mirar" /\ r.i <= Len(lista)
  /\ SoloRonda(m, [r EXCEPT !.i = @ + 1, !.tengo = Append(@, x)])

\* Only what answers is sent; what does not is removed, and the entry that
\* takes its place is not looked at.
Mirar(m) ==
  LET r == ronda[m]
      lista == memoriasLevantadas[m]
      x == lista[r.i]
      vive == x \in arriba
  IN
  /\ r.pc = "mirar" /\ r.i <= Len(lista)
  /\ memoriasLevantadas' = [memoriasLevantadas EXCEPT ![m] = IF vive THEN @ ELSE Sin(@, x)]
  /\ Pasa(m, [r EXCEPT !.i = @ + 1, !.tengo = IF vive THEN Append(@, x) ELSE @])

ALasSeeds(m) ==
  LET r == ronda[m] IN
  /\ r.pc = "mirar" /\ r.i > Len(memoriasLevantadas[m])
  /\ SoloRonda(m, [r EXCEPT !.pc = "seeds", !.i = 1, !.faltan = Seeds[m]])

ALasDemas_SinLasNuevas(m) ==
  LET r == ronda[m] IN
  /\ r.pc = "seeds" /\ r.faltan = <<>>
  /\ SoloRonda(m, Duerme)

\* From here to the end of the round it holds semMMemoriasLevantadas.  Bound:
\* what has arrived is read before that.
ALasDemas(m) ==
  LET r == ronda[m]
      lista == memoriasLevantadas[m]
      demas == Elegidas(lista, {i \in DOMAIN lista : ~EsSeed(m, lista[i])})
  IN
  /\ r.pc = "seeds" /\ r.faltan = <<>> /\ \A s \in buzon : s.para # m
  /\ SoloRonda(m, IF demas = <<>> THEN Duerme
                  ELSE [r EXCEPT !.pc = "levantadas", !.faltan = demas])

------------------------------------------------------------------------------
(* mandarGossiping and eliminarMemoria.                                    *)

Siguiente(r) ==
  IF r.pc = "levantadas" /\ Len(r.faltan) = 1 THEN Duerme
  ELSE [r EXCEPT !.faltan = Tail(@), !.a = Nadie, !.rota = FALSE]

\* While it goes through the seeds the list is not locked: what is read of it
\* and the change are two steps.  If it is not in the list there is no change.
AlEliminar(m, x) ==
  LET r == ronda[m] IN
  IF r.pc = "seeds" /\ x \in ToSet(memoriasLevantadas[m])
  THEN SoloRonda(m, [r EXCEPT !.pc = "eliminar", !.a = Nadie, !.rota = FALSE])
  ELSE /\ memoriasLevantadas' = [memoriasLevantadas EXCEPT ![m] = Sin(@, x)]
       /\ Pasa(m, Siguiente(r))

Eliminar(m) ==
  LET r == ronda[m] IN
  /\ r.pc = "eliminar"
  /\ memoriasLevantadas' = [memoriasLevantadas EXCEPT ![m] = Sin(@, Head(r.faltan))]
  /\ Pasa(m, [Siguiente(r) EXCEPT !.pc = "seeds"])

Enviando(r) == r.pc \in {"seeds", "levantadas"} /\ r.faltan # <<>>

Conectar(m) ==
  LET r == ronda[m]
      x == Head(r.faltan)
  IN
  /\ Enviando(r) /\ r.a = Nadie
  /\ \/ x \in arriba /\ SoloRonda(m, [r EXCEPT !.a = x])
     \/ x \notin arriba /\ AlEliminar(m, x)

\* If it has fallen since, a send fails or SIGPIPE, which nobody handles, ends
\* the process.
Enviar(m) ==
  LET r == ronda[m] IN
  /\ Enviando(r) /\ r.a # Nadie
  /\ \/ /\ ~r.rota
        /\ \A s \in buzon : <<s.de, s.para>> # <<m, r.a>>
        /\ buzon' = buzon \cup {[de |-> m, para |-> r.a, memorias |-> r.tengo]}
        /\ ronda' = [ronda EXCEPT ![m] = Siguiente(r)]
        /\ UNCHANGED <<arriba, memoriasLevantadas, cuentas>>
     \/ r.rota /\ AlEliminar(m, r.a)
     \/ r.rota /\ Termina(m) /\ UNCHANGED cuentas

Ronda(m) ==
  \/ Comenzar(m)
  \/ Mirar(m)
  \/ ALasSeeds(m)
  \/ Conectar(m)
  \/ Enviar(m)
  \/ Eliminar(m)
  \/ ALasDemas(m)

------------------------------------------------------------------------------
(* agregarMemorias.                                                        *)

Nuevas_ConUnoMismo(m, recibidas) ==
  Elegidas(recibidas, {i \in DOMAIN recibidas : recibidas[i] \notin ToSet(memoriasLevantadas[m])})

\* Those that are not in the list; never itself.
Nuevas(m, recibidas) ==
  Elegidas(recibidas,
    {i \in DOMAIN recibidas : recibidas[i] \notin {m} \cup ToSet(memoriasLevantadas[m])})

\* The thread of gossip may be removing an entry, and that without the mutex: a
\* memory added then may be linked to the node that goes, or to none.
Recibir(m) ==
  LET r == ronda[m]
      lista == memoriasLevantadas[m]
  IN
  \E s \in buzon :
    LET nuevas == Nuevas(m, s.memorias)
        carrera == r.pc = "eliminar" /\ nuevas # <<>>
    IN
    /\ s.para = m /\ r.pc # "levantadas"
    /\ \/ /\ memoriasLevantadas' = [memoriasLevantadas EXCEPT ![m] = @ \o nuevas]
          /\ buzon' = buzon \ {s} /\ UNCHANGED <<arriba, ronda, cuentas>>
       \/ /\ carrera /\ Last(lista) = Head(r.faltan)
          /\ buzon' = buzon \ {s} /\ UNCHANGED <<arriba, memoriasLevantadas, ronda, cuentas>>
       \/ carrera /\ Termina(m) /\ UNCHANGED cuentas

------------------------------------------------------------------------------
Next ==
  \/ \E m \in Memorias :
       \/ m \in arriba /\ (Ronda(m) \/ Recibir(m))
       \/ Caer(m)
       \/ Levantar(m)
  \/ arriba = {} /\ UNCHANGED vars

Spec == Init /\ [][Next]_vars

\* Both threads go on.  No memory needs to fall, or to start again.
Fairness ==
  \A m \in Memorias :
    WF_vars(m \in arriba /\ Ronda(m)) /\ WF_vars(m \in arriba /\ Recibir(m))

FairSpec == Spec /\ Fairness

------------------------------------------------------------------------------
\* Each list has other memories, and each of them once; nobody writes to itself
\* unless it is its own seed.
TypeOK ==
  /\ arriba \subseteq Memorias
  /\ \A m \in Memorias :
       /\ ToSet(memoriasLevantadas[m]) \subseteq Memorias \ {m}
       /\ IsInjective(memoriasLevantadas[m])
       /\ m \notin arriba => memoriasLevantadas[m] = <<>> /\ ronda[m] = Duerme
  /\ \A s \in buzon : s.para \in arriba /\ (s.para = s.de => EsSeed(s.de, s.de))

\* The seeds join all the memories that are up.
Unidas ==
  LET Vecinas(S) == {x \in arriba : \E y \in S : EsSeed(x, y) \/ EsSeed(y, x)}
  IN  \A S \in SUBSET arriba : S # {} /\ S # arriba => ~(Vecinas(S) \subseteq S)

\* Once no more of them fall or start, every memory ends up with all those
\* that are up in its list, as long as the seeds join them.
SeConocenTodas ==
  <>[](Unidas => \A m \in arriba : arriba \ {m} \subseteq ToSet(memoriasLevantadas[m]))

\* And with no other, whatever the seeds: what one sends was up when it looked,
\* so that two memories do not keep alive for each other one that fell.
CaidasSeOlvidan ==
  <>[](\A m \in arriba : ToSet(memoriasLevantadas[m]) \subseteq arriba)
------------------------------------------------------------------------------
(* Inductive invariant: what makes TypeOK hold.                            *)

Rondas ==
  [pc : {"duerme", "mirar", "seeds", "levantadas", "eliminar"}, i : Nat \ {0},
   tengo : Seq(Memorias), faltan : Seq(Memorias), a : Memorias \cup {Nadie}, rota : BOOLEAN]

\* A memory does not connect to itself unless it is its own seed.
Alcanza(m, x) == x = m => EsSeed(m, m)

\* The list that is being made has itself, and those it has looked at once.
RondaInv(m) ==
  LET r == ronda[m]
      lista == memoriasLevantadas[m]
  IN
  /\ IsInjective(r.tengo)
  /\ r.pc = "mirar" => ToSet(r.tengo) \subseteq {m} \cup {lista[j] : j \in DOMAIN lista \cap 1..(r.i - 1)}
  /\ r.pc = "eliminar" => r.faltan # <<>>
  /\ \A x \in ToSet(r.faltan) : Alcanza(m, x)
  /\ r.a # Nadie => Alcanza(m, r.a) /\ (r.rota \/ r.a \in arriba)

GossipInv ==
  /\ memoriasLevantadas \in [Memorias -> Seq(Memorias)] /\ ronda \in [Memorias -> Rondas]
  /\ buzon \subseteq [de : Memorias, para : Memorias, memorias : Seq(Memorias)]
  /\ \A s \in buzon : IsInjective(s.memorias)
  /\ \A m \in Memorias : RondaInv(m)
  /\ TypeOK
==============================================================================
