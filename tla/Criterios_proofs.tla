--------------------------- MODULE Criterios_proofs ---------------------------
(***************************************************************************)
(* Theorems about module Criterios, for every set of memories, tables,     *)
(* threads and requests.                                                   *)
(***************************************************************************)
EXTENDS Criterios, Secuencias_lemas

------------------------------------------------------------------------------
(* What is known of a thread by itself.                                    *)

Filas == Tablas \X Consistencias
DeMemorias == {"JOURNAL", "ADD"}
Ops == DeDatos \cup {"CREATE", "DROP", "DESCRIBE"} \cup DeMemorias
Fases == {"pedido", "journal", "reenvio", "inicial", "vuelta"}
DeEnvio == {"pedido", "journal", "reenvio"}
Destinos ==
  {"reintentar", "sinEjecutar", "siguiente", "enviarSinConexion", "gossipElegir"}
Respuestas ==
  {"SUCCESS", "FAILURE", "MEMORIA_FULL", "VALUE_INVALIDO", "KEY_NO_EXISTE",
   "TABLA_NO_EXISTE", "TABLA_EXISTE", "LFS_CAIDO", "COMPONENTE_CAIDO"}
Eliminando == {"eliminarDeMemorias", "eliminarDeSC", "eliminarDeSHC", "eliminarDeEC"}
Actualizando == {"limpiar", "agregar", "agregarEn"}

EstadosDeHilo ==
  [pc : Pcs, op : Ops, tabla : Tablas \cup {Nadie}, clave : Nat,
   criterio : Consistencias, memoria : Memorias \cup {Nadie}, abierta : BOOLEAN,
   fase : Fases, rta : Respuestas, lista : SUBSET (Memorias \cup Filas),
   sigue : Destinos \cup {"libre"}, hechas : Nat]

\* Where a JOURNAL or an ADD may be, and where the rest.
DondeVa(r) ==
  /\ r.op = "JOURNAL" =>
       r.pc \in {"juntar", "siguiente", "enviado", "enviarSinConexion"} \cup Eliminando
  /\ r.op = "ADD" =>
       r.pc \in {"add", "agregarMemoria", "iterar", "siguiente", "enviado",
                 "enviarSinConexion"} \cup Eliminando
  /\ r.op \in DeMemorias =>
       /\ r.sigue \in {"libre", "siguiente", "enviarSinConexion"}
       /\ r.pc = "enviado" => r.fase = "journal"
  /\ r.op \notin DeMemorias =>
       /\ r.pc \notin {"juntar", "siguiente", "enviarSinConexion", "add",
                       "agregarMemoria", "iterar"}
       /\ r.sigue \notin {"siguiente", "enviarSinConexion"}
  /\ r.pc \in Eliminando => r.sigue # "libre"

\* What a thread has in its list and in its parameters.
QueTiene(r) ==
  /\ r.op \in DeDatos \cup {"CREATE", "DROP"} => r.tabla \in Tablas
  /\ r.pc \in Actualizando => r.lista \subseteq Filas
  /\ r.pc \in {"agregar", "agregarEn"} => r.lista # {}
  /\ r.pc \notin Actualizando => r.lista \subseteq Memorias
  /\ r.pc = "agregarMemoria" => r.memoria \in Memorias

\* Once a request was executed all that is left is to update the tables and end.
UnaVez(r) ==
  /\ r.hechas \in {0, 1}
  /\ r.hechas = 1 => r.pc \in {"fin"} \cup Actualizando
  /\ r.pc # "fin" => r.rta = "SUCCESS"
  /\ r.pc \in {"enviado", "handshake"} => r.fase \in DeEnvio
  /\ r.pc = "fin" /\ r.rta # "SUCCESS" /\ r.hechas = 1 => r.fase = "reenvio" /\ ~r.abierta

Sano(r) == r \in EstadosDeHilo /\ DondeVa(r) /\ QueTiene(r) /\ UnaVez(r)

HilosInv ==
  /\ hilo \in [Todos -> EstadosDeHilo]
  /\ \A h \in Todos : Sano(hilo[h])

DatosInv ==
  /\ memorias \subseteq Memorias /\ memoriasEc \subseteq Memorias
  /\ memoriaSc \in Memorias \cup {Nadie}
  /\ memoriasShc \in Seq(Memorias) /\ IsInjective(memoriasShc)
  /\ tablas \in [Consistencias -> [Tablas -> Nat]]
  /\ cursor \in [Todos -> ToSet(memoriasShc) \cup {Nadie, Liberada}]
  /\ levantadas \subseteq Memorias /\ lfs \in [Tablas -> Consistencias \cup {Nadie}]

Inv == HilosInv /\ DatosInv

------------------------------------------------------------------------------
(* What each thread owes when it has a JOURNAL to send.                    *)

Orden(c) == CASE c = "SC" -> 1 [] c = "SHC" -> 2 [] c = "EC" -> 3

\* The criteria of which a thread that eliminates a memory has still to do so.
FaltaEliminar(r) ==
  CASE r.pc \in {"eliminarDeMemorias", "eliminarDeSC"} -> Consistencias
    [] r.pc = "eliminarDeSHC" -> {"SHC", "EC"}
    [] r.pc = "eliminarDeEC" -> {"EC"}
    [] OTHER -> {}

\* It is owed to the memory the thread is with.
ConQuienEsta(r, p) ==
  \/ r.pc \in {"enviado", "enviarSinConexion"} /\ p[2] = r.memoria
  \/ r.pc \in Eliminando /\ p[2] = r.memoria /\ p[1] \in FaltaEliminar(r)

\* It is owed to one list_iterate is yet to visit.
PorVisitar(h, p) ==
  /\ p[1] = "SHC"
  /\ \/ cursor[h] = Liberada
     \/ cursor[h] # Nadie /\ Precede(memoriasShc, cursor[h], p[2])

DebeJournal(h, p) ==
  LET r == hilo[h] IN
  IF r.pc = "juntar"
  THEN IF Orden(p[1]) < Orden(r.criterio) THEN p[2] \in r.lista ELSE p[2] \in DelCriterio(p[1])
  ELSE p[2] \in r.lista \/ ConQuienEsta(r, p)

DebeAdd(h, p) ==
  LET r == hilo[h] IN
  CASE r.pc \in {"add", "agregarMemoria"} -> FALSE
    [] r.pc = "iterar" -> p[1] = "SHC" /\ p[2] \in ToSet(memoriasShc)
    [] OTHER -> p[1] = "SHC" /\ (ConQuienEsta(hilo[h], p) \/ PorVisitar(h, p))

DebeBien(h, p) ==
  \/ hilo[h].op = "JOURNAL" /\ DebeJournal(h, p)
  \/ hilo[h].op = "ADD" /\ DebeAdd(h, p)

DebenInv ==
  /\ deben \in [Todos -> SUBSET (Consistencias \X Memorias)]
  /\ \A h \in Todos : \A p \in deben[h] : DebeBien(h, p)

------------------------------------------------------------------------------
(* Threads.                                                                *)

LEMMA LibreSano == Sano(Libre)
BY DEF Libre, Sano, EstadosDeHilo, DondeVa, QueTiene, UnaVez, Pcs, DeEliminar, Ops,
       DeDatos, DeMemorias, Consistencias, Fases, Respuestas, Eliminando, Actualizando,
       DeEnvio

LEMMA FinSano ==
  ASSUME NEW r \in EstadosDeHilo, NEW rta \in Respuestas, r.hechas \in {0, 1},
         rta # "SUCCESS" /\ r.hechas = 1 => r.fase = "reenvio" /\ ~r.abierta
  PROVE  Sano(Fin(r, rta))
<1>1. Fin(r, rta) \in EstadosDeHilo
  BY DEF Fin, Libre, EstadosDeHilo, Pcs, Ops, Consistencias
<1> QED BY <1>1
        DEF Fin, Libre, Sano, DondeVa, QueTiene, UnaVez, DeDatos, DeMemorias,
            Eliminando, Actualizando

\* What a thread that has executed nothing needs in order to go on.
EnCamino(r) ==
  /\ r \in EstadosDeHilo /\ r.hechas = 0 /\ r.rta = "SUCCESS"
  /\ r.lista \subseteq Memorias
  /\ r.op \in DeDatos \cup {"CREATE", "DROP"} => r.tabla \in Tablas
  /\ r.op \in DeMemorias => r.sigue \in {"libre", "siguiente", "enviarSinConexion"}
  /\ r.op \notin DeMemorias => r.sigue \notin {"siguiente", "enviarSinConexion"}

LEMMA SanoEnCamino ==
  ASSUME NEW r, Sano(r), r.pc \notin {"fin"} \cup Actualizando
  PROVE  EnCamino(r)
BY DEF EnCamino, Sano, DondeVa, QueTiene, UnaVez

LEMMA AEliminarSano ==
  ASSUME NEW r, EnCamino(r), NEW donde \in Destinos,
         r.op \in DeMemorias <=> donde \in {"siguiente", "enviarSinConexion"}
  PROVE  Sano(AEliminar(r, donde))
<1>1. AEliminar(r, donde) \in EstadosDeHilo
  BY DEF AEliminar, EnCamino, EstadosDeHilo, Pcs
<1> QED BY <1>1
        DEF EnCamino, AEliminar, EstadosDeHilo, Sano, DondeVa, QueTiene, UnaVez, DeMemorias,
            Eliminando, Actualizando, Destinos

LEMMA AEnviarSano ==
  ASSUME NEW r, EnCamino(r), NEW fase \in DeEnvio, r.op \in DeMemorias => fase = "journal"
  PROVE  Sano(AEnviar(r, fase))
<1>1. AEnviar(r, fase) \in EstadosDeHilo
  BY DEF AEnviar, EnCamino, EstadosDeHilo, Pcs, DeEnvio, Fases
<1> QED BY <1>1
        DEF EnCamino, AEnviar, EstadosDeHilo, Sano, DondeVa, QueTiene, UnaVez, DeMemorias,
            Eliminando, Actualizando

\* Any other place where a request may be before it is sent.
LEMMA OtroLugarSano ==
  ASSUME NEW r, EnCamino(r), r.pc \in Pcs \ ({"fin", "enviado", "handshake"}
                                              \cup Eliminando \cup Actualizando),
         r.pc = "agregarMemoria" => r.memoria \in Memorias,
         r.op = "JOURNAL" => r.pc \in {"juntar", "siguiente", "enviarSinConexion"},
         r.op = "ADD" => r.pc \in {"add", "agregarMemoria", "iterar", "siguiente",
                                    "enviarSinConexion"},
         r.op \notin DeMemorias =>
           r.pc \notin {"juntar", "siguiente", "enviarSinConexion", "add",
                        "agregarMemoria", "iterar"}
  PROVE  Sano(r)
BY DEF EnCamino, EstadosDeHilo, Sano, DondeVa, QueTiene, UnaVez, DeMemorias, Eliminando,
       Actualizando

LEMMA ConectadoSano ==
  ASSUME NEW r, EnCamino(r), r.op \notin DeMemorias, NEW m \in Memorias
  PROVE  Sano(Conectado(r, m))
<1> DEFINE s == [r EXCEPT !.memoria = m]
<1>1. EnCamino(s) /\ s.op = r.op
  BY DEF EnCamino, EstadosDeHilo
<1> HIDE DEF s
<1>2. Sano(AEnviar(s, "pedido"))
  BY <1>1, AEnviarSano DEF DeEnvio
<1>3. Sano(AEliminar(s, "reintentar"))
  BY <1>1, AEliminarSano DEF Destinos
<1> QED BY <1>2, <1>3 DEF Conectado, s

LEMMA EnviarJournalSano ==
  ASSUME NEW r, EnCamino(r), r.op \in DeMemorias, NEW m \in Memorias
  PROVE  Sano(EnviarJournal(r, m))
<1> DEFINE s == [r EXCEPT !.memoria = m]
<1>1. EnCamino(s) /\ s.op = r.op
  BY DEF EnCamino, EstadosDeHilo
<1> HIDE DEF s
<1>2. Sano(AEnviar(s, "journal"))
  BY <1>1, AEnviarSano DEF DeEnvio
<1>3. Sano(AEliminar(s, "enviarSinConexion"))
  BY <1>1, AEliminarSano DEF Destinos
<1> QED BY <1>2, <1>3 DEF EnviarJournal, s

LEMMA EmpezadoSano ==
  ASSUME NEW r, EnCamino(r), r.sigue = "libre", memorias \subseteq Memorias,
         NEW s \in Empezado(r)
  PROVE  Sano(s)
<1> USE DEF EnCamino
<1>1. CASE r.op = "ADD"
  <2>1. s = [r EXCEPT !.pc = "add"]
    BY <1>1 DEF Empezado, DeDatos
  <2>2. EnCamino(s) /\ s.op = "ADD" /\ s.pc = "add"
    BY <1>1, <2>1 DEF EstadosDeHilo, Pcs
  <2> QED BY <2>2, OtroLugarSano DEF Pcs, Eliminando, Actualizando, DeMemorias
<1>2. CASE r.op = "JOURNAL"
  <2>1. s = [r EXCEPT !.pc = "juntar"]
    BY <1>2 DEF Empezado, DeDatos
  <2>2. EnCamino(s) /\ s.op = "JOURNAL" /\ s.pc = "juntar"
    BY <1>2, <2>1 DEF EstadosDeHilo, Pcs
  <2> QED BY <2>2, OtroLugarSano DEF Pcs, Eliminando, Actualizando, DeMemorias
<1>3. CASE r.op \notin DeMemorias /\ memorias = {}
  <2>1. s = Fin(r, "FAILURE")
    BY <1>3 DEF Empezado, DeMemorias, EstadosDeHilo, Ops, DeDatos
  <2> QED BY <2>1, FinSano DEF Respuestas
<1>4. CASE r.op = "DESCRIBE" /\ memorias # {}
  <2>1. PICK m \in memorias : s = Conectado(r, m)
    BY <1>4 DEF Empezado, DeDatos
  <2> QED BY <1>4, <2>1, ConectadoSano DEF DeMemorias
<1>5. CASE r.op \in DeDatos \cup {"CREATE", "DROP"} /\ memorias # {}
  <2>1. s = [r EXCEPT !.pc = s.pc] /\ s.pc \in {"elegir", "buscarTabla"}
    BY <1>5 DEF Empezado, DeDatos, EstadosDeHilo
  <2>2. EnCamino(s) /\ s.op = r.op
    BY <2>1 DEF EstadosDeHilo, Pcs
  <2> QED BY <1>5, <2>1, <2>2, OtroLugarSano
          DEF Pcs, Eliminando, Actualizando, DeMemorias, DeDatos
<1> QED BY <1>1, <1>2, <1>3, <1>4, <1>5 DEF EstadosDeHilo, Ops, DeMemorias, DeDatos

\* A request that has been executed, or answered, goes on.
LEMMA RecibidoSano ==
  ASSUME NEW r \in EstadosDeHilo, r.pc = "enviado", r.op \notin DeMemorias,
         r.fase \in DeEnvio, r.rta = "SUCCESS", r.lista \subseteq Memorias,
         r.op \in DeDatos \cup {"CREATE", "DROP"} => r.tabla \in Tablas,
         r.sigue \notin {"siguiente", "enviarSinConexion"},
         r.hechas \in {0, 1},
         NEW rta \in Respuestas, NEW filas \in SUBSET Filas,
         r.hechas = 1 => r.fase # "journal" /\ (rta = "SUCCESS" \/ (rta = "COMPONENTE_CAIDO" /\ ~r.abierta))
  PROVE  Sano(Recibido(r, rta, filas))
<1>1. ASSUME NEW fase \in {"reenvio", "journal"}, r.hechas = 0,
             Recibido(r, rta, filas) = ConHandshake(r, fase)
      PROVE  Sano(Recibido(r, rta, filas))
  <2> DEFINE s == ConHandshake(r, fase)
  <2>1. s \in EstadosDeHilo
    BY DEF ConHandshake, EstadosDeHilo, Pcs, Fases
  <2>2. /\ s.pc = "handshake" /\ s.fase = fase
        /\ s.op = r.op /\ s.sigue = r.sigue /\ s.tabla = r.tabla
        /\ s.lista = r.lista /\ s.hechas = 0 /\ s.rta = "SUCCESS"
    BY <1>1 DEF ConHandshake, EstadosDeHilo
  <2> HIDE DEF s
  <2>3. DondeVa(s)
    BY <2>2 DEF DondeVa, DeMemorias, Eliminando
  <2>4. QueTiene(s) /\ UnaVez(s)
    BY <2>2 DEF QueTiene, UnaVez, Actualizando, DeEnvio
  <2> QED BY <1>1, <2>1, <2>3, <2>4 DEF Sano, s
<1>2. CASE Recibido(r, rta, filas) = Fin(r, rta)
           /\ (rta # "SUCCESS" /\ r.hechas = 1 => r.fase = "reenvio" /\ ~r.abierta)
  BY <1>2, FinSano
<1>3. CASE Recibido(r, rta, filas) = AActualizar(r, filas)
  <2>1. AActualizar(r, filas) \in EstadosDeHilo
    BY DEF AActualizar, EstadosDeHilo, Pcs, Consistencias
  <2>2. Cardinality(filas) = 1 => filas # {}
    BY FS_EmptySet
  <2> QED BY <1>3, <2>1, <2>2
          DEF AActualizar, EstadosDeHilo, Sano, DondeVa, QueTiene, UnaVez, DeMemorias,
              Eliminando, Actualizando
<1>4. CASE Recibido(r, rta, filas) = Fin(r, "SUCCESS")
  BY <1>4, FinSano DEF Respuestas
<1>5. r.fase \in {"pedido", "journal", "reenvio"}
  BY DEF DeEnvio
<1> QED BY <1>1, <1>2, <1>3, <1>4, <1>5 DEF Recibido, Perdonado, Perdonadas, EstadosDeHilo

------------------------------------------------------------------------------
(* Inv is inductive.                                                       *)

LEMMA PasaUnSano ==
  ASSUME HilosInv, NEW h \in Todos, NEW r, Sano(r), Pasa(h, r)
  PROVE  HilosInv'
<1>1. \A g \in Todos : hilo'[g] = IF g = h THEN r ELSE hilo[g]
  BY DEF HilosInv, Pasa
<1>2. hilo' \in [Todos -> EstadosDeHilo]
  BY DEF HilosInv, Pasa, Sano
<1> QED BY <1>1, <1>2 DEF HilosInv

LEMMA DatosIguales ==
  ASSUME DatosInv, UNCHANGED <<listas, tablas, cursor, levantadas, lfs>>
  PROVE  DatosInv'
BY DEF DatosInv, listas

LEMMA SoloHiloInv ==
  ASSUME Inv, NEW h \in Todos, NEW r, Sano(r), SoloHilo(h, r)
  PROVE  Inv'
BY PasaUnSano, DatosIguales DEF Inv, SoloHilo, externas, listas

LEMMA DatosDeHilo ==
  ASSUME Inv, NEW h \in Todos
  PROVE  /\ hilo[h] \in EstadosDeHilo /\ Sano(hilo[h])
         /\ hilo[h].pc \notin {"fin"} \cup Actualizando => EnCamino(hilo[h])
BY SanoEnCamino DEF Inv, HilosInv

LEMMA InitInv == Init => Inv
<1> SUFFICES ASSUME Init PROVE Inv
  OBVIOUS
<1>1. Libre \in EstadosDeHilo /\ Sano(Libre)
  BY LibreSano DEF Sano
<1>2. LET r == [Libre EXCEPT !.pc = "gossip", !.memoria = Ppal, !.fase = "inicial"]
      IN  r \in EstadosDeHilo /\ Sano(r)
  <2> DEFINE r == [Libre EXCEPT !.pc = "gossip", !.memoria = Ppal, !.fase = "inicial"]
  <2>1. r \in EstadosDeHilo
    BY <1>1, MemoriasAssumption DEF EstadosDeHilo, Pcs, Fases
  <2>2. Sano(r)
    BY <1>1, <2>1
       DEF Sano, EstadosDeHilo, DondeVa, QueTiene, UnaVez, DeMemorias, DeDatos, Libre,
           Eliminando, Actualizando
  <2> QED BY <2>1, <2>2
<1>3. HilosInv
  BY <1>1, <1>2 DEF Init, ApenasEmpieza, HilosInv
<1>4. DatosInv
  BY LfsAssumption DEF Init, ApenasEmpieza, DatosInv, IsInjective, ToSet
<1> QED BY <1>3, <1>4 DEF Inv

\* Reaching the memories.
LEMMA RuteoInv ==
  ASSUME Inv, NEW h \in Todos,
         BuscarTabla(h) \/ ElegirMemoria(h) \/ ReintentarConexion(h) \/ Handshake(h)
           \/ SinEjecutar(h) \/ Terminar(h)
  PROVE  Inv'
<1> DEFINE r == hilo[h]
<1>1. r \in EstadosDeHilo /\ Sano(r)
  BY DatosDeHilo
<1>2. r.pc \notin {"fin"} \cup Actualizando => EnCamino(r)
  BY DatosDeHilo
<1>3. ASSUME EnCamino(r), NEW rta \in Respuestas PROVE Sano(Fin(r, rta))
  BY <1>3, FinSano DEF EnCamino
<1>4. CASE BuscarTabla(h)
  <2>1. r.pc = "buscarTabla" /\ EnCamino(r) /\ r.op \notin DeMemorias
    BY <1>1, <1>2, <1>4
       DEF BuscarTabla, Actualizando, Sano, DondeVa, DeMemorias, Eliminando
  <2>2. Sano([r EXCEPT !.pc = "elegir"])
    <3> DEFINE s == [r EXCEPT !.pc = "elegir"]
    <3>1. EnCamino(s) /\ s.op = r.op /\ s.pc = "elegir"
      BY <2>1 DEF EnCamino, EstadosDeHilo, Pcs
    <3> HIDE DEF s
    <3>2. Sano(s)
      BY <2>1, <3>1, OtroLugarSano DEF Pcs, Eliminando, Actualizando, DeMemorias
    <3> QED BY <3>2 DEF s
  <2>3. Sano([r EXCEPT !.criterio = Siguiente(r.criterio)])
    <3> DEFINE s == [r EXCEPT !.criterio = Siguiente(r.criterio)]
    <3>1. EnCamino(s) /\ s.op = r.op /\ s.pc = "buscarTabla"
      BY <2>1 DEF EnCamino, EstadosDeHilo, Consistencias, Siguiente
    <3> HIDE DEF s
    <3>2. Sano(s)
      BY <2>1, <3>1, OtroLugarSano DEF Pcs, Eliminando, Actualizando, DeMemorias
    <3> QED BY <3>2 DEF s
  <2>4. Sano(Fin(r, "SUCCESS"))
    BY <1>3, <2>1 DEF Respuestas
  <2>5. \E s \in {[r EXCEPT !.pc = "elegir"], Fin(r, "SUCCESS"),
                  [r EXCEPT !.criterio = Siguiente(r.criterio)]} : SoloHilo(h, s)
    BY <1>4 DEF BuscarTabla
  <2> QED BY <2>2, <2>3, <2>4, <2>5, SoloHiloInv
<1>5. CASE ElegirMemoria(h)
  <2>1. EnCamino(r) /\ r.op \notin DeMemorias
    BY <1>1, <1>2, <1>5
       DEF ElegirMemoria, Actualizando, Sano, DondeVa, DeMemorias, Eliminando
  <2>2. Candidatas(r.criterio, r.clave) \subseteq Memorias
    <3>1. ToSet(memoriasShc) \subseteq Memorias
      BY DEF Inv, DatosInv, ToSet
    <3>2. DelCriterio(r.criterio) \subseteq Memorias
      BY <1>1, <3>1 DEF Inv, DatosInv, DelCriterio, EstadosDeHilo, Consistencias
    <3>3. ASSUME r.criterio = "SHC", memoriasShc # <<>>
          PROVE  {memoriasShc[i] : i \in IndicesHash(r.clave, Len(memoriasShc))} \subseteq Memorias
      <4>1. memoriasShc \in Seq(Memorias) /\ Len(memoriasShc) \in Nat \ {0}
        BY <3>3 DEF Inv, DatosInv
      <4>2. r.clave \in Nat
        BY <1>1 DEF EstadosDeHilo
      <4> DEFINE x == (r.clave + 23) * 1999
                 n == Len(memoriasShc)
      <4>3. x \in Int
        BY <4>2
      <4> HIDE DEF x
      <4>4. x % n \in 0..(n - 1)
        BY <4>1, <4>3
      <4>5. (x % n) + 1 \in 1..n
        BY <4>1, <4>4
      <4>6. IndicesHash(r.clave, n) \subseteq 1..n
        BY <4>5 DEF IndicesHash, x
      <4> QED BY <4>1, <4>6
    <3> QED BY <3>2, <3>3 DEF Candidatas
  <2>3. \/ SoloHilo(h, Fin(r, "SUCCESS"))
        \/ \E m \in Candidatas(r.criterio, r.clave) : SoloHilo(h, Conectado(r, m))
    BY <1>5 DEF ElegirMemoria
  <2>4. Sano(Fin(r, "SUCCESS"))
    BY <1>3, <2>1 DEF Respuestas
  <2>5. \A m \in Memorias : Sano(Conectado(r, m))
    BY <2>1, ConectadoSano
  <2> QED BY <2>2, <2>3, <2>4, <2>5, SoloHiloInv
<1>6. CASE ReintentarConexion(h)
  <2>1. EnCamino(r) /\ r.op \notin DeMemorias
    BY <1>1, <1>2, <1>6
       DEF ReintentarConexion, Actualizando, Sano, DondeVa, DeMemorias, Eliminando
  <2>2. \/ SoloHilo(h, Fin(r, "SUCCESS"))
        \/ \E m \in memorias : SoloHilo(h, Conectado(r, m))
    BY <1>6 DEF ReintentarConexion
  <2>3. Sano(Fin(r, "SUCCESS"))
    BY <1>3, <2>1 DEF Respuestas
  <2>4. \A m \in memorias : Sano(Conectado(r, m))
    BY <2>1, ConectadoSano DEF Inv, DatosInv
  <2> QED BY <2>2, <2>3, <2>4, SoloHiloInv
<1>7. CASE Handshake(h)
  <2>1. EnCamino(r) /\ r.op \notin DeMemorias /\ r.fase \in DeEnvio
    BY <1>1, <1>2, <1>7
       DEF Handshake, Actualizando, Sano, DondeVa, UnaVez, DeMemorias, Eliminando
  <2>2. Sano(AEnviar(r, r.fase)) /\ Sano(AEliminar(r, "sinEjecutar"))
    BY <2>1, AEnviarSano, AEliminarSano DEF Destinos
  <2>3. \E s \in {AEnviar(r, r.fase), AEliminar(r, "sinEjecutar")} : SoloHilo(h, s)
    BY <1>7 DEF Handshake
  <2> QED BY <2>2, <2>3, SoloHiloInv
<1>8. CASE SinEjecutar(h)
  <2>1. EnCamino(r)
    BY <1>2, <1>8 DEF SinEjecutar, Actualizando
  <2>2. Sano(Fin(r, "SUCCESS"))
    BY <1>3, <2>1 DEF Respuestas
  <2> QED BY <1>8, <2>2, SoloHiloInv DEF SinEjecutar
<1>9. CASE Terminar(h)
  BY <1>9, LibreSano, SoloHiloInv DEF Terminar
<1> QED BY <1>4, <1>5, <1>6, <1>7, <1>8, <1>9

\* The elimination of a memory.
LEMMA SigueEliminando ==
  ASSUME Inv, NEW h \in Todos, hilo[h].pc \in Eliminando,
         NEW p \in Eliminando \cup {hilo[h].sigue}
  PROVE  Sano([hilo[h] EXCEPT !.pc = p])
<1> DEFINE r == hilo[h]
           s == [hilo[h] EXCEPT !.pc = p]
<1>1. Sano(r) /\ EnCamino(r)
  BY DatosDeHilo DEF Eliminando, Actualizando
<1>2. r.sigue \in Destinos
  BY <1>1 DEF Sano, DondeVa, EstadosDeHilo
<1>3. /\ EnCamino(s) /\ s.op = r.op /\ s.sigue = r.sigue /\ s.pc = p
  BY <1>1, <1>2 DEF EnCamino, EstadosDeHilo, Destinos, Eliminando, Pcs, DeEliminar
<1>4. r.op \in DeMemorias => r.sigue \in {"siguiente", "enviarSinConexion"}
  BY <1>1, <1>2 DEF Sano, DondeVa, Destinos
<1>5. r.op \notin DeMemorias => r.sigue \notin {"siguiente", "enviarSinConexion"}
  BY <1>1 DEF Sano, DondeVa
<1> SUFFICES Sano(s)
  OBVIOUS
<1> HIDE DEF r, s
<1>6. CASE p \in Eliminando
  BY <1>2, <1>3, <1>4, <1>6
     DEF Destinos, Sano, EnCamino, DondeVa, QueTiene, UnaVez, DeMemorias, Eliminando, Actualizando
<1>7. CASE p = r.sigue
  BY <1>2, <1>3, <1>4, <1>5, <1>7, OtroLugarSano
     DEF Pcs, Destinos, Eliminando, Actualizando, DeMemorias
<1> QED BY <1>6, <1>7 DEF r

LEMMA EliminarInv ==
  ASSUME Inv, NEW h \in Todos, Eliminar(h)
  PROVE  Inv'
<1> DEFINE r == hilo[h]
<1>1. r.pc \in Eliminando
  BY DEF Eliminar, EliminarDeMemorias, EliminarDeSC, EliminarDeSHC, EliminarDeEC, Eliminando
<1>2. \E p \in Eliminando \cup {r.sigue} : Pasa(h, [r EXCEPT !.pc = p])
  BY DEF Eliminar, EliminarDeMemorias, EliminarDeSC, EliminarDeSHC, EliminarDeEC, Eliminando
<1>3. HilosInv'
  BY <1>1, <1>2, SigueEliminando, PasaUnSano DEF Inv
<1>4. DatosInv'
  <2>1. CASE EliminarDeMemorias(h)
    BY <2>1 DEF Inv, DatosInv, EliminarDeMemorias, externas
  <2>2. CASE EliminarDeSC(h)
    BY <2>2 DEF Inv, DatosInv, EliminarDeSC, externas
  <2>3. CASE EliminarDeSHC(h)
    <3>1. memoriasShc \in Seq(Memorias) /\ IsInjective(memoriasShc)
      BY DEF Inv, DatosInv
    <3>2. memoriasShc' = RemoveFirst(memoriasShc, r.memoria)
      BY <2>3 DEF EliminarDeSHC
    <3>3. /\ memoriasShc' \in Seq(Memorias) /\ IsInjective(memoriasShc')
          /\ Range(memoriasShc') = Range(memoriasShc) \ {r.memoria}
      BY <3>1, <3>2, RemoveFirstSinRepetidos
    <3>4. ToSet(memoriasShc') = ToSet(memoriasShc) \ {r.memoria}
      BY <3>3 DEF ToSet, Range
    <3>5. r.memoria \in Memorias \cup {Nadie}
      BY DatosDeHilo DEF EstadosDeHilo
    <3>6. cursor' \in [Todos -> ToSet(memoriasShc') \cup {Nadie, Liberada}]
      <4>1. ASSUME NEW g \in Todos
            PROVE  cursor'[g] \in ToSet(memoriasShc') \cup {Nadie, Liberada}
        <5>1. cursor[g] \in ToSet(memoriasShc) \cup {Nadie, Liberada}
          BY DEF Inv, DatosInv
        <5>2. cursor'[g] = IF r.memoria # Nadie /\ cursor[g] = r.memoria
                           THEN Liberada ELSE cursor[g]
          BY <2>3 DEF EliminarDeSHC
        <5> QED BY <3>4, <5>1, <5>2
      <4> QED BY <2>3, <4>1 DEF EliminarDeSHC
    <3> QED BY <2>3, <3>3, <3>6 DEF Inv, DatosInv, EliminarDeSHC, externas
  <2>4. CASE EliminarDeEC(h)
    BY <2>4 DEF Inv, DatosInv, EliminarDeEC, externas
  <2> QED BY <2>1, <2>2, <2>3, <2>4 DEF Eliminar
<1> QED BY <1>3, <1>4 DEF Inv

\* The answers.
LEMMA RespondeSano ==
  ASSUME Inv, NEW h \in Todos, NEW rta \in Respuestas, NEW filas \in SUBSET Filas,
         Responde(h, rta, filas),
         rta = "SUCCESS" /\ hilo[h].fase # "journal" => hilo[h].op \notin DeMemorias
  PROVE  HilosInv'
<1> DEFINE q == hilo[h]
           r == [hilo[h] EXCEPT !.hechas =
                   IF hilo[h].fase # "journal" /\ rta = "SUCCESS" THEN @ + 1 ELSE @]
           llega == IF r.abierta THEN rta ELSE "COMPONENTE_CAIDO"
<1>1. q.pc = "enviado" /\ q \in EstadosDeHilo /\ Sano(q) /\ EnCamino(q)
  BY DatosDeHilo DEF Responde, Actualizando
<1>2. /\ r \in EstadosDeHilo /\ r.pc = "enviado" /\ r.op = q.op /\ r.fase = q.fase
      /\ r.rta = q.rta /\ r.lista = q.lista /\ r.tabla = q.tabla /\ r.sigue = q.sigue
      /\ r.abierta = q.abierta
      /\ r.hechas = IF q.fase # "journal" /\ rta = "SUCCESS" THEN 1 ELSE 0
  BY <1>1 DEF EstadosDeHilo, EnCamino
<1>3. /\ Pasa(h, IF Comun(r) THEN Recibido(r, llega, filas) ELSE JournalRecibido(r, llega))
  BY DEF Responde
<1>4. llega \in Respuestas
  BY DEF Respuestas
<1>5. q.fase \in DeEnvio
  BY <1>1 DEF Sano, UnaVez
<1> HIDE DEF q, r
<1>6. CASE r.op \notin DeMemorias
  <2>1. r.hechas = 1 => r.fase # "journal"
                          /\ (llega = "SUCCESS" \/ (llega = "COMPONENTE_CAIDO" /\ ~r.abierta))
    BY <1>2
  <2> HIDE DEF llega
  <2>2. /\ r.rta = "SUCCESS" /\ r.lista \subseteq Memorias /\ r.hechas \in {0, 1}
        /\ r.op \in DeDatos \cup {"CREATE", "DROP"} => r.tabla \in Tablas
        /\ r.sigue \notin {"siguiente", "enviarSinConexion"}
    BY <1>1, <1>2, <1>6 DEF EnCamino
  <2>3. Sano(Recibido(r, llega, filas))
    BY <1>2, <1>4, <1>5, <1>6, <2>1, <2>2, RecibidoSano
  <2> QED BY <1>3, <1>6, <2>3, PasaUnSano DEF Inv, Comun, DeMemorias
<1>7. CASE r.op \in DeMemorias
  <2>1. EnCamino(r)
    BY <1>1, <1>2, <1>7 DEF EnCamino, q
  <2>2. Sano(AEliminar(r, "siguiente"))
    BY <1>7, <2>1, AEliminarSano DEF Destinos
  <2>3. Sano([r EXCEPT !.pc = "siguiente"])
    <3> DEFINE s == [r EXCEPT !.pc = "siguiente"]
    <3>1. EnCamino(s) /\ s.op = r.op /\ s.pc = "siguiente"
      BY <2>1 DEF EnCamino, EstadosDeHilo, Pcs
    <3> HIDE DEF s
    <3>2. Sano(s)
      BY <1>7, <3>1, OtroLugarSano DEF Pcs, Eliminando, Actualizando, DeMemorias
    <3> QED BY <3>2 DEF s
  <2> QED BY <1>3, <1>7, <2>2, <2>3, PasaUnSano DEF Inv, Comun, DeMemorias, JournalRecibido
<1> QED BY <1>6, <1>7

LEMMA AtenderInv ==
  ASSUME Inv, NEW h \in Todos, Atender(h)
  PROVE  Inv'
<1> DEFINE r == hilo[h]
<1>1. r \in EstadosDeHilo /\ Sano(r)
  BY DatosDeHilo
<1> USE DEF Respuestas, DeMemorias, DeDatos
<1>2. \A filas \in SUBSET Filas, rta \in Respuestas :
        /\ Responde(h, rta, filas)
        /\ rta = "SUCCESS" /\ r.fase # "journal" => r.op \notin DeMemorias
        => HilosInv'
  BY RespondeSano
<1>3. ASSUME NEW rta, NEW filas, Responde(h, rta, filas), lfs' \in [Tablas -> Consistencias \cup {Nadie}]
      PROVE  DatosInv'
  BY <1>3 DEF Inv, DatosInv, Responde, listas
<1>4. lfs \in [Tablas -> Consistencias \cup {Nadie}]
  BY DEF Inv, DatosInv
<1>5. ASSUME NEW rta, AtenderDatos(h, rta) PROVE Inv'
  <2>1. rta \in Respuestas /\ r.op \notin DeMemorias
    BY <1>5 DEF AtenderDatos, DeLaMemoria
  <2>2. Responde(h, rta, {}) /\ UNCHANGED lfs
    BY <1>5 DEF AtenderDatos
  <2> QED BY <1>2, <1>3, <1>4, <2>1, <2>2 DEF Inv
<1>6. CASE AtenderCreate(h)
  <2>1. r.op = "CREATE" /\ r.tabla \in Tablas /\ r.criterio \in Consistencias
    BY <1>1, <1>6 DEF AtenderCreate, Sano, QueTiene, EstadosDeHilo
  <2>2. {<<r.tabla, r.criterio>>} \in SUBSET Filas
    BY <2>1 DEF Filas
  <2>3. Responde(h, "SUCCESS", {<<r.tabla, r.criterio>>})
    BY <1>6 DEF AtenderCreate
  <2>4. HilosInv'
    BY <1>2, <2>1, <2>2, <2>3
  <2>5. lfs' \in [Tablas -> Consistencias \cup {Nadie}]
    BY <1>4, <1>6, <2>1 DEF AtenderCreate
  <2> QED BY <1>3, <2>3, <2>4, <2>5 DEF Inv
<1>7. CASE AtenderDrop(h)
  <2>1. r.op = "DROP" /\ \E rta \in {"TABLA_NO_EXISTE", "SUCCESS"} : Responde(h, rta, {})
    BY <1>7 DEF AtenderDrop
  <2>2. HilosInv'
    BY <1>2, <2>1
  <2>3. lfs' \in [Tablas -> Consistencias \cup {Nadie}]
    BY <1>4, <1>7 DEF AtenderDrop
  <2> QED BY <1>3, <2>1, <2>2, <2>3 DEF Inv
<1>8. CASE AtenderDescribe(h)
  <2> DEFINE filas == {<<t, lfs[t]>> : t \in {x \in Tablas : lfs[x] # Nadie
                                                               /\ r.tabla \in {x, Nadie}}}
  <2>1. filas \in SUBSET Filas
    BY <1>4 DEF Filas
  <2>2. r.op = "DESCRIBE" /\ \E rta \in {"TABLA_NO_EXISTE", "SUCCESS"} : Responde(h, rta, filas)
    BY <1>8 DEF AtenderDescribe
  <2>3. HilosInv'
    BY <1>2, <2>1, <2>2
  <2>4. UNCHANGED lfs
    BY <1>8 DEF AtenderDescribe
  <2> QED BY <1>3, <1>4, <2>2, <2>3, <2>4 DEF Inv
<1>9. ASSUME NEW rta, AtenderJournal(h, rta) PROVE Inv'
  <2>1. r.fase = "journal" /\ rta \in Respuestas /\ Responde(h, rta, {}) /\ UNCHANGED lfs
    BY <1>9 DEF AtenderJournal
  <2> QED BY <1>2, <1>3, <1>4, <2>1 DEF Inv
<1>10. CASE AtenderSinLFS(h)
  <2>1. Responde(h, "LFS_CAIDO", {}) /\ UNCHANGED lfs
    BY <1>10 DEF AtenderSinLFS
  <2> QED BY <1>2, <1>3, <1>4, <2>1 DEF Inv
<1>11. CASE SinRespuesta(h)
  <2>1. Responde(h, "COMPONENTE_CAIDO", {}) /\ UNCHANGED lfs
    BY <1>11 DEF SinRespuesta
  <2> QED BY <1>2, <1>3, <1>4, <2>1 DEF Inv
<1> QED BY <1>5, <1>6, <1>7, <1>8, <1>9, <1>10, <1>11 DEF Atender

\* The lists of tables.
LEMMA TablasTrasUno ==
  ASSUME NEW ts \in [Consistencias -> [Tablas -> Nat]],
         NEW c \in Consistencias, NEW t \in Tablas, NEW n \in Nat
  PROVE  [ts EXCEPT ![c][t] = n] \in [Consistencias -> [Tablas -> Nat]]
<1>1. [ts[c] EXCEPT ![t] = n] \in [Tablas -> Nat]
  OBVIOUS
<1> QED BY <1>1

LEMMA QuedanSano ==
  ASSUME NEW r, Sano(r), r.pc \in {"agregar", "agregarEn"}, NEW fila \in r.lista
  PROVE  Sano(Quedan(r, fila))
<1> DEFINE s == Quedan(r, fila)
<1>1. /\ r \in EstadosDeHilo /\ r.lista \subseteq Filas /\ r.op \notin DeMemorias
      /\ r.rta = "SUCCESS" /\ r.hechas \in {0, 1}
      /\ r.sigue \notin {"siguiente", "enviarSinConexion"}
      /\ r.op \in DeDatos \cup {"CREATE", "DROP"} => r.tabla \in Tablas
  BY DEF Sano, DondeVa, QueTiene, UnaVez, Actualizando, DeMemorias, Eliminando
<1>2. /\ s \in EstadosDeHilo /\ s.op = r.op /\ s.sigue = r.sigue /\ s.tabla = r.tabla
      /\ s.lista = r.lista \ {fila} /\ s.rta = "SUCCESS" /\ s.hechas = r.hechas
      /\ s.pc = IF s.lista = {} THEN "fin" ELSE "agregar"
  BY <1>1 DEF Quedan, EstadosDeHilo, Pcs, Consistencias
<1> HIDE DEF s
<1>3. Sano(s)
  BY <1>1, <1>2
     DEF Sano, DondeVa, QueTiene, UnaVez, Actualizando, DeMemorias, Eliminando
<1> QED BY <1>3 DEF s

\* A thread that is updating the tables and is not at the end of it.
LEMMA SigueActualizando ==
  ASSUME NEW r, Sano(r), r.pc \in Actualizando, NEW pc \in Actualizando, NEW c \in Consistencias,
         pc \in {"agregar", "agregarEn"} => r.lista # {}
  PROVE  Sano([r EXCEPT !.pc = pc, !.criterio = c])
<1> DEFINE s == [r EXCEPT !.pc = pc, !.criterio = c]
<1>1. /\ r \in EstadosDeHilo /\ r.lista \subseteq Filas /\ r.op \notin DeMemorias
      /\ r.rta = "SUCCESS" /\ r.hechas \in {0, 1}
      /\ r.sigue \notin {"siguiente", "enviarSinConexion"}
      /\ r.op \in DeDatos \cup {"CREATE", "DROP"} => r.tabla \in Tablas
  BY DEF Sano, DondeVa, QueTiene, UnaVez, Actualizando, DeMemorias, Eliminando
<1>2. /\ s \in EstadosDeHilo /\ s.op = r.op /\ s.sigue = r.sigue /\ s.tabla = r.tabla
      /\ s.lista = r.lista /\ s.rta = "SUCCESS" /\ s.hechas = r.hechas /\ s.pc = pc
  BY <1>1 DEF EstadosDeHilo, Pcs, Actualizando
<1> HIDE DEF s
<1>3. Sano(s)
  BY <1>1, <1>2
     DEF Sano, DondeVa, QueTiene, UnaVez, Actualizando, DeMemorias, Eliminando
<1> QED BY <1>3 DEF s

LEMMA ActualizarTablasInv ==
  ASSUME Inv, NEW h \in Todos, ActualizarTablas(h)
  PROVE  Inv'
<1> DEFINE r == hilo[h]
           fila == Fila(r)
<1>1. r \in EstadosDeHilo /\ Sano(r) /\ r.pc \in Actualizando
  BY DatosDeHilo
     DEF ActualizarTablas, LimpiarTablas, BuscarParaAgregar, AgregarTabla, Actualizando
<1>2. r.criterio \in Consistencias /\ tablas \in [Consistencias -> [Tablas -> Nat]]
  BY <1>1 DEF EstadosDeHilo, Inv, DatosInv
<1>3. r.pc \in {"agregar", "agregarEn"} =>
        r.lista # {} /\ fila \in r.lista /\ fila[1] \in Tablas /\ fila[2] \in Consistencias
  <2>1. r.pc \in {"agregar", "agregarEn"} => r.lista # {} /\ r.lista \subseteq Filas
    BY <1>1 DEF Sano, QueTiene
  <2>2. r.lista # {} => fila \in r.lista
    BY DEF Fila
  <2> QED BY <2>1, <2>2 DEF Filas
<1>4. Siguiente(r.criterio) \in Consistencias /\ "SC" \in Consistencias
  BY DEF Siguiente, Consistencias
<1>5. ASSUME NEW s, Sano(s), SoloTablas(h, s), tablas' \in [Consistencias -> [Tablas -> Nat]]
      PROVE  Inv'
  BY <1>5, PasaUnSano DEF Inv, DatosInv, SoloTablas, listas, externas
<1> HIDE DEF r, fila
<1>6. CASE LimpiarTablas(h)
  <2> DEFINE sigue == IF r.criterio # "EC" THEN "limpiar"
                      ELSE IF r.lista = {} THEN "fin" ELSE "agregar"
             c == IF sigue = "limpiar" THEN Siguiente(r.criterio) ELSE "SC"
             s == [r EXCEPT !.pc = sigue, !.criterio = c]
  <2>1. SoloTablas(h, s) /\ tablas' = [tablas EXCEPT ![r.criterio] = [t \in Tablas |-> 0]]
    BY <1>6 DEF LimpiarTablas, r
  <2>2. tablas' \in [Consistencias -> [Tablas -> Nat]]
    BY <1>2, <2>1
  <2>3. CASE sigue = "fin"
    <3>1. /\ s \in EstadosDeHilo /\ s.lista = {} /\ s.pc = "fin" /\ s.rta = "SUCCESS"
          /\ s.op = r.op /\ s.sigue = r.sigue /\ s.tabla = r.tabla /\ s.hechas = r.hechas
          /\ r.op \notin DeMemorias
      BY <1>1, <1>4, <2>3
         DEF Sano, DondeVa, UnaVez, EstadosDeHilo, Pcs, Actualizando, DeMemorias, Eliminando
    <3> HIDE DEF s
    <3>2. Sano(s)
      BY <1>1, <3>1
         DEF Sano, DondeVa, QueTiene, UnaVez, Actualizando, DeMemorias, Eliminando
    <3> QED BY <1>5, <2>1, <2>2, <3>2
  <2>4. CASE sigue # "fin"
    <3>1. sigue \in Actualizando /\ c \in Consistencias /\ (sigue # "limpiar" => r.lista # {})
      BY <1>4, <2>4 DEF Actualizando
    <3>2. Sano(s)
      BY <1>1, <3>1, SigueActualizando
    <3> QED BY <1>5, <2>1, <2>2, <3>2
  <2> QED BY <2>3, <2>4
<1>7. CASE BuscarParaAgregar(h)
  <2>1. r.pc = "agregar"
    BY <1>7 DEF BuscarParaAgregar, r
  <2>2. \E s \in {Quedan(r, fila), [r EXCEPT !.pc = "agregarEn"],
                  [r EXCEPT !.criterio = Siguiente(r.criterio)]} : SoloTablas(h, s)
    BY <1>7 DEF BuscarParaAgregar, r, fila
  <2>3. Sano(Quedan(r, fila))
    BY <1>1, <1>3, <2>1, QuedanSano
  <2>4. Sano([r EXCEPT !.pc = "agregarEn"])
    <3>1. [r EXCEPT !.pc = "agregarEn"] = [r EXCEPT !.pc = "agregarEn", !.criterio = r.criterio]
      BY <1>1 DEF EstadosDeHilo
    <3>2. Sano([r EXCEPT !.pc = "agregarEn", !.criterio = r.criterio])
      BY <1>1, <1>2, <1>3, <2>1, SigueActualizando DEF Actualizando
    <3> QED BY <3>1, <3>2
  <2>5. Sano([r EXCEPT !.criterio = Siguiente(r.criterio)])
    <3>1. [r EXCEPT !.criterio = Siguiente(r.criterio)]
            = [r EXCEPT !.pc = "agregar", !.criterio = Siguiente(r.criterio)]
      BY <1>1, <2>1 DEF EstadosDeHilo
    <3>2. Sano([r EXCEPT !.pc = "agregar", !.criterio = Siguiente(r.criterio)])
      BY <1>1, <1>3, <1>4, <2>1, SigueActualizando DEF Actualizando
    <3> QED BY <3>1, <3>2
  <2>6. tablas' \in [Consistencias -> [Tablas -> Nat]]
    <3>1. \/ tablas' = tablas
          \/ /\ tablas[r.criterio][fila[1]] > 0
             /\ tablas' = [tablas EXCEPT ![r.criterio][fila[1]] = tablas[r.criterio][fila[1]] - 1]
      BY <1>2, <1>7 DEF BuscarParaAgregar, r, fila
    <3>2. tablas[r.criterio][fila[1]] \in Nat
      BY <1>2, <1>3, <2>1
    <3>3. tablas[r.criterio][fila[1]] > 0 => tablas[r.criterio][fila[1]] - 1 \in Nat
      BY <3>2
    <3> QED BY <1>2, <1>3, <2>1, <3>1, <3>3, TablasTrasUno
  <2> QED BY <1>5, <2>2, <2>3, <2>4, <2>5, <2>6
<1>8. CASE AgregarTabla(h)
  <2>1. /\ r.pc = "agregarEn" /\ SoloTablas(h, Quedan(r, fila))
        /\ tablas' = [tablas EXCEPT ![fila[2]][fila[1]] = @ + 1]
    BY <1>8 DEF AgregarTabla, r, fila
  <2>2. Sano(Quedan(r, fila))
    BY <1>1, <1>3, <2>1, QuedanSano
  <2>3. tablas' = [tablas EXCEPT ![fila[2]][fila[1]] = tablas[fila[2]][fila[1]] + 1]
    BY <1>2, <1>3, <2>1
  <2>4. tablas[fila[2]][fila[1]] + 1 \in Nat
    BY <1>2, <1>3, <2>1
  <2>5. tablas' \in [Consistencias -> [Tablas -> Nat]]
    BY <1>2, <1>3, <2>1, <2>3, <2>4, TablasTrasUno
  <2> QED BY <1>5, <2>1, <2>2, <2>5
<1> QED BY <1>6, <1>7, <1>8 DEF ActualizarTablas

\* The JOURNAL of all the memories, or of those of SHC.
LEMMA MemoriasDeCriterio ==
  ASSUME Inv, NEW c \in Consistencias
  PROVE  DelCriterio(c) \subseteq Memorias
<1>1. ToSet(memoriasShc) \subseteq Memorias
  BY DEF Inv, DatosInv, ToSet
<1> QED BY <1>1 DEF Inv, DatosInv, DelCriterio, Consistencias

LEMMA VisitarInv ==
  ASSUME Inv, NEW h \in Todos, hilo[h].op = "ADD", hilo[h].pc \in {"iterar", "siguiente"},
         NEW m \in ToSet(memoriasShc) \cup {Nadie}, Visitar(h, m)
  PROVE  Inv'
<1>1. EnCamino(hilo[h])
  BY DatosDeHilo DEF Actualizando
<1>2. m # Nadie => m \in Memorias
  BY DEF Inv, DatosInv, ToSet
<1>3. m # Nadie => DespuesDe(m) \in ToSet(memoriasShc) \cup {Nadie}
  <2> SUFFICES ASSUME m # Nadie PROVE DespuesDe(m) \in ToSet(memoriasShc) \cup {Nadie}
    OBVIOUS
  <2> DEFINE i == CHOOSE j \in DOMAIN memoriasShc : memoriasShc[j] = m
  <2>1. i \in DOMAIN memoriasShc
    BY DEF ToSet
  <2>2. memoriasShc \in Seq(Memorias)
    BY DEF Inv, DatosInv
  <2> HIDE DEF i
  <2>3. i # Len(memoriasShc) => i + 1 \in DOMAIN memoriasShc
    BY <2>1, <2>2
  <2> QED BY <2>3 DEF DespuesDe, ToSet, i
<1>4. cursor' \in [Todos -> ToSet(memoriasShc) \cup {Nadie, Liberada}]
  <2>1. cursor \in [Todos -> ToSet(memoriasShc) \cup {Nadie, Liberada}]
    BY DEF Inv, DatosInv
  <2>2. \E x \in ToSet(memoriasShc) \cup {Nadie} : cursor' = [cursor EXCEPT ![h] = x]
    BY <1>3 DEF Visitar
  <2> QED BY <2>1, <2>2
<1>5. Sano(Fin(hilo[h], "SUCCESS"))
  BY <1>1, FinSano DEF EnCamino, Respuestas
<1>6. m # Nadie => Sano(EnviarJournal(hilo[h], m))
  BY <1>1, <1>2, EnviarJournalSano DEF DeMemorias
<1>7. HilosInv'
  BY <1>5, <1>6, PasaUnSano DEF Visitar, Inv
<1>8. DatosInv'
  BY <1>4 DEF Visitar, Inv, DatosInv, listas, externas
<1> QED BY <1>7, <1>8 DEF Inv

LEMMA JournalInv ==
  ASSUME Inv, NEW h \in Todos, Journal(h)
  PROVE  Inv'
<1> DEFINE r == hilo[h]
<1>1. r \in EstadosDeHilo /\ Sano(r)
  BY DatosDeHilo
<1>2. r.pc \notin {"fin"} \cup Actualizando => EnCamino(r)
  BY DatosDeHilo
<1>3. CASE JuntarMemorias(h)
  <2> DEFINE junta == r.lista \cup DelCriterio(r.criterio)
             s1 == [r EXCEPT !.lista = junta, !.pc = "siguiente"]
             s2 == [r EXCEPT !.lista = junta, !.criterio = Siguiente(@)]
  <2>1. r.pc = "juntar" /\ EnCamino(r) /\ r.op = "JOURNAL"
    <3>1. r.pc = "juntar" /\ EnCamino(r)
      BY <1>2, <1>3 DEF JuntarMemorias, Actualizando
    <3> QED BY <1>1, <3>1 DEF Sano, DondeVa, EstadosDeHilo, Ops, DeMemorias, DeDatos, Eliminando
  <2>2. junta \subseteq Memorias
    BY <1>1, <2>1, MemoriasDeCriterio DEF EnCamino, EstadosDeHilo
  <2>3. SoloHilo(h, s1) \/ SoloHilo(h, s2)
    <3>1. CASE r.criterio = "EC"
      <4>1. SoloHilo(h, s1)
        BY <1>3, <3>1 DEF JuntarMemorias
      <4> QED BY <4>1
    <3>2. CASE r.criterio # "EC"
      <4>1. SoloHilo(h, s2)
        BY <1>3, <3>2 DEF JuntarMemorias
      <4> QED BY <4>1
    <3> QED BY <3>1, <3>2
  <2> HIDE DEF junta
  <2>4. /\ EnCamino(s1) /\ s1.op = "JOURNAL" /\ s1.pc = "siguiente"
        /\ EnCamino(s2) /\ s2.op = "JOURNAL" /\ s2.pc = "juntar"
    <3>1. junta \in SUBSET (Memorias \cup Filas) /\ Siguiente(r.criterio) \in Consistencias
      BY <2>2 DEF Siguiente, Consistencias
    <3>2. s1 \in EstadosDeHilo /\ s2 \in EstadosDeHilo
      BY <1>1, <3>1 DEF EstadosDeHilo, Pcs
    <3> QED BY <2>1, <2>2, <3>2 DEF EnCamino, EstadosDeHilo
  <2> HIDE DEF s1, s2
  <2>5. Sano(s1) /\ Sano(s2)
    BY <2>4, OtroLugarSano DEF Pcs, Eliminando, Actualizando, DeMemorias
  <2> QED BY <2>3, <2>5, SoloHiloInv
<1>4. CASE SiguienteJournal(h)
  <2> DEFINE m == CHOOSE x \in r.lista : TRUE
             s == [r EXCEPT !.lista = @ \ {m}]
  <2>1. r.op = "JOURNAL" /\ EnCamino(r)
    BY <1>2, <1>4 DEF SiguienteJournal, Actualizando
  <2>2. SoloHilo(h, IF r.lista = {} THEN Fin(r, "SUCCESS") ELSE EnviarJournal(s, m))
    BY <1>4 DEF SiguienteJournal
  <2>3. Sano(Fin(r, "SUCCESS"))
    BY <2>1, FinSano DEF EnCamino, Respuestas
  <2>4. r.lista # {} => m \in Memorias
    BY <2>1 DEF EnCamino
  <2> HIDE DEF m
  <2>5. EnCamino(s) /\ s.op = "JOURNAL"
    BY <2>1 DEF EnCamino, EstadosDeHilo
  <2> HIDE DEF s
  <2>6. r.lista # {} => Sano(EnviarJournal(s, m))
    BY <2>4, <2>5, EnviarJournalSano DEF DeMemorias
  <2> QED BY <2>2, <2>3, <2>6, SoloHiloInv
<1>5. CASE EnviarSinConexion(h)
  <2>1. EnCamino(r) /\ r.op \in DeMemorias
    BY <1>1, <1>2, <1>5 DEF EnviarSinConexion, Actualizando, Sano, DondeVa
  <2>2. Sano(AEliminar(r, "siguiente"))
    BY <2>1, AEliminarSano DEF Destinos
  <2> QED BY <1>5, <2>2, SoloHiloInv DEF EnviarSinConexion
<1>6. CASE IterarSHC(h)
  <2>1. r.op = "ADD" /\ r.pc = "iterar"
    BY <1>1, <1>6 DEF IterarSHC, Sano, DondeVa, EstadosDeHilo, Ops, DeMemorias, DeDatos, Eliminando
  <2>2. memoriasShc # <<>> => Head(memoriasShc) \in ToSet(memoriasShc)
    <3>1. memoriasShc \in Seq(Memorias)
      BY DEF Inv, DatosInv
    <3> QED BY <3>1 DEF ToSet
  <2> QED BY <1>6, <2>1, <2>2, VisitarInv DEF IterarSHC
<1>7. CASE SiguienteSHC(h)
  <2>1. r.op = "ADD" /\ r.pc = "siguiente" /\ cursor[h] # Liberada /\ Visitar(h, cursor[h])
    BY <1>7 DEF SiguienteSHC
  <2>2. cursor[h] \in ToSet(memoriasShc) \cup {Nadie}
    BY <2>1 DEF Inv, DatosInv
  <2> QED BY <2>1, <2>2, VisitarInv
<1>8. CASE SiguienteLiberada(h)
  BY <1>8 DEF SiguienteLiberada, Inv, HilosInv, DatosInv, listas, externas
<1> QED BY <1>3, <1>4, <1>5, <1>6, <1>7, <1>8 DEF Journal

\* ADD.
LEMMA AddInv ==
  ASSUME Inv, NEW h \in Todos, Add(h)
  PROVE  Inv'
<1> DEFINE r == hilo[h]
<1>1. EnCamino(r) /\ Sano(r) /\ r.op = "ADD"
  <2>1. r.pc \in {"add", "agregarMemoria"}
    BY DEF Add, BuscarMemoria, AgregarASC, AgregarASHC, AgregarAEC, YaEstaba
  <2> QED BY <2>1, DatosDeHilo
          DEF Actualizando, Sano, DondeVa, EstadosDeHilo, Ops, DeMemorias, DeDatos, Eliminando
<1>2. Sano(Fin(r, "SUCCESS")) /\ Sano(Fin(r, "FAILURE"))
  BY <1>1, FinSano DEF EnCamino, Respuestas
<1>3. r.pc = "agregarMemoria" => r.memoria \in Memorias
  BY <1>1 DEF Sano, QueTiene
<1>4. /\ memorias \subseteq Memorias /\ memoriasEc \subseteq Memorias
      /\ memoriasShc \in Seq(Memorias) /\ IsInjective(memoriasShc)
  BY DEF Inv, DatosInv
<1>5. CASE BuscarMemoria(h)
  <2> DEFINE s == [r EXCEPT !.pc = "agregarMemoria"]
  <2>1. EnCamino(s) /\ s.op = "ADD" /\ s.pc = "agregarMemoria" /\ s.memoria = r.memoria
    BY <1>1 DEF EnCamino, EstadosDeHilo, Pcs
  <2>2. SoloHilo(h, IF r.memoria \in memorias THEN s ELSE Fin(r, "FAILURE"))
    BY <1>5 DEF BuscarMemoria
  <2> HIDE DEF s
  <2>3. r.memoria \in memorias => Sano(s)
    BY <1>4, <2>1, OtroLugarSano DEF Pcs, Eliminando, Actualizando, DeMemorias
  <2> QED BY <1>2, <2>2, <2>3, SoloHiloInv
<1>6. CASE AgregarASC(h)
  <2>1. r.memoria \in Memorias /\ memoriaSc' = r.memoria /\ Pasa(h, Fin(r, "SUCCESS"))
        /\ UNCHANGED <<memorias, memoriasShc, memoriasEc, tablas, cursor, levantadas, lfs>>
    BY <1>3, <1>6 DEF AgregarASC, externas
  <2> QED BY <1>2, <2>1, PasaUnSano DEF Inv, DatosInv
<1>7. CASE AgregarASHC(h)
  <2> DEFINE s == [r EXCEPT !.pc = "iterar"]
  <2>1. EnCamino(s) /\ s.op = "ADD" /\ s.pc = "iterar"
    BY <1>1 DEF EnCamino, EstadosDeHilo, Pcs
  <2>2. /\ r.pc = "agregarMemoria" /\ r.memoria \notin ToSet(memoriasShc)
        /\ memoriasShc' = Append(memoriasShc, r.memoria) /\ Pasa(h, s)
        /\ UNCHANGED <<memorias, memoriaSc, memoriasEc, tablas, cursor, levantadas, lfs>>
    BY <1>7 DEF AgregarASHC, externas
  <2> HIDE DEF s
  <2>3. Sano(s)
    BY <2>1, OtroLugarSano DEF Pcs, Eliminando, Actualizando, DeMemorias
  <2>4. memoriasShc' \in Seq(Memorias) /\ ToSet(memoriasShc') = ToSet(memoriasShc) \cup {r.memoria}
    <3>1. memoriasShc' \in Seq(Memorias) /\ Range(memoriasShc') = Range(memoriasShc) \cup {r.memoria}
      BY <1>3, <1>4, <2>2, RangoDeAppend
    <3> QED BY <3>1 DEF ToSet, Range
  <2>5. IsInjective(memoriasShc')
    BY <1>3, <1>4, <2>2, AppendSinRepetidos DEF ToSet, Range
  <2>6. cursor' \in [Todos -> ToSet(memoriasShc') \cup {Nadie, Liberada}]
    <3>1. cursor \in [Todos -> ToSet(memoriasShc) \cup {Nadie, Liberada}]
      BY DEF Inv, DatosInv
    <3> QED BY <2>2, <2>4, <3>1
  <2>7. HilosInv'
    BY <2>2, <2>3, PasaUnSano DEF Inv
  <2> QED BY <2>2, <2>4, <2>5, <2>6, <2>7 DEF Inv, DatosInv
<1>8. CASE AgregarAEC(h)
  <2>1. r.memoria \in Memorias /\ memoriasEc' = memoriasEc \cup {r.memoria}
        /\ Pasa(h, Fin(r, "SUCCESS"))
        /\ UNCHANGED <<memorias, memoriaSc, memoriasShc, tablas, cursor, levantadas, lfs>>
    BY <1>3, <1>8 DEF AgregarAEC, externas
  <2> QED BY <1>2, <2>1, PasaUnSano DEF Inv, DatosInv
<1>9. CASE YaEstaba(h)
  BY <1>2, <1>9, SoloHiloInv DEF YaEstaba
<1> QED BY <1>5, <1>6, <1>7, <1>8, <1>9 DEF Add

\* The gossip.
DeGossip == {"gossip", "gossipAgregar", "gossipPpal", "gossipElegir"}

LEMMA SigueGossip ==
  ASSUME NEW r, EnCamino(r), r.op \notin DeMemorias, NEW pc \in DeGossip,
         NEW lista \in SUBSET Memorias, NEW m \in Memorias \cup {Nadie}, NEW fase \in Fases
  PROVE  Sano([r EXCEPT !.pc = pc, !.lista = lista, !.memoria = m, !.fase = fase])
<1> DEFINE s == [r EXCEPT !.pc = pc, !.lista = lista, !.memoria = m, !.fase = fase]
<1>1. s \in EstadosDeHilo
  BY DEF EnCamino, EstadosDeHilo, Pcs, DeGossip
<1>2. EnCamino(s) /\ s.op = r.op /\ s.pc = pc
  BY <1>1 DEF EnCamino, EstadosDeHilo
<1> HIDE DEF s
<1>3. Sano(s)
  BY <1>2, OtroLugarSano DEF Pcs, DeGossip, Eliminando, Actualizando, DeMemorias
<1> QED BY <1>3 DEF s

LEMMA GossipInv ==
  ASSUME Inv, Gossiping
  PROVE  Inv'
<1> DEFINE r == hilo[HiloGossip]
<1>0. HiloGossip \in Todos
  BY DEF Todos
<1>1. EnCamino(r) /\ r.op \notin DeMemorias
  <2>1. r.pc \in DeGossip
    BY DEF Gossiping, RecibirGossip, GossipSinRespuesta, AgregarConocida, RecordarPpal,
           ElegirProxima, Gossip, DeGossip
  <2> QED BY <1>0, <2>1, DatosDeHilo
          DEF DeGossip, Actualizando, Sano, DondeVa, DeMemorias, Eliminando
<1>2. /\ r \in EstadosDeHilo /\ r.lista \in SUBSET Memorias
      /\ r.memoria \in Memorias \cup {Nadie} /\ r.fase \in Fases
  BY <1>1 DEF EnCamino, EstadosDeHilo
<1>3. memorias \subseteq Memorias
  BY DEF Inv, DatosInv
<1>4. ASSUME NEW pc \in DeGossip, NEW lista \in SUBSET Memorias,
             NEW m \in Memorias \cup {Nadie}, NEW fase \in Fases
      PROVE  Sano([r EXCEPT !.pc = pc, !.lista = lista, !.memoria = m, !.fase = fase])
  BY <1>1, SigueGossip
<1>5. ASSUME NEW pc \in DeGossip, NEW lista \in SUBSET Memorias
      PROVE  /\ Sano([r EXCEPT !.pc = pc, !.lista = lista])
             /\ Sano([r EXCEPT !.lista = lista, !.pc = pc])
             /\ Sano([r EXCEPT !.pc = pc])
  <2> DEFINE s == [r EXCEPT !.pc = pc, !.lista = lista, !.memoria = r.memoria, !.fase = r.fase]
             u == [r EXCEPT !.pc = pc, !.lista = r.lista, !.memoria = r.memoria, !.fase = r.fase]
  <2>1. Sano(s) /\ Sano(u)
    BY <1>2, <1>4
  <2>2. s = [r EXCEPT !.pc = pc, !.lista = lista] /\ s = [r EXCEPT !.lista = lista, !.pc = pc]
    BY <1>2 DEF EstadosDeHilo
  <2>3. u = [r EXCEPT !.pc = pc]
    BY <1>2 DEF EstadosDeHilo
  <2> QED BY <2>1, <2>2, <2>3
<1>6. ASSUME NEW conocidas \in SUBSET Memorias, RecibirGossip(conocidas) PROVE Inv'
  <2>1. Pasa(HiloGossip, [r EXCEPT !.pc = "gossipAgregar", !.lista = conocidas])
    BY <1>6 DEF RecibirGossip, Gossip
  <2>2. HilosInv'
    BY <1>0, <1>5, <2>1, PasaUnSano DEF Inv, DeGossip
  <2> QED BY <1>6, <2>2 DEF RecibirGossip, Inv, DatosInv, listas
<1>7. CASE GossipSinRespuesta
  <2> DEFINE m == IF r.memoria = Ppal /\ ~numeroPpal THEN Nadie ELSE r.memoria
             s == [r EXCEPT !.memoria = m]
  <2>1. EnCamino(s) /\ s.op = r.op
    <3>1. m \in Memorias \cup {Nadie}
      BY <1>2
    <3> QED BY <1>1, <3>1 DEF EnCamino, EstadosDeHilo
  <2>2. SoloHilo(HiloGossip, AEliminar(s, "gossipElegir"))
    BY <1>7 DEF GossipSinRespuesta, AOlvidar, Gossip
  <2> HIDE DEF s
  <2>3. Sano(AEliminar(s, "gossipElegir"))
    BY <1>1, <2>1, AEliminarSano DEF Destinos
  <2> QED BY <1>0, <2>2, <2>3, SoloHiloInv
<1>8. CASE AgregarConocida
  <2>1. PICK m \in r.lista :
          /\ memorias' = memorias \cup {m}
          /\ Pasa(HiloGossip, [r EXCEPT !.lista = @ \ {m},
                    !.pc = IF r.lista # {m} THEN @
                           ELSE IF numeroPpal THEN "gossipElegir" ELSE "gossipPpal"])
    BY <1>8 DEF AgregarConocida, Gossip
  <2> DEFINE pc == IF r.lista # {m} THEN r.pc
                   ELSE IF numeroPpal THEN "gossipElegir" ELSE "gossipPpal"
             s == [r EXCEPT !.lista = r.lista \ {m}, !.pc = pc]
  <2>2. Pasa(HiloGossip, s)
    BY <1>2, <2>1 DEF EstadosDeHilo
  <2>3. pc \in DeGossip
    BY <1>8 DEF AgregarConocida, Gossip, DeGossip
  <2> HIDE DEF pc
  <2>4. Sano(s)
    BY <1>2, <1>5, <2>3
  <2>5. HilosInv'
    BY <1>0, <2>2, <2>4, PasaUnSano DEF Inv
  <2>6. memorias' \subseteq Memorias
    BY <1>2, <1>3, <2>1
  <2> QED BY <1>8, <2>5, <2>6 DEF AgregarConocida, Inv, DatosInv, externas
<1>9. CASE RecordarPpal
  <2>1. Pasa(HiloGossip, [r EXCEPT !.pc = "gossipElegir"])
    BY <1>9 DEF RecordarPpal, Gossip
  <2>2. HilosInv'
    BY <1>0, <1>2, <1>5, <2>1, PasaUnSano DEF Inv, DeGossip
  <2> QED BY <1>9, <2>2 DEF RecordarPpal, Inv, DatosInv, listas, externas
<1>10. CASE ElegirProxima
  <2>1. PICK m \in memorias \cup {Ppal} :
          SoloHilo(HiloGossip, [r EXCEPT !.pc = "gossip", !.memoria = m, !.fase = "vuelta"])
    BY <1>10 DEF ElegirProxima, Gossip
  <2> DEFINE s == [r EXCEPT !.pc = "gossip", !.memoria = m, !.fase = "vuelta"]
             u == [r EXCEPT !.pc = "gossip", !.lista = r.lista, !.memoria = m, !.fase = "vuelta"]
  <2>2. m \in Memorias
    BY <1>3, <2>1, MemoriasAssumption
  <2>3. Sano(u)
    BY <1>2, <1>4, <2>2 DEF DeGossip, Fases
  <2>4. s = u
    BY <1>2 DEF EstadosDeHilo
  <2> QED BY <1>0, <2>1, <2>3, <2>4, SoloHiloInv
<1> QED BY <1>6, <1>7, <1>8, <1>9, <1>10 DEF Gossiping

\* Requests, and the memories that fall and start.
LEMMA PedirInv ==
  ASSUME Inv, NEW h \in Hilos, NEW p \in Requests, Pedir(h, p)
  PROVE  Inv'
<1> DEFINE r == [Libre EXCEPT !.op = p.op, !.tabla = p.tabla, !.clave = p.clave,
                              !.criterio = p.criterio, !.memoria = p.memoria]
<1>1. /\ p.op \in Ops /\ p.tabla \in Tablas \cup {Nadie} /\ p.clave \in Nat
      /\ p.criterio \in Consistencias /\ p.memoria \in Memorias \cup {Nadie}
      /\ p.op \in DeDatos \cup {"CREATE", "DROP"} => p.tabla \in Tablas
  BY RequestsAssumption DEF Ops, DeDatos, DeMemorias, Consistencias
<1>2. Libre \in EstadosDeHilo
  BY LibreSano DEF Sano
<1>3. r \in EstadosDeHilo
  BY <1>1, <1>2 DEF EstadosDeHilo
<1>4. EnCamino(r) /\ r.sigue = "libre"
  BY <1>1, <1>3 DEF EnCamino, Libre, EstadosDeHilo
<1> HIDE DEF r
<1>5. \E s \in Empezado(r) : Pasa(h, s)
  BY DEF Pedir, r
<1>6. \A s \in Empezado(r) : Sano(s)
  BY <1>4, EmpezadoSano DEF Inv, DatosInv
<1>7. h \in Todos
  BY DEF Todos
<1>8. HilosInv'
  BY <1>5, <1>6, <1>7, PasaUnSano DEF Inv
<1> QED BY <1>8 DEF Pedir, Inv, DatosInv, listas, externas

LEMMA DescribeAutomaticoInv ==
  ASSUME Inv, DescribeAutomatico
  PROVE  Inv'
<1>1. EnCamino(Libre) /\ Libre.sigue = "libre"
  BY LibreSano, SanoEnCamino DEF Libre, Actualizando
<1>2. \A s \in Empezado(Libre) : Sano(s)
  BY <1>1, EmpezadoSano DEF Inv, DatosInv
<1>3. HiloDescribe \in Todos
  BY DEF Todos
<1> QED BY <1>2, <1>3, SoloHiloInv DEF DescribeAutomatico

LEMMA CaerInv ==
  ASSUME Inv, NEW m \in Memorias, Caer(m)
  PROVE  Inv'
<1>1. ASSUME NEW h \in Todos
      PROVE  hilo'[h] \in EstadosDeHilo /\ Sano(hilo'[h])
  <2>1. hilo[h] \in EstadosDeHilo /\ Sano(hilo[h])
    BY DatosDeHilo
  <2> DEFINE s == [hilo[h] EXCEPT !.abierta = FALSE]
  <2>2. s \in EstadosDeHilo
    BY <2>1 DEF EstadosDeHilo
  <2>3. /\ s.pc = hilo[h].pc /\ s.op = hilo[h].op /\ s.tabla = hilo[h].tabla
        /\ s.memoria = hilo[h].memoria /\ s.abierta = FALSE /\ s.fase = hilo[h].fase
        /\ s.rta = hilo[h].rta /\ s.lista = hilo[h].lista /\ s.sigue = hilo[h].sigue
        /\ s.hechas = hilo[h].hechas
    BY <2>1 DEF EstadosDeHilo
  <2>4. hilo'[h] = s \/ hilo'[h] = hilo[h]
    BY DEF Caer
  <2> HIDE DEF s
  <2>5. Sano(s)
    BY <2>1, <2>2, <2>3 DEF Sano, DondeVa, QueTiene, UnaVez
  <2> QED BY <2>1, <2>2, <2>4, <2>5
<1>2. HilosInv'
  BY <1>1 DEF Caer, HilosInv
<1> QED BY <1>2 DEF Caer, Inv, DatosInv, listas

LEMMA InvNext ==
  ASSUME Inv, [Next]_vars
  PROVE  Inv'
<1>1. ASSUME NEW h \in Todos, Avanzar(h) PROVE Inv'
  BY <1>1, EliminarInv, RuteoInv, AtenderInv, ActualizarTablasInv, JournalInv, AddInv
     DEF Avanzar
<1>2. ASSUME NEW m \in Memorias, Levantar(m) PROVE Inv'
  BY <1>2 DEF Levantar, Inv, HilosInv, DatosInv, listas
<1>3. CASE UNCHANGED vars
  BY <1>3 DEF vars, Inv, HilosInv, DatosInv, listas, externas
<1> QED BY <1>1, <1>2, <1>3, PedirInv, DescribeAutomaticoInv, GossipInv, CaerInv DEF Next

LEMMA InvSiempre == Spec => []Inv
<1>1. Init => Inv
  BY InitInv
<1>2. Inv /\ [Next]_vars => Inv'
  BY InvNext
<1> QED BY <1>1, <1>2, PTL DEF Spec

\* In the kernel every list, table and thread keeps its type: in particular
\* eliminarMemoria, ADD and gossip never leave a memory twice in a criterion, and
\* agregarTablaACriterio does not take a table out of a list it is not in.
THEOREM TiposDeCriterios == Spec => []TypeOK
<1>1. Inv => TypeOK
  <2> SUFFICES ASSUME Inv PROVE TypeOK
    OBVIOUS
  <2>1. \A h \in Todos : hilo[h] \in EstadosDeHilo
    BY DatosDeHilo
  <2>2. cursor \in [Todos -> Memorias \cup {Nadie, Liberada}]
    BY DEF Inv, DatosInv, ToSet
  <2> QED BY <2>1, <2>2 DEF Inv, DatosInv, TypeOK, EstadosDeHilo
<1> QED BY <1>1, InvSiempre, PTL

\* However often a request is sent again, after a MEMORIA_FULL or to another
\* memory because one fell, it is executed once at most; and the script of one
\* that was executed is not cancelled, but if the memory that was asked for a
\* JOURNAL falls (enviarMensajeAMemoria).
THEOREM SeEjecutaUnaSolaVez == Spec => []UnaSolaVez
<1>1. Inv => UnaSolaVez
  BY DatosDeHilo DEF UnaSolaVez, Sano, UnaVez
<1> QED BY <1>1, InvSiempre, PTL

------------------------------------------------------------------------------
(* FantasmaSoloPorAdd is inductive, given Inv.                             *)

\* Somebody is to remove the memory from the criterion.
Va(c, m) == \E h \in Todos : hilo[h].memoria = m /\ hilo[h].pc \in DeEliminar(c)

Explicada(c, m) == m \in memorias \/ <<c, m>> \in fantasmas \/ Va(c, m)

\* A step of a thread that is not eliminating a memory from a criterion, and
\* that takes no memory out of memorias nor puts one in a criterion.
LEMMA FantasmaIgual ==
  ASSUME FantasmaSoloPorAdd, NEW h \in Todos, hilo \in [Todos -> EstadosDeHilo],
         hilo[h].pc \notin DeEliminar("EC"),
         \A g \in Todos \ {h} : hilo'[g] = hilo[g],
         memorias \subseteq memorias', fantasmas' = fantasmas,
         UNCHANGED <<memoriaSc, memoriasShc, memoriasEc>>
  PROVE  FantasmaSoloPorAdd'
<1>1. \A c \in Consistencias : DelCriterio(c)' = DelCriterio(c)
  BY DEF DelCriterio, Consistencias
<1>2. \A c \in Consistencias : hilo[h].pc \notin DeEliminar(c)
  BY DEF DeEliminar, Consistencias
<1> SUFFICES ASSUME NEW c \in Consistencias, NEW x \in DelCriterio(c)'
             PROVE  Explicada(c, x)'
  BY DEF FantasmaSoloPorAdd, Explicada, Va
<1>3. Va(c, x) => Va(c, x)'
  BY <1>2 DEF Va
<1>4. Explicada(c, x)
  BY <1>1 DEF FantasmaSoloPorAdd, Explicada, Va
<1> QED BY <1>3, <1>4 DEF Explicada

LEMMA FantasmaInit == Init => FantasmaSoloPorAdd
BY DEF Init, ApenasEmpieza, FantasmaSoloPorAdd, DelCriterio, Consistencias, ToSet

\* What is left of a criterion when a memory is eliminated from it.
LEMMA FantasmaEliminar ==
  ASSUME Inv, FantasmaSoloPorAdd, NEW h \in Todos, Eliminar(h)
  PROVE  FantasmaSoloPorAdd'
<1> DEFINE m == hilo[h].memoria
<1> SUFFICES ASSUME NEW c \in Consistencias, NEW x \in DelCriterio(c)'
             PROVE  Explicada(c, x)'
  BY DEF FantasmaSoloPorAdd, Explicada, Va
<1>1. \A g \in Todos : hilo[g] \in EstadosDeHilo
  BY DatosDeHilo
<1>2. x \in DelCriterio(c) => Explicada(c, x)
  BY DEF FantasmaSoloPorAdd, Explicada, Va
<1>3. PICK p : hilo' = [hilo EXCEPT ![h] = [hilo[h] EXCEPT !.pc = p]]
  BY DEF Eliminar, EliminarDeMemorias, EliminarDeSC, EliminarDeSHC, EliminarDeEC, Pasa
<1>4. /\ hilo'[h].memoria = m /\ hilo'[h].pc = p
      /\ \A g \in Todos \ {h} : hilo'[g] = hilo[g]
  BY <1>1, <1>3 DEF Inv, HilosInv, EstadosDeHilo
\* The thread goes on having to remove its memory from the criterion, or it was
\* not one of those that had to remove it.
<1>5. ASSUME \/ p \in DeEliminar(c)
             \/ hilo[h].pc \notin DeEliminar(c)
             \/ x # m
      PROVE  Va(c, x) => Va(c, x)'
  BY <1>4, <1>5 DEF Va
<1>6. CASE EliminarDeMemorias(h)
  <2>1. memorias' = memorias \ {m} /\ p = "eliminarDeSC" /\ fantasmas' = fantasmas
        /\ UNCHANGED <<memoriaSc, memoriasShc, memoriasEc>>
    BY <1>4, <1>6 DEF EliminarDeMemorias, historia, Inv, HilosInv, Pasa, EstadosDeHilo
  <2>2. p \in DeEliminar(c) /\ x \in DelCriterio(c)
    BY <2>1 DEF DeEliminar, DelCriterio, Consistencias
  <2>3. x = m => Va(c, x)'
    BY <1>4, <2>2 DEF Va
  <2> QED BY <1>2, <1>5, <2>1, <2>2, <2>3 DEF Explicada
<1>7. CASE EliminarDeSC(h)
  <2>1. memoriaSc' = (IF memoriaSc = m THEN Nadie ELSE memoriaSc) /\ p = "eliminarDeSHC"
        /\ fantasmas' = fantasmas \ {<<"SC", m>>}
        /\ UNCHANGED <<memorias, memoriasShc, memoriasEc>>
    BY <1>4, <1>7 DEF EliminarDeSC, Salio, Inv, HilosInv, Pasa, EstadosDeHilo
  <2>2. x \in DelCriterio(c) /\ (c = "SC" => x # m)
    BY <2>1 DEF DelCriterio, Consistencias
  <2>3. c # "SC" => p \in DeEliminar(c)
    BY <2>1 DEF DeEliminar, Consistencias
  <2> QED BY <1>2, <1>5, <2>1, <2>2, <2>3 DEF Explicada
<1>8. CASE EliminarDeSHC(h)
  <2>1. memoriasShc' = RemoveFirst(memoriasShc, m) /\ p = "eliminarDeEC"
        /\ fantasmas' = fantasmas \ {<<"SHC", m>>} /\ hilo[h].pc = "eliminarDeSHC"
        /\ UNCHANGED <<memorias, memoriaSc, memoriasEc>>
    BY <1>4, <1>8 DEF EliminarDeSHC, Salio, Inv, HilosInv, Pasa, EstadosDeHilo
  <2>2. Range(memoriasShc') = Range(memoriasShc) \ {m}
    BY <2>1, RemoveFirstSinRepetidos DEF Inv, DatosInv
  <2>3. x \in DelCriterio(c) /\ (c = "SHC" => x # m)
    BY <2>1, <2>2 DEF DelCriterio, Consistencias, ToSet, Range
  <2>4. c = "EC" => p \in DeEliminar(c)
    BY <2>1 DEF DeEliminar
  <2>5. c = "SC" => hilo[h].pc \notin DeEliminar(c)
    BY <2>1 DEF DeEliminar
  <2> QED BY <1>2, <1>5, <2>1, <2>3, <2>4, <2>5 DEF Explicada, Consistencias
<1>9. CASE EliminarDeEC(h)
  <2>1. memoriasEc' = memoriasEc \ {m} /\ fantasmas' = fantasmas \ {<<"EC", m>>}
        /\ hilo[h].pc = "eliminarDeEC"
        /\ UNCHANGED <<memorias, memoriaSc, memoriasShc>>
    BY <1>9 DEF EliminarDeEC, Salio
  <2>2. x \in DelCriterio(c) /\ (c = "EC" => x # m)
    BY <2>1 DEF DelCriterio, Consistencias
  <2>3. c # "EC" => hilo[h].pc \notin DeEliminar(c)
    BY <2>1 DEF DeEliminar, Consistencias
  <2> QED BY <1>2, <1>5, <2>1, <2>2, <2>3 DEF Explicada
<1> QED BY <1>6, <1>7, <1>8, <1>9 DEF Eliminar

LEMMA FantasmaAdd ==
  ASSUME Inv, FantasmaSoloPorAdd, NEW h \in Todos, Add(h)
  PROVE  FantasmaSoloPorAdd'
<1> DEFINE m == hilo[h].memoria
<1> SUFFICES ASSUME NEW c \in Consistencias, NEW x \in DelCriterio(c)'
             PROVE  Explicada(c, x)'
  BY DEF FantasmaSoloPorAdd, Explicada, Va
<1>1. x \in DelCriterio(c) => Explicada(c, x)
  BY DEF FantasmaSoloPorAdd, Explicada, Va
<1>2. hilo[h].pc \in {"add", "agregarMemoria"}
  BY DEF Add, BuscarMemoria, AgregarASC, AgregarASHC, AgregarAEC, YaEstaba
<1>3. \A g \in Todos \ {h} : hilo'[g] = hilo[g]
  BY DEF Inv, HilosInv, Add, BuscarMemoria, AgregarASC, AgregarASHC, AgregarAEC, YaEstaba,
         SoloHilo, Pasa
<1>4. Va(c, x) => Va(c, x)'
  BY <1>2, <1>3 DEF Va, DeEliminar, Consistencias
<1>5. CASE BuscarMemoria(h) \/ YaEstaba(h)
  <2>1. UNCHANGED <<memorias, fantasmas, memoriaSc, memoriasShc, memoriasEc>>
    BY <1>5 DEF BuscarMemoria, YaEstaba, SoloHilo, listas, historia
  <2>2. x \in DelCriterio(c)
    BY <2>1 DEF DelCriterio, Consistencias
  <2> QED BY <1>1, <1>4, <2>1, <2>2 DEF Explicada
<1>6. CASE AgregarASC(h)
  <2>1. /\ memoriaSc' = m /\ UNCHANGED <<memorias, memoriasShc, memoriasEc>>
        /\ fantasmas' = {p \in fantasmas : p[1] # "SC"}
                          \cup (IF m \in memorias THEN {} ELSE {<<"SC", m>>})
    BY <1>6 DEF AgregarASC
  <2>2. CASE c = "SC"
    BY <2>1, <2>2 DEF DelCriterio, Explicada
  <2>3. CASE c # "SC"
    <3>1. x \in DelCriterio(c)
      BY <2>1, <2>3 DEF DelCriterio, Consistencias
    <3>2. <<c, x>> \in fantasmas => <<c, x>> \in fantasmas'
      BY <2>1, <2>3
    <3> QED BY <1>1, <1>4, <2>1, <3>1, <3>2 DEF Explicada
  <2> QED BY <2>2, <2>3
<1>7. CASE AgregarASHC(h) \/ AgregarAEC(h)
  <2>1. memorias' = memorias /\ fantasmas \subseteq fantasmas'
    BY <1>7 DEF AgregarASHC, AgregarAEC, Entro
  <2>2. x \in DelCriterio(c) \/ x \in memorias \/ <<c, x>> \in fantasmas'
    <3>1. CASE AgregarASHC(h)
      <4>1. /\ memoriasShc' = Append(memoriasShc, m)
            /\ m \in memorias \/ <<"SHC", m>> \in fantasmas'
            /\ UNCHANGED <<memoriaSc, memoriasEc>>
        BY <3>1 DEF AgregarASHC, Entro
      <4>2. m \in Memorias /\ memoriasShc \in Seq(Memorias)
        BY <3>1, DatosDeHilo DEF AgregarASHC, Sano, QueTiene, Inv, DatosInv
      <4>3. Range(memoriasShc') = Range(memoriasShc) \cup {m}
        BY <4>1, <4>2, RangoDeAppend
      <4> QED BY <4>1, <4>3 DEF DelCriterio, Consistencias, ToSet, Range
    <3>2. CASE AgregarAEC(h)
      BY <3>2 DEF AgregarAEC, Entro, DelCriterio, Consistencias
    <3> QED BY <1>7, <3>1, <3>2
  <2> QED BY <1>1, <1>4, <2>1, <2>2 DEF Explicada
<1> QED BY <1>5, <1>6, <1>7 DEF Add

LEMMA FantasmaNext ==
  ASSUME Inv, FantasmaSoloPorAdd, [Next]_vars
  PROVE  FantasmaSoloPorAdd'
<1>1. hilo \in [Todos -> EstadosDeHilo]
  BY DEF Inv, HilosInv
<1>2. ASSUME NEW h \in Todos, NEW r, Pasa(h, r), hilo[h].pc \notin DeEliminar("EC"),
             memorias \subseteq memorias', fantasmas' = fantasmas,
             UNCHANGED <<memoriaSc, memoriasShc, memoriasEc>>
      PROVE  FantasmaSoloPorAdd'
  BY <1>1, <1>2, FantasmaIgual DEF Pasa
<1>3. ASSUME NEW h \in Todos, NEW r, SoloHilo(h, r), hilo[h].pc \notin DeEliminar("EC")
      PROVE  FantasmaSoloPorAdd'
  BY <1>2, <1>3 DEF SoloHilo, listas, historia
<1>4. ASSUME NEW h \in Todos, Avanzar(h) PROVE FantasmaSoloPorAdd'
  <2>1. CASE BuscarTabla(h) \/ ElegirMemoria(h) \/ ReintentarConexion(h) \/ Handshake(h)
             \/ SinEjecutar(h) \/ Terminar(h)
    <3>1. hilo[h].pc \notin DeEliminar("EC") /\ \E r : SoloHilo(h, r)
      BY <2>1 DEF BuscarTabla, ElegirMemoria, ReintentarConexion, Handshake, SinEjecutar,
                  Terminar, DeEliminar
    <3> QED BY <1>3, <3>1
  <2>2. CASE Atender(h)
    <3>1. PICK rta, filas : Responde(h, rta, filas)
      BY <2>2 DEF Atender, AtenderDatos, AtenderCreate, AtenderDrop, AtenderDescribe,
                  AtenderJournal, AtenderSinLFS, SinRespuesta
    <3>2. hilo[h].pc = "enviado" /\ (\E r : Pasa(h, r)) /\ UNCHANGED <<listas, fantasmas>>
      BY <3>1 DEF Responde
    <3> QED BY <1>2, <3>2 DEF listas, DeEliminar
  <2>3. CASE ActualizarTablas(h)
    <3>1. hilo[h].pc \in Actualizando /\ \E r : SoloTablas(h, r)
      BY <2>3 DEF ActualizarTablas, LimpiarTablas, BuscarParaAgregar, AgregarTabla, Actualizando
    <3> QED BY <1>2, <3>1 DEF SoloTablas, listas, historia, DeEliminar, Actualizando
  <2>4. CASE JuntarMemorias(h) \/ SiguienteJournal(h) \/ EnviarSinConexion(h)
    <3>1. hilo[h].pc \notin DeEliminar("EC") /\ \E r : SoloHilo(h, r)
      BY <2>4 DEF JuntarMemorias, SiguienteJournal, EnviarSinConexion, DeEliminar
    <3> QED BY <1>3, <3>1
  <2>5. CASE IterarSHC(h) \/ SiguienteSHC(h)
    <3>1. hilo[h].pc \in {"iterar", "siguiente"} /\ \E m : Visitar(h, m)
      BY <2>5 DEF IterarSHC, SiguienteSHC
    <3> QED BY <1>2, <3>1 DEF Visitar, listas, historia, DeEliminar
  <2>6. CASE SiguienteLiberada(h)
    BY <2>6 DEF SiguienteLiberada, listas, historia, FantasmaSoloPorAdd, DelCriterio
  <2> QED BY <1>4, <2>1, <2>2, <2>3, <2>4, <2>5, <2>6, FantasmaEliminar, FantasmaAdd
          DEF Avanzar, Journal
<1>5. ASSUME NEW h \in Hilos, NEW p \in Requests, Pedir(h, p) PROVE FantasmaSoloPorAdd'
  <2>1. h \in Todos /\ hilo[h].pc = "libre" /\ \E r : Pasa(h, r)
    BY <1>5 DEF Pedir, Todos
  <2> QED BY <1>2, <1>5, <2>1 DEF Pedir, listas, DeEliminar
<1>6. CASE DescribeAutomatico
  <2>1. HiloDescribe \in Todos /\ hilo[HiloDescribe].pc = "libre"
        /\ \E r : SoloHilo(HiloDescribe, r)
    BY <1>6 DEF DescribeAutomatico, Todos
  <2> QED BY <1>3, <2>1 DEF DeEliminar
<1>7. CASE Gossiping
  <2>1. HiloGossip \in Todos /\ hilo[HiloGossip].pc \in DeGossip
    BY <1>7 DEF Gossiping, RecibirGossip, GossipSinRespuesta, AgregarConocida, RecordarPpal,
                ElegirProxima, Gossip, DeGossip, Todos
  <2>2. \E r : Pasa(HiloGossip, r)
    BY <1>7 DEF Gossiping, RecibirGossip, GossipSinRespuesta, AgregarConocida, RecordarPpal,
                ElegirProxima, Gossip, SoloHilo
  <2>3. /\ memorias \subseteq memorias' /\ fantasmas' = fantasmas
        /\ UNCHANGED <<memoriaSc, memoriasShc, memoriasEc>>
    BY <1>7 DEF Gossiping, RecibirGossip, GossipSinRespuesta, AgregarConocida, RecordarPpal,
                ElegirProxima, SoloHilo, listas, historia
  <2> QED BY <1>2, <2>1, <2>2, <2>3 DEF DeEliminar, DeGossip
<1>8. ASSUME NEW m \in Memorias, Caer(m) PROVE FantasmaSoloPorAdd'
  <2>1. \A g \in Todos : hilo'[g].memoria = hilo[g].memoria /\ hilo'[g].pc = hilo[g].pc
    BY <1>1, <1>8 DEF Caer, EstadosDeHilo
  <2>2. \A c \in Consistencias : DelCriterio(c)' = DelCriterio(c)
    BY <1>8 DEF Caer, listas, DelCriterio, Consistencias
  <2>3. \A c, x : Va(c, x) => Va(c, x)'
    BY <2>1 DEF Va
  <2>4. memorias' = memorias /\ fantasmas' = fantasmas
    BY <1>8 DEF Caer, listas, historia
  <2> SUFFICES ASSUME NEW c \in Consistencias, NEW x \in DelCriterio(c)'
               PROVE  Explicada(c, x)'
    BY DEF FantasmaSoloPorAdd, Explicada, Va
  <2>5. Explicada(c, x)
    BY <2>2 DEF FantasmaSoloPorAdd, Explicada, Va
  <2> QED BY <2>3, <2>4, <2>5 DEF Explicada
<1>9. ASSUME NEW m \in Memorias, Levantar(m) PROVE FantasmaSoloPorAdd'
  BY <1>9 DEF Levantar, listas, historia, FantasmaSoloPorAdd, DelCriterio
<1>10. CASE UNCHANGED vars
  BY <1>10 DEF vars, listas, historia, FantasmaSoloPorAdd, DelCriterio
<1> QED BY <1>4, <1>5, <1>6, <1>7, <1>8, <1>9, <1>10 DEF Next

\* eliminarMemoria takes a memory out of one list at a time, while others route
\* requests and type ADDs; what remains in a criterion after the memory is gone
\* from memorias is only what some thread has still to remove, or what a late
\* ADD put back.
THEOREM LosFantasmasVienenDeAdd == Spec => []FantasmaSoloPorAdd
<1>1. Init => FantasmaSoloPorAdd
  BY FantasmaInit
<1>2. Inv /\ FantasmaSoloPorAdd /\ [Next]_vars => FantasmaSoloPorAdd'
  BY FantasmaNext
<1> QED BY <1>1, <1>2, InvSiempre, PTL DEF Spec

------------------------------------------------------------------------------
(* DebenInv is inductive, given Inv.                                       *)

\* What a thread owes is where it was.
Conserva(h, p) ==
  /\ p[2] \in DelCriterio(p[1]) => p[2] \in DelCriterio(p[1])'
  /\ PorVisitar(h, p) => PorVisitar(h, p)'

LEMMA TodoIgual ==
  ASSUME UNCHANGED <<listas, cursor>>, NEW h \in Todos, NEW p
  PROVE  Conserva(h, p)
BY DEF Conserva, listas, DelCriterio, PorVisitar, Precede

LEMMA DebeIgual ==
  ASSUME NEW h \in Todos, NEW p \in Consistencias \X Memorias, DebeBien(h, p),
         Conserva(h, p), hilo'[h].op = hilo[h].op, hilo'[h].pc = hilo[h].pc,
         hilo'[h].criterio = hilo[h].criterio, hilo'[h].memoria = hilo[h].memoria,
         hilo'[h].lista = hilo[h].lista
  PROVE  DebeBien(h, p)'
<1>1. ConQuienEsta(hilo[h], p) => ConQuienEsta(hilo'[h], p)
  BY DEF ConQuienEsta, FaltaEliminar
<1>2. p[1] = "SHC" => DelCriterio(p[1]) = ToSet(memoriasShc)
                      /\ DelCriterio(p[1])' = ToSet(memoriasShc')
  BY DEF DelCriterio
<1>3. CASE hilo[h].op = "JOURNAL"
  <2>1. DebeJournal(h, p)
    BY <1>3 DEF DebeBien
  <2>2. DebeJournal(h, p)'
    BY <1>1, <2>1 DEF DebeJournal, Conserva
  <2> QED BY <1>3, <2>2 DEF DebeBien
<1>4. CASE hilo[h].op = "ADD"
  <2>1. DebeAdd(h, p)
    BY <1>4 DEF DebeBien
  <2>2. DebeAdd(h, p)'
    BY <1>1, <1>2, <2>1 DEF DebeAdd, Conserva
  <2> QED BY <1>4, <2>2 DEF DebeBien
<1> QED BY <1>3, <1>4 DEF DebeBien

\* Only a JOURNAL and an ADD owe something.
LEMMA LosDemasNoDeben ==
  ASSUME DebenInv, NEW h \in Todos, hilo[h].op \notin DeMemorias
  PROVE  deben[h] = {}
BY DEF DebenInv, DebeBien, DeMemorias

\* A step of one thread: what it owes afterwards it owed before and is where it
\* should be, and what the others owe too.
LEMMA DebenTrasUno ==
  ASSUME Inv, DebenInv, NEW h \in Todos, NEW r, Pasa(h, r),
         \A g \in Todos : deben'[g] \subseteq deben[g],
         deben' \in [Todos -> SUBSET (Consistencias \X Memorias)],
         \A g \in Todos \ {h} : \A p \in deben'[g] : Conserva(g, p),
         \A p \in deben'[h] : DebeBien(h, p) => DebeBien(h, p)'
  PROVE  DebenInv'
<1> SUFFICES ASSUME NEW g \in Todos, NEW p \in deben'[g] PROVE DebeBien(g, p)'
  BY DEF DebenInv
<1>1. DebeBien(g, p) /\ p \in Consistencias \X Memorias
  BY DEF DebenInv
<1>2. CASE g = h
  BY <1>1, <1>2
<1>3. CASE g # h
  <2>1. hilo'[g] = hilo[g]
    BY <1>3 DEF Pasa, Inv, HilosInv
  <2>2. Conserva(g, p)
    BY <1>3
  <2> QED BY <1>1, <2>1, <2>2, DebeIgual
<1> QED BY <1>2, <1>3

\* A step that has nothing to do with JOURNALs.
LEMMA DebenComun ==
  ASSUME Inv, DebenInv, NEW h \in Todos, NEW r, Pasa(h, r), hilo[h].op \notin DeMemorias,
         UNCHANGED <<listas, cursor, deben>>
  PROVE  DebenInv'
<1>1. \A g \in Todos : \A p : Conserva(g, p)
  BY TodoIgual
<1>2. deben'[h] = {}
  BY LosDemasNoDeben
<1>3. deben' \in [Todos -> SUBSET (Consistencias \X Memorias)]
  BY DEF DebenInv
<1> QED BY <1>1, <1>2, <1>3, DebenTrasUno

LEMMA DebenInit == Init => DebenInv
BY DEF Init, ApenasEmpieza, DebenInv

LEMMA DebenEliminar ==
  ASSUME Inv, DebenInv, NEW h \in Todos, Eliminar(h)
  PROVE  DebenInv'
<1> DEFINE m == hilo[h].memoria
<1>1. hilo[h] \in EstadosDeHilo /\ Sano(hilo[h])
  BY DatosDeHilo
<1>2. deben \in [Todos -> SUBSET (Consistencias \X Memorias)]
  BY DEF DebenInv
<1>3. hilo[h].pc \in Eliminando
  BY DEF Eliminar, EliminarDeMemorias, EliminarDeSC, EliminarDeSHC, EliminarDeEC, Eliminando
<1>4. PICK q : /\ Pasa(h, [hilo[h] EXCEPT !.pc = q])
               /\ q \in {"eliminarDeSC", "eliminarDeSHC", "eliminarDeEC", hilo[h].sigue}
  BY DEF Eliminar, EliminarDeMemorias, EliminarDeSC, EliminarDeSHC, EliminarDeEC
<1>5. /\ hilo'[h].pc = q /\ hilo'[h].op = hilo[h].op /\ hilo'[h].memoria = m
      /\ hilo'[h].lista = hilo[h].lista
  BY <1>1, <1>4 DEF Pasa, Inv, HilosInv, EstadosDeHilo
\* What becomes of what the thread itself owes, when it has passed the criterion c.
<1>6. ASSUME NEW p \in Consistencias \X Memorias, DebeBien(h, p), Conserva(h, p),
             ConQuienEsta(hilo[h], p) => ConQuienEsta(hilo'[h], p)
      PROVE  DebeBien(h, p)'
  <2>1. hilo[h].op \in DeMemorias => hilo[h].sigue \in {"siguiente", "enviarSinConexion"}
    BY <1>1, <1>3 DEF Sano, DondeVa
  <2>2. hilo[h].op \in DeMemorias => q \notin {"juntar", "iterar", "add", "agregarMemoria"}
    BY <1>4, <2>1
  <2>3. hilo[h].pc \notin {"juntar", "iterar", "add", "agregarMemoria"}
    BY <1>3 DEF Eliminando
  <2>4. CASE hilo[h].op = "JOURNAL"
    <3>1. p[2] \in hilo[h].lista \/ ConQuienEsta(hilo[h], p)
      BY <1>6, <2>3, <2>4 DEF DebeBien, DebeJournal
    <3>2. DebeJournal(h, p)'
      BY <1>5, <1>6, <2>2, <2>4, <3>1 DEF DebeJournal, DeMemorias
    <3> QED BY <1>5, <2>4, <3>2 DEF DebeBien
  <2>5. CASE hilo[h].op = "ADD"
    <3>1. p[1] = "SHC" /\ (ConQuienEsta(hilo[h], p) \/ PorVisitar(h, p))
      BY <1>6, <2>3, <2>5 DEF DebeBien, DebeAdd
    <3>2. DebeAdd(h, p)'
      BY <1>5, <1>6, <2>2, <2>5, <3>1 DEF DebeAdd, DeMemorias, Conserva
    <3> QED BY <1>5, <2>5, <3>2 DEF DebeBien
  <2> QED BY <1>6, <2>4, <2>5 DEF DebeBien
<1>7. CASE EliminarDeMemorias(h)
  <2>1. UNCHANGED <<memoriaSc, memoriasShc, memoriasEc, cursor, deben>>
        /\ hilo[h].pc = "eliminarDeMemorias" /\ q = "eliminarDeSC"
    BY <1>1, <1>5, <1>7
       DEF EliminarDeMemorias, historia, Pasa, Inv, HilosInv, EstadosDeHilo
  <2>2. \A g \in Todos : \A p : Conserva(g, p)
    BY <2>1 DEF Conserva, DelCriterio, PorVisitar, Precede
  <2>3. \A p : ConQuienEsta(hilo[h], p) => ConQuienEsta(hilo'[h], p)
    BY <1>5, <2>1 DEF ConQuienEsta, FaltaEliminar, Eliminando
  <2>4. \A p \in deben'[h] : DebeBien(h, p) => DebeBien(h, p)'
    BY <1>2, <1>6, <2>1, <2>2, <2>3
  <2> QED BY <1>2, <1>4, <2>1, <2>2, <2>4, DebenTrasUno
\* The others: what was owed to the memory for being in the criterion is not.
<1>8. ASSUME NEW c \in Consistencias, Salio(c, m),
             \A g \in Todos : \A p \in Consistencias \X Memorias :
               p # <<c, m>> => Conserva(g, p),
             \A p \in Consistencias \X Memorias :
               p # <<c, m>> /\ ConQuienEsta(hilo[h], p) => ConQuienEsta(hilo'[h], p)
      PROVE  DebenInv'
  <2>1. \A g \in Todos : deben'[g] = deben[g] \ {<<c, m>>}
    BY <1>8 DEF Salio
  <2>2. deben' \in [Todos -> SUBSET (Consistencias \X Memorias)]
    BY <1>2, <1>8 DEF Salio
  <2>3. \A g \in Todos : \A p \in deben'[g] :
          p \in Consistencias \X Memorias /\ p # <<c, m>>
    BY <1>2, <2>1
  <2>4. \A p \in deben'[h] : DebeBien(h, p) => DebeBien(h, p)'
    BY <1>6, <1>8, <2>3
  <2> QED BY <1>4, <1>8, <2>1, <2>2, <2>3, <2>4, DebenTrasUno
<1>9. CASE EliminarDeSC(h)
  <2>1. /\ memoriaSc' = IF memoriaSc = m THEN Nadie ELSE memoriaSc
        /\ UNCHANGED <<memoriasShc, memoriasEc, cursor>>
        /\ Salio("SC", m) /\ hilo[h].pc = "eliminarDeSC" /\ q = "eliminarDeSHC"
    BY <1>1, <1>5, <1>9 DEF EliminarDeSC, Pasa, Inv, HilosInv, EstadosDeHilo
  <2>2. ASSUME NEW g \in Todos, NEW p \in Consistencias \X Memorias, p # <<"SC", m>>
        PROVE  Conserva(g, p)
    <3>1. PorVisitar(g, p) => PorVisitar(g, p)'
      BY <2>1 DEF PorVisitar, Precede
    <3>2. p[1] # "SC" => DelCriterio(p[1])' = DelCriterio(p[1])
      BY <2>1 DEF DelCriterio, Consistencias
    <3>3. p[1] = "SC" => p[2] # m
      BY <2>2
    <3>4. p[1] = "SC" /\ p[2] \in DelCriterio(p[1]) => p[2] \in DelCriterio(p[1])'
      BY <2>1, <3>3 DEF DelCriterio
    <3> QED BY <3>1, <3>2, <3>4 DEF Conserva
  <2>3. ASSUME NEW p \in Consistencias \X Memorias, p # <<"SC", m>>,
               ConQuienEsta(hilo[h], p)
        PROVE  ConQuienEsta(hilo'[h], p)
    BY <1>5, <2>1, <2>3 DEF ConQuienEsta, FaltaEliminar, Eliminando, Consistencias
  <2> QED BY <1>8, <2>1, <2>2, <2>3 DEF Consistencias
<1>10. CASE EliminarDeSHC(h)
  <2>1. /\ memoriasShc' = RemoveFirst(memoriasShc, m)
        /\ UNCHANGED <<memoriaSc, memoriasEc>>
        /\ Salio("SHC", m) /\ hilo[h].pc = "eliminarDeSHC" /\ q = "eliminarDeEC"
        /\ \A g \in Todos : cursor'[g] = IF m # Nadie /\ cursor[g] = m THEN Liberada
                                         ELSE cursor[g]
    BY <1>1, <1>5, <1>10 DEF EliminarDeSHC, Pasa, Inv, HilosInv, EstadosDeHilo
  <2>2. /\ Range(memoriasShc') = Range(memoriasShc) \ {m}
        /\ \A x, y : Precede(memoriasShc, x, y) /\ x # m /\ y # m
                      => Precede(memoriasShc', x, y)
    BY <2>1, RemoveFirstSinRepetidos DEF Inv, DatosInv
  <2>3. ASSUME NEW g \in Todos, NEW p \in Consistencias \X Memorias, p # <<"SHC", m>>
        PROVE  Conserva(g, p)
    <3>1. p[1] = "SHC" => p[2] # m
      BY <2>3
    <3>2. PorVisitar(g, p) => PorVisitar(g, p)'
      BY <2>1, <2>2, <3>1, NadieAssumption, MemoriasAssumption DEF PorVisitar
    <3>3. p[1] # "SHC" => DelCriterio(p[1])' = DelCriterio(p[1])
      BY <2>1 DEF DelCriterio, Consistencias
    <3>4. p[1] = "SHC" /\ p[2] \in DelCriterio(p[1]) => p[2] \in DelCriterio(p[1])'
      BY <2>2, <3>1 DEF DelCriterio, ToSet, Range
    <3> QED BY <3>2, <3>3, <3>4 DEF Conserva
  <2>4. ASSUME NEW p \in Consistencias \X Memorias, p # <<"SHC", m>>,
               ConQuienEsta(hilo[h], p)
        PROVE  ConQuienEsta(hilo'[h], p)
    BY <1>5, <2>1, <2>4 DEF ConQuienEsta, FaltaEliminar, Eliminando, Consistencias
  <2> QED BY <1>8, <2>1, <2>3, <2>4 DEF Consistencias
<1>11. CASE EliminarDeEC(h)
  <2>1. /\ memoriasEc' = memoriasEc \ {m}
        /\ UNCHANGED <<memoriaSc, memoriasShc, cursor>>
        /\ Salio("EC", m) /\ hilo[h].pc = "eliminarDeEC"
    BY <1>11 DEF EliminarDeEC
  <2>2. ASSUME NEW g \in Todos, NEW p \in Consistencias \X Memorias, p # <<"EC", m>>
        PROVE  Conserva(g, p)
    <3>1. PorVisitar(g, p) => PorVisitar(g, p)'
      BY <2>1 DEF PorVisitar, Precede
    <3>2. p[1] # "EC" => DelCriterio(p[1])' = DelCriterio(p[1])
      BY <2>1 DEF DelCriterio, Consistencias
    <3>3. p[1] = "EC" => p[2] # m
      BY <2>2
    <3>4. p[1] = "EC" /\ p[2] \in DelCriterio(p[1]) => p[2] \in DelCriterio(p[1])'
      BY <2>1, <3>3 DEF DelCriterio
    <3> QED BY <3>1, <3>2, <3>4 DEF Conserva
  <2>3. ASSUME NEW p \in Consistencias \X Memorias, p # <<"EC", m>>
        PROVE  ~ConQuienEsta(hilo[h], p)
    BY <2>1, <2>3 DEF ConQuienEsta, FaltaEliminar, Eliminando
  <2> QED BY <1>8, <2>1, <2>2, <2>3 DEF Consistencias
<1> QED BY <1>7, <1>9, <1>10, <1>11 DEF Eliminar

\* The answer to a JOURNAL, or its absence.
LEMMA DebenAtender ==
  ASSUME Inv, DebenInv, NEW h \in Todos, Atender(h)
  PROVE  DebenInv'
<1> DEFINE r == hilo[h]
<1>1. r \in EstadosDeHilo /\ Sano(r)
  BY DatosDeHilo
<1>2. deben \in [Todos -> SUBSET (Consistencias \X Memorias)]
  BY DEF DebenInv
<1>3. PICK rta, filas : Responde(h, rta, filas)
  BY DEF Atender, AtenderDatos, AtenderCreate, AtenderDrop, AtenderDescribe,
         AtenderJournal, AtenderSinLFS, SinRespuesta
<1>4. UNCHANGED <<listas, cursor>> /\ r.pc = "enviado" /\ \E x : Pasa(h, x)
  BY <1>3 DEF Responde
<1>5. \A g \in Todos : \A p : Conserva(g, p)
  BY <1>4, TodoIgual
<1>6. CASE r.op \notin DeMemorias
  <2>1. deben[h] = {}
    BY <1>6, LosDemasNoDeben
  <2>2. deben' = deben
    BY <1>2, <2>1 DEF Atender, AtenderDatos, AtenderCreate, AtenderDrop, AtenderDescribe,
                      AtenderJournal, AtenderSinLFS, SinRespuesta
  <2> QED BY <1>2, <1>4, <1>5, <2>1, <2>2, DebenTrasUno
<1>7. CASE r.op \in DeMemorias
  <2>1. r.fase = "journal"
    BY <1>1, <1>4, <1>7 DEF Sano, DondeVa
  <2>2. r.op \notin DeDatos \cup {"CREATE", "DROP", "DESCRIBE"}
    BY <1>7 DEF DeMemorias, DeDatos
  <2>3. SinRespuesta(h) \/ \E x \in {"SUCCESS", "FAILURE"} : AtenderJournal(h, x)
    BY <2>1, <2>2 DEF Atender, AtenderDatos, AtenderCreate, AtenderDrop, AtenderDescribe,
                      AtenderSinLFS
  <2>4. PICK s : /\ Pasa(h, s)
                 /\ s.op = r.op /\ s.memoria = r.memoria /\ s.lista = r.lista
                 /\ \/ s.pc = "eliminarDeMemorias"
                    \/ s.pc = "siguiente" /\ r.abierta
    <3>1. ~Comun([r EXCEPT !.hechas = IF r.fase # "journal" /\ rta = "SUCCESS"
                                      THEN @ + 1 ELSE @])
      BY <1>1, <1>7 DEF Comun, DeMemorias, EstadosDeHilo
    <3> DEFINE u == [r EXCEPT !.hechas = IF r.fase # "journal" /\ rta = "SUCCESS"
                                         THEN @ + 1 ELSE @]
               llega == IF u.abierta THEN rta ELSE "COMPONENTE_CAIDO"
    <3>2. Pasa(h, JournalRecibido(u, llega))
      BY <1>3, <3>1 DEF Responde
    <3>3. /\ u.op = r.op /\ u.memoria = r.memoria /\ u.lista = r.lista
          /\ u.abierta = r.abierta /\ u \in EstadosDeHilo
      BY <1>1 DEF EstadosDeHilo
    <3> HIDE DEF u, llega
    <3>4. LET x == JournalRecibido(u, llega)
          IN  /\ x.op = u.op /\ x.memoria = u.memoria /\ x.lista = u.lista
              /\ \/ x.pc = "eliminarDeMemorias"
                 \/ x.pc = "siguiente" /\ llega # "COMPONENTE_CAIDO"
      BY <3>3 DEF JournalRecibido, AEliminar, EstadosDeHilo
    <3>5. llega # "COMPONENTE_CAIDO" => r.abierta
      BY <3>3 DEF llega
    <3> QED BY <3>2, <3>3, <3>4, <3>5
  <2>5. hilo'[h] = s
    BY <2>4 DEF Pasa, Inv, HilosInv
  <2>6. /\ \A g \in Todos : deben'[g] \subseteq deben[g]
        /\ deben' \in [Todos -> SUBSET (Consistencias \X Memorias)]
        /\ s.pc = "siguiente" => \A p \in deben'[h] : p[2] # r.memoria
    <3>1. CASE SinRespuesta(h)
      BY <1>2, <2>4, <3>1 DEF SinRespuesta
    <3>2. CASE \E x \in {"SUCCESS", "FAILURE"} : AtenderJournal(h, x)
      <4>1. deben' = [deben EXCEPT ![h] = {p \in @ : p[2] # hilo[h].memoria}]
        BY <3>2 DEF AtenderJournal
      <4> QED BY <1>2, <4>1
    <3> QED BY <2>3, <3>1, <3>2
  <2>7. ASSUME NEW p \in deben'[h], DebeBien(h, p) PROVE DebeBien(h, p)'
    <3>1. ConQuienEsta(r, p) <=> p[2] = r.memoria
      BY <1>4 DEF ConQuienEsta, Eliminando
    <3>2. p[1] \in Consistencias
      BY <2>6
    <3>3. p[2] = r.memoria => ConQuienEsta(s, p)
      BY <2>4, <2>6, <3>2 DEF ConQuienEsta, FaltaEliminar, Eliminando
    <3>4. PorVisitar(h, p) => PorVisitar(h, p)'
      BY <1>5 DEF Conserva
    <3>5. CASE r.op = "JOURNAL"
      <4>1. p[2] \in r.lista \/ ConQuienEsta(r, p)
        BY <1>4, <2>7, <3>5 DEF DebeBien, DebeJournal
      <4>2. p[2] \in s.lista \/ ConQuienEsta(s, p)
        BY <2>4, <3>1, <3>3, <4>1
      <4> QED BY <2>4, <2>5, <3>5, <4>2 DEF DebeBien, DebeJournal
    <3>6. CASE r.op = "ADD"
      <4>1. p[1] = "SHC" /\ (ConQuienEsta(r, p) \/ PorVisitar(h, p))
        BY <1>4, <2>7, <3>6 DEF DebeBien, DebeAdd
      <4>2. p[1] = "SHC" /\ (ConQuienEsta(s, p) \/ PorVisitar(h, p)')
        BY <3>1, <3>3, <3>4, <4>1
      <4>3. DebeAdd(h, p)'
        BY <2>4, <2>5, <4>2 DEF DebeAdd
      <4> QED BY <2>4, <2>5, <3>6, <4>3 DEF DebeBien
    <3> QED BY <1>7, <3>5, <3>6 DEF DeMemorias
  <2> QED BY <1>5, <2>4, <2>6, <2>7, DebenTrasUno
<1> QED BY <1>6, <1>7

\* list_iterate takes the element that follows before it visits one: all that
\* come after it are still to be visited.
LEMMA LoQueSigue ==
  ASSUME Inv, NEW m \in ToSet(memoriasShc), NEW y, Precede(memoriasShc, m, y), y # m
  PROVE  /\ DespuesDe(m) \in Memorias
         /\ Precede(memoriasShc, DespuesDe(m), y)
<1> DEFINE s == memoriasShc
           i == CHOOSE j \in DOMAIN s : s[j] = m
<1>1. s \in Seq(Memorias) /\ IsInjective(s)
  BY DEF Inv, DatosInv
<1>2. i \in DOMAIN s /\ s[i] = m
  BY DEF ToSet
<1>3. PICK a, b \in 1..Len(s) : a <= b /\ s[a] = m /\ s[b] = y
  BY DEF Precede
<1> HIDE DEF i
<1>4. a = i
  BY <1>1, <1>2, <1>3 DEF IsInjective
<1>5. i # b
  BY <1>2, <1>3
<1>6. i \in 1..Len(s) /\ i + 1 \in 1..Len(s) /\ i + 1 <= b /\ i # Len(s)
  BY <1>1, <1>3, <1>4, <1>5
<1>7. DespuesDe(m) = s[i + 1]
  BY <1>6 DEF DespuesDe, i
<1> QED BY <1>1, <1>3, <1>6, <1>7 DEF Precede

LEMMA DebenVisitar ==
  ASSUME Inv, DebenInv, NEW h \in Todos, hilo[h].op = "ADD",
         NEW m \in ToSet(memoriasShc) \cup {Nadie}, Visitar(h, m),
         \A p \in deben[h] : p[1] = "SHC" /\ m # Nadie /\ Precede(memoriasShc, m, p[2])
  PROVE  DebenInv'
<1> DEFINE r == hilo[h]
<1>1. r \in EstadosDeHilo
  BY DatosDeHilo
<1>2. deben' = deben /\ UNCHANGED listas
  BY DEF Visitar, historia
<1>3. deben \in [Todos -> SUBSET (Consistencias \X Memorias)]
  BY DEF DebenInv
<1>4. \A g \in Todos \ {h} : \A p : Conserva(g, p)
  <2>1. \A g \in Todos \ {h} : cursor'[g] = cursor[g]
    BY DEF Visitar, Inv, DatosInv
  <2> QED BY <1>2, <2>1 DEF listas, Conserva, DelCriterio, PorVisitar, Precede
<1>5. CASE m = Nadie
  <2>1. deben'[h] = {}
    BY <1>2, <1>5
  <2>2. Pasa(h, Fin(r, "SUCCESS"))
    BY <1>5 DEF Visitar
  <2> QED BY <1>2, <1>3, <1>4, <2>1, <2>2, DebenTrasUno
<1>6. CASE m # Nadie
  <2>1. Pasa(h, EnviarJournal(r, m)) /\ hilo'[h] = EnviarJournal(r, m)
        /\ cursor'[h] = DespuesDe(m)
    BY <1>6 DEF Visitar, Pasa, Inv, HilosInv, DatosInv
  <2>2. LET s == EnviarJournal(r, m)
        IN  s.op = r.op /\ s.memoria = m /\ s.pc \in {"enviado", "eliminarDeMemorias"}
    BY <1>1 DEF EnviarJournal, AEnviar, AEliminar, EstadosDeHilo
  <2>3. ASSUME NEW p \in deben'[h] PROVE DebeBien(h, p)'
    <3>1. p[1] = "SHC" /\ Precede(memoriasShc, m, p[2])
      BY <1>2, <2>3
    <3>2. CASE p[2] = m
      <4>1. ConQuienEsta(hilo'[h], p)
        BY <2>1, <2>2, <3>1, <3>2
           DEF ConQuienEsta, FaltaEliminar, Eliminando, Consistencias
      <4>2. DebeAdd(h, p)'
        BY <2>1, <2>2, <3>1, <4>1 DEF DebeAdd
      <4> QED BY <2>1, <2>2, <4>2 DEF DebeBien
    <3>3. CASE p[2] # m
      <4>1. DespuesDe(m) \in Memorias /\ Precede(memoriasShc, DespuesDe(m), p[2])
        BY <1>6, <3>1, <3>3, LoQueSigue
      <4>2. PorVisitar(h, p)'
        BY <1>2, <2>1, <3>1, <4>1, MemoriasAssumption DEF PorVisitar, listas
      <4>3. DebeAdd(h, p)'
        BY <2>1, <2>2, <3>1, <4>2 DEF DebeAdd
      <4> QED BY <2>1, <2>2, <4>3 DEF DebeBien
    <3> QED BY <3>2, <3>3
  <2> QED BY <1>2, <1>3, <1>4, <2>1, <2>3, DebenTrasUno
<1> QED BY <1>5, <1>6

LEMMA DebenJournal ==
  ASSUME Inv, DebenInv, NEW h \in Todos, Journal(h)
  PROVE  DebenInv'
<1> DEFINE r == hilo[h]
<1>1. r \in EstadosDeHilo /\ Sano(r)
  BY DatosDeHilo
<1>2. deben \in [Todos -> SUBSET (Consistencias \X Memorias)]
  BY DEF DebenInv
\* A thread that changes only where it is.
<1>3. ASSUME NEW s, SoloHilo(h, s), \A p \in deben[h] : DebeBien(h, p) => DebeBien(h, p)'
      PROVE  DebenInv'
  <2>1. deben' = deben /\ UNCHANGED <<listas, cursor>> /\ Pasa(h, s)
    BY <1>3 DEF SoloHilo, historia
  <2>2. \A g \in Todos : \A p : Conserva(g, p)
    BY <2>1, TodoIgual
  <2> QED BY <1>2, <1>3, <2>1, <2>2, DebenTrasUno
<1>4. CASE JuntarMemorias(h)
  <2> DEFINE junta == r.lista \cup DelCriterio(r.criterio)
             s == IF r.criterio = "EC"
                  THEN [r EXCEPT !.lista = junta, !.pc = "siguiente"]
                  ELSE [r EXCEPT !.lista = junta, !.criterio = Siguiente(@)]
  <2>1. r.pc = "juntar" /\ r.op # "ADD"
    BY <1>1, <1>4 DEF JuntarMemorias, Sano, DondeVa, Eliminando
  <2>2. SoloHilo(h, s)
    BY <1>4 DEF JuntarMemorias
  <2>3. /\ s.op = r.op /\ s.lista = junta
        /\ r.criterio = "EC" => s.pc = "siguiente"
        /\ r.criterio # "EC" => s.pc = "juntar" /\ s.criterio = Siguiente(r.criterio)
    BY <1>1, <2>1 DEF EstadosDeHilo
  <2> HIDE DEF s
  <2>4. hilo'[h] = s /\ \A c : DelCriterio(c)' = DelCriterio(c)
    BY <2>2 DEF SoloHilo, Pasa, Inv, HilosInv, listas, DelCriterio
  <2>5. ASSUME NEW p \in deben[h], DebeBien(h, p) PROVE DebeBien(h, p)'
    <3>1. r.op = "JOURNAL" /\ p[1] \in Consistencias /\ r.criterio \in Consistencias
      BY <1>1, <1>2, <2>1, <2>5 DEF DebeBien, EstadosDeHilo
    <3>2. \/ p[2] \in r.lista
          \/ p[2] \in DelCriterio(p[1]) /\ ~(Orden(p[1]) < Orden(r.criterio))
      BY <2>1, <2>5, <3>1 DEF DebeBien, DebeJournal
    <3>3. CASE r.criterio = "EC"
      <4>1. p[2] \in junta
        BY <3>1, <3>2, <3>3 DEF Consistencias, Orden
      <4> QED BY <2>3, <2>4, <3>1, <3>3, <4>1 DEF DebeBien, DebeJournal
    <3>4. CASE r.criterio # "EC"
      <4>1. IF Orden(p[1]) < Orden(Siguiente(r.criterio)) THEN p[2] \in junta
            ELSE p[2] \in DelCriterio(p[1])
        <5>1. Orden(p[1]) \in Nat /\ Orden(r.criterio) \in Nat
              /\ Orden(Siguiente(r.criterio)) = Orden(r.criterio) + 1
          BY <3>1, <3>4 DEF Consistencias, Orden, Siguiente
        <5>2. Orden(p[1]) = Orden(r.criterio) => p[1] = r.criterio
          BY <3>1 DEF Consistencias, Orden
        <5> HIDE DEF junta
        <5>3. p[2] \in r.lista \/ p[2] \in DelCriterio(r.criterio) => p[2] \in junta
          BY DEF junta
        <5>4. CASE Orden(p[1]) < Orden(Siguiente(r.criterio))
          BY <3>2, <5>1, <5>2, <5>3, <5>4
        <5>5. CASE ~(Orden(p[1]) < Orden(Siguiente(r.criterio)))
          BY <2>1, <2>5, <3>1, <5>1, <5>5 DEF DebeBien, DebeJournal
        <5> QED BY <5>4, <5>5
      <4> QED BY <2>3, <2>4, <3>1, <3>4, <4>1 DEF DebeBien, DebeJournal
    <3> QED BY <3>3, <3>4
  <2> QED BY <1>3, <2>2, <2>5
<1>5. CASE SiguienteJournal(h)
  <2> DEFINE m == CHOOSE x \in r.lista : TRUE
             u == [r EXCEPT !.lista = @ \ {m}]
             s == IF r.lista = {} THEN Fin(r, "SUCCESS") ELSE EnviarJournal(u, m)
  <2>1. r.pc = "siguiente" /\ r.op = "JOURNAL" /\ SoloHilo(h, s)
    BY <1>5 DEF SiguienteJournal
  <2>2. r.lista # {} =>
          s.op = r.op /\ s.memoria = m /\ s.lista = r.lista \ {m}
          /\ s.pc \in {"enviado", "eliminarDeMemorias"}
    BY <1>1 DEF EnviarJournal, AEnviar, AEliminar, EstadosDeHilo
  <2> HIDE DEF m, s
  <2>3. hilo'[h] = s
    BY <2>1 DEF SoloHilo, Pasa, Inv, HilosInv
  <2>4. ASSUME NEW p \in deben[h], DebeBien(h, p) PROVE DebeBien(h, p)'
    <3>1. p[2] \in r.lista /\ p[1] \in Consistencias
      BY <1>2, <2>1, <2>4 DEF DebeBien, DebeJournal, ConQuienEsta, Eliminando
    <3>2. p[2] \in s.lista \/ ConQuienEsta(s, p)
      BY <2>2, <3>1 DEF ConQuienEsta, FaltaEliminar, Eliminando
    <3> QED BY <2>1, <2>2, <2>3, <3>1, <3>2 DEF DebeBien, DebeJournal
  <2> QED BY <1>3, <2>1, <2>4
<1>6. CASE EnviarSinConexion(h)
  <2> DEFINE s == AEliminar(r, "siguiente")
  <2>1. r.pc = "enviarSinConexion" /\ SoloHilo(h, s)
    BY <1>6 DEF EnviarSinConexion
  <2>2. s.op = r.op /\ s.memoria = r.memoria /\ s.lista = r.lista
        /\ s.pc = "eliminarDeMemorias"
    BY <1>1 DEF AEliminar, EstadosDeHilo
  <2> HIDE DEF s
  <2>3. hilo'[h] = s /\ UNCHANGED <<listas, cursor>>
    BY <2>1 DEF SoloHilo, Pasa, Inv, HilosInv
  <2>4. ASSUME NEW p \in deben[h], DebeBien(h, p) PROVE DebeBien(h, p)'
    <3>1. ConQuienEsta(r, p) => ConQuienEsta(s, p)
      BY <1>2, <2>1, <2>2 DEF ConQuienEsta, FaltaEliminar, Eliminando
    <3>2. PorVisitar(h, p) => PorVisitar(h, p)'
      BY <2>3, TodoIgual DEF Conserva
    <3>3. CASE r.op = "JOURNAL"
      BY <2>1, <2>2, <2>3, <2>4, <3>1, <3>3 DEF DebeBien, DebeJournal
    <3>4. CASE r.op = "ADD"
      <4>1. p[1] = "SHC" /\ (ConQuienEsta(r, p) \/ PorVisitar(h, p))
        BY <2>1, <2>4, <3>4 DEF DebeBien, DebeAdd
      <4>2. DebeAdd(h, p)'
        BY <2>2, <2>3, <3>1, <3>2, <4>1 DEF DebeAdd
      <4> QED BY <2>2, <2>3, <3>4, <4>2 DEF DebeBien
    <3> QED BY <2>4, <3>3, <3>4 DEF DebeBien
  <2> QED BY <1>3, <2>1, <2>4
<1>7. CASE IterarSHC(h)
  <2> DEFINE m == IF memoriasShc = <<>> THEN Nadie ELSE Head(memoriasShc)
  <2>1. r.pc = "iterar" /\ r.op = "ADD" /\ Visitar(h, m)
    BY <1>1, <1>7 DEF IterarSHC, Sano, DondeVa, EstadosDeHilo, Ops, DeMemorias, DeDatos,
                      Eliminando
  <2>2. memoriasShc \in Seq(Memorias)
    BY DEF Inv, DatosInv
  <2>3. m \in ToSet(memoriasShc) \cup {Nadie}
    BY <2>2 DEF ToSet
  <2>4. ASSUME NEW p \in deben[h]
        PROVE  p[1] = "SHC" /\ m # Nadie /\ Precede(memoriasShc, m, p[2])
    <3>1. DebeBien(h, p)
      BY DEF DebenInv
    <3>2. p[1] = "SHC" /\ p[2] \in ToSet(memoriasShc)
      BY <2>1, <3>1 DEF DebeBien, DebeAdd
    <3>3. PICK j \in 1..Len(memoriasShc) : memoriasShc[j] = p[2]
      BY <2>2, <3>2 DEF ToSet
    <3>4. memoriasShc # <<>> /\ 1 \in 1..Len(memoriasShc) /\ 1 <= j
      BY <2>2, <3>3
    <3>5. m = memoriasShc[1] /\ memoriasShc[1] \in Memorias
      BY <2>2, <3>4
    <3> HIDE DEF m
    <3> QED BY <3>2, <3>3, <3>4, <3>5, MemoriasAssumption DEF Precede
  <2> QED BY <2>1, <2>3, <2>4, DebenVisitar
<1>8. CASE SiguienteSHC(h)
  <2>1. r.pc = "siguiente" /\ r.op = "ADD" /\ cursor[h] # Liberada /\ Visitar(h, cursor[h])
    BY <1>8 DEF SiguienteSHC
  <2>2. cursor[h] \in ToSet(memoriasShc) \cup {Nadie}
    BY <2>1 DEF Inv, DatosInv
  <2>3. ASSUME NEW p \in deben[h]
        PROVE  p[1] = "SHC" /\ cursor[h] # Nadie /\ Precede(memoriasShc, cursor[h], p[2])
    <3>1. DebeBien(h, p)
      BY DEF DebenInv
    <3>2. p[1] = "SHC" /\ PorVisitar(h, p)
      BY <2>1, <3>1 DEF DebeBien, DebeAdd, ConQuienEsta, Eliminando
    <3> QED BY <2>1, <3>2 DEF PorVisitar
  <2> QED BY <2>1, <2>2, <2>3, DebenVisitar
<1>9. CASE SiguienteLiberada(h)
  <2>1. UNCHANGED <<listas, hilo, cursor, deben>>
    BY <1>9 DEF SiguienteLiberada, historia
  <2>2. \A g \in Todos : \A p : Conserva(g, p)
    BY <2>1, TodoIgual
  <2> QED BY <1>2, <2>1, <2>2, DebeIgual DEF DebenInv
<1> QED BY <1>4, <1>5, <1>6, <1>7, <1>8, <1>9 DEF Journal

LEMMA DebenAdd ==
  ASSUME Inv, DebenInv, NEW h \in Todos, Add(h)
  PROVE  DebenInv'
<1> DEFINE m == hilo[h].memoria
<1>1. hilo[h] \in EstadosDeHilo /\ Sano(hilo[h])
  BY DatosDeHilo
<1>2. deben \in [Todos -> SUBSET (Consistencias \X Memorias)]
  BY DEF DebenInv
<1>3. hilo[h].pc \in {"add", "agregarMemoria"}
  BY DEF Add, BuscarMemoria, AgregarASC, AgregarASHC, AgregarAEC, YaEstaba
\* Nothing was owed yet.
<1>4. deben[h] = {}
  <2>1. hilo[h].op # "JOURNAL"
    BY <1>1, <1>3 DEF Sano, DondeVa, Eliminando
  <2> QED BY <1>3, <2>1 DEF DebenInv, DebeBien, DebeAdd
<1>5. m \in Memorias \/ hilo[h].pc = "add"
  BY <1>1, <1>3 DEF Sano, QueTiene
<1>6. CASE BuscarMemoria(h) \/ YaEstaba(h)
  <2>1. (\E r : Pasa(h, r)) /\ UNCHANGED <<listas, cursor, deben>>
    BY <1>6 DEF BuscarMemoria, YaEstaba, SoloHilo, historia
  <2>2. \A g \in Todos : \A p : Conserva(g, p)
    BY <2>1, TodoIgual
  <2> QED BY <1>2, <1>4, <2>1, <2>2, DebenTrasUno
<1>7. CASE AgregarASC(h)
  <2>1. /\ memoriaSc' = m /\ UNCHANGED <<memoriasShc, memoriasEc, cursor>>
        /\ deben' = [g \in Todos |-> {p \in deben[g] : p[1] = "SC" => p[2] = m}]
        /\ \E r : Pasa(h, r)
        /\ m \in Memorias
    BY <1>5, <1>7 DEF AgregarASC
  <2>2. ASSUME NEW g \in Todos, NEW p \in deben'[g] PROVE Conserva(g, p)
    <3>1. p \in deben[g] /\ p[1] \in Consistencias /\ (p[1] = "SC" => p[2] = m)
      BY <1>2, <2>1
    <3>2. PorVisitar(g, p) => PorVisitar(g, p)'
      BY <2>1 DEF PorVisitar, Precede
    <3>3. p[1] = "SC" => p[2] \in DelCriterio(p[1])'
      BY <2>1, <3>1, MemoriasAssumption DEF DelCriterio
    <3>4. p[1] # "SC" => DelCriterio(p[1])' = DelCriterio(p[1])
      BY <2>1, <3>1 DEF DelCriterio, Consistencias
    <3> QED BY <3>2, <3>3, <3>4 DEF Conserva
  <2>3. /\ \A g \in Todos : deben'[g] \subseteq deben[g]
        /\ deben' \in [Todos -> SUBSET (Consistencias \X Memorias)]
    BY <1>2, <2>1
  <2> QED BY <1>4, <2>1, <2>2, <2>3, DebenTrasUno
<1>8. CASE AgregarAEC(h)
  <2>1. /\ memoriasEc' = memoriasEc \cup {m}
        /\ UNCHANGED <<memoriaSc, memoriasShc, cursor, deben>>
        /\ \E r : Pasa(h, r)
    BY <1>8 DEF AgregarAEC
  <2>2. ASSUME NEW g \in Todos, NEW p \in deben'[g] PROVE Conserva(g, p)
    <3>1. p[1] \in Consistencias
      BY <1>2, <2>1
    <3>2. PorVisitar(g, p) => PorVisitar(g, p)'
      BY <2>1 DEF PorVisitar, Precede
    <3>3. DelCriterio(p[1]) \subseteq DelCriterio(p[1])'
      BY <2>1, <3>1 DEF DelCriterio, Consistencias
    <3> QED BY <3>2, <3>3 DEF Conserva
  <2> QED BY <1>2, <1>4, <2>1, <2>2, DebenTrasUno
<1>9. CASE AgregarASHC(h)
  <2>1. /\ memoriasShc' = Append(memoriasShc, m)
        /\ UNCHANGED <<memoriaSc, memoriasEc, cursor>>
        /\ deben' = [deben EXCEPT ![h] = {<<"SHC", x>> : x \in ToSet(memoriasShc')}]
        /\ Pasa(h, [hilo[h] EXCEPT !.pc = "iterar"])
        /\ m \in Memorias /\ hilo[h].pc = "agregarMemoria"
    BY <1>5, <1>9 DEF AgregarASHC
  <2>2. memoriasShc \in Seq(Memorias)
    BY DEF Inv, DatosInv
  <2>3. Range(memoriasShc') = Range(memoriasShc) \cup {m}
        /\ memoriasShc' \in Seq(Memorias)
    BY <2>1, <2>2, RangoDeAppend
  <2>4. \A x, y : Precede(memoriasShc, x, y) => Precede(memoriasShc', x, y)
    <3>1. /\ Len(memoriasShc) \in Nat /\ Len(memoriasShc') = Len(memoriasShc) + 1
          /\ \A i \in 1..Len(memoriasShc) : memoriasShc'[i] = memoriasShc[i]
      BY <2>1, <2>2
    <3>2. 1..Len(memoriasShc) \subseteq 1..Len(memoriasShc')
      BY <3>1
    <3> QED BY <3>1, <3>2 DEF Precede
  <2>5. hilo[h].op = "ADD"
    BY <1>1, <2>1
       DEF Sano, DondeVa, EstadosDeHilo, Ops, DeMemorias, DeDatos, Eliminando
  <2>6. hilo'[h].op = "ADD" /\ hilo'[h].pc = "iterar"
    BY <1>1, <2>1, <2>5 DEF Pasa, Inv, HilosInv, EstadosDeHilo
  <2>7. deben' \in [Todos -> SUBSET (Consistencias \X Memorias)]
    <3>1. {<<"SHC", x>> : x \in ToSet(memoriasShc')} \subseteq Consistencias \X Memorias
      BY <2>3 DEF ToSet, Consistencias
    <3> QED BY <1>2, <2>1, <3>1
  <2> SUFFICES ASSUME NEW g \in Todos, NEW p \in deben'[g] PROVE DebeBien(g, p)'
    BY <2>7 DEF DebenInv
  <2>8. CASE g = h
    <3>1. PICK x \in ToSet(memoriasShc') : p = <<"SHC", x>>
      BY <1>2, <2>1, <2>8
    <3>2. DebeAdd(g, p)'
      BY <2>6, <2>8, <3>1 DEF DebeAdd
    <3> QED BY <2>6, <2>8, <3>2 DEF DebeBien
  <2>9. CASE g # h
    <3>1. p \in deben[g] /\ hilo'[g] = hilo[g] /\ p \in Consistencias \X Memorias
      BY <1>2, <2>1, <2>9 DEF Pasa, Inv, HilosInv
    <3>2. PorVisitar(g, p) => PorVisitar(g, p)'
      BY <2>1, <2>4 DEF PorVisitar
    <3>3. DelCriterio(p[1]) \subseteq DelCriterio(p[1])'
      BY <2>1, <2>3, <3>1 DEF DelCriterio, Consistencias, ToSet, Range
    <3>4. Conserva(g, p)
      BY <3>2, <3>3 DEF Conserva
    <3> QED BY <3>1, <3>4, DebeIgual DEF DebenInv
  <2> QED BY <2>8, <2>9
<1> QED BY <1>6, <1>7, <1>8, <1>9 DEF Add

LEMMA DebenPedir ==
  ASSUME Inv, DebenInv, NEW h \in Hilos, NEW p \in Requests, Pedir(h, p)
  PROVE  DebenInv'
<1> DEFINE r == [Libre EXCEPT !.op = p.op, !.tabla = p.tabla, !.clave = p.clave,
                              !.criterio = p.criterio, !.memoria = p.memoria]
<1>1. h \in Todos /\ UNCHANGED <<listas, cursor>> /\ hilo[h].pc = "libre"
      /\ deben' = [deben EXCEPT ![h] = Debe(p.op)]
  BY DEF Pedir, Todos
<1>2. deben \in [Todos -> SUBSET (Consistencias \X Memorias)]
  BY DEF DebenInv
<1>3. \A g \in Todos : \A q : Conserva(g, q)
  BY <1>1, TodoIgual
<1>4. deben[h] = {}
  <2>1. hilo[h].op \notin DeMemorias
    BY <1>1, DatosDeHilo DEF Sano, DondeVa, DeMemorias, Eliminando
  <2> QED BY <1>1, <2>1, LosDemasNoDeben
<1>5. PICK s : Pasa(h, s) /\ s \in Empezado(r)
  BY DEF Pedir
<1>6. CASE p.op = "JOURNAL"
  <2>1. p.criterio = "SC"
    BY <1>6, RequestsAssumption DEF DeDatos
  <2>3. s.op = "JOURNAL" /\ s.criterio = "SC" /\ s.pc = "juntar"
    BY <1>5, <1>6, <2>1 DEF Empezado, Libre, DeDatos
  <2>4. hilo'[h] = s /\ \A c : DelCriterio(c)' = DelCriterio(c)
    BY <1>1, <1>5 DEF Pasa, Inv, HilosInv, listas, DelCriterio
  <2>5. \A q \in Debe(p.op) : q[1] \in Consistencias /\ q[2] \in DelCriterio(q[1])
    BY DEF Debe
  <2>6. Debe(p.op) \subseteq Consistencias \X Memorias
    BY MemoriasDeCriterio DEF Debe
  <2>7. deben' \in [Todos -> SUBSET (Consistencias \X Memorias)]
    BY <1>1, <1>2, <2>6
  <2>8. ASSUME NEW q \in Debe(p.op) PROVE DebeBien(h, q)'
    <3>1. ~(Orden(q[1]) < Orden("SC"))
      BY <2>5 DEF Orden, Consistencias
    <3> QED BY <2>3, <2>4, <2>5, <3>1 DEF DebeBien, DebeJournal
  <2> SUFFICES ASSUME NEW g \in Todos, NEW q \in deben'[g] PROVE DebeBien(g, q)'
    BY <2>7 DEF DebenInv
  <2>9. CASE g = h
    BY <1>1, <1>2, <2>8, <2>9
  <2>10. CASE g # h
    <3>1. q \in deben[g] /\ hilo'[g] = hilo[g] /\ q \in Consistencias \X Memorias
      BY <1>1, <1>2, <1>5, <2>10 DEF Pasa, Inv, HilosInv
    <3> QED BY <1>3, <3>1, DebeIgual DEF DebenInv
  <2> QED BY <2>9, <2>10
<1>7. CASE p.op # "JOURNAL"
  <2>1. deben' = deben
    BY <1>1, <1>2, <1>4, <1>7 DEF Debe
  <2> QED BY <1>1, <1>2, <1>3, <1>4, <1>5, <2>1, DebenTrasUno
<1> QED BY <1>6, <1>7

LEMMA DebenNext ==
  ASSUME Inv, DebenInv, [Next]_vars
  PROVE  DebenInv'
<1>1. ASSUME NEW h \in Todos, hilo[h].pc \notin {"juntar", "siguiente", "enviado", "add",
                "enviarSinConexion", "agregarMemoria", "iterar"} \cup Eliminando
      PROVE  hilo[h].op \notin DeMemorias
  BY <1>1, DatosDeHilo DEF Sano, DondeVa, DeMemorias
<1>2. ASSUME NEW h \in Todos, NEW r, SoloHilo(h, r), hilo[h].op \notin DeMemorias
      PROVE  DebenInv'
  BY <1>2, DebenComun DEF SoloHilo, historia
<1>3. ASSUME NEW h \in Todos, Avanzar(h) PROVE DebenInv'
  <2>1. CASE BuscarTabla(h) \/ ElegirMemoria(h) \/ ReintentarConexion(h) \/ Handshake(h)
             \/ SinEjecutar(h) \/ Terminar(h)
    <3>1. /\ hilo[h].pc \in {"buscarTabla", "elegir", "reintentar", "handshake",
                             "sinEjecutar", "fin"}
          /\ \E r : SoloHilo(h, r)
      BY <2>1 DEF BuscarTabla, ElegirMemoria, ReintentarConexion, Handshake, SinEjecutar,
                  Terminar
    <3>2. hilo[h].op \notin DeMemorias
      BY <1>1, <3>1 DEF Eliminando
    <3> QED BY <1>2, <3>1, <3>2
  <2>2. CASE ActualizarTablas(h)
    <3>1. hilo[h].pc \in Actualizando /\ \E r : SoloTablas(h, r)
      BY <2>2 DEF ActualizarTablas, LimpiarTablas, BuscarParaAgregar, AgregarTabla, Actualizando
    <3>2. hilo[h].op \notin DeMemorias
      BY <1>1, <3>1 DEF Eliminando, Actualizando
    <3> QED BY <3>1, <3>2, DebenComun DEF SoloTablas, historia
  <2> QED BY <1>3, <2>1, <2>2, DebenEliminar, DebenAtender, DebenJournal, DebenAdd
          DEF Avanzar
<1>4. CASE DescribeAutomatico
  <2>1. HiloDescribe \in Todos /\ hilo[HiloDescribe].pc = "libre"
        /\ \E r : SoloHilo(HiloDescribe, r)
    BY <1>4 DEF DescribeAutomatico, Todos
  <2>2. hilo[HiloDescribe].op \notin DeMemorias
    BY <1>1, <2>1 DEF Eliminando
  <2> QED BY <1>2, <2>1, <2>2
<1>5. CASE Gossiping
  <2>1. HiloGossip \in Todos /\ hilo[HiloGossip].pc \in DeGossip
    BY <1>5 DEF Gossiping, RecibirGossip, GossipSinRespuesta, AgregarConocida, RecordarPpal,
                ElegirProxima, Gossip, DeGossip, Todos
  <2>2. \E r : Pasa(HiloGossip, r)
    BY <1>5 DEF Gossiping, RecibirGossip, GossipSinRespuesta, AgregarConocida, RecordarPpal,
                ElegirProxima, Gossip, SoloHilo
  <2>3. UNCHANGED <<memoriaSc, memoriasShc, memoriasEc, cursor, deben>>
    BY <1>5 DEF Gossiping, RecibirGossip, GossipSinRespuesta, AgregarConocida, RecordarPpal,
                ElegirProxima, SoloHilo, listas, historia
  <2>4. hilo[HiloGossip].op \notin DeMemorias
    BY <1>1, <2>1 DEF Eliminando, DeGossip
  <2>5. \A g \in Todos : \A p : Conserva(g, p)
    BY <2>3 DEF Conserva, DelCriterio, PorVisitar, Precede
  <2>6. deben[HiloGossip] = {} /\ deben \in [Todos -> SUBSET (Consistencias \X Memorias)]
    BY <2>1, <2>4, LosDemasNoDeben DEF DebenInv
  <2> QED BY <2>1, <2>2, <2>3, <2>5, <2>6, DebenTrasUno
<1>6. ASSUME UNCHANGED <<listas, cursor, deben>>,
             \A h \in Todos :
               /\ hilo'[h].op = hilo[h].op /\ hilo'[h].pc = hilo[h].pc
               /\ hilo'[h].criterio = hilo[h].criterio /\ hilo'[h].lista = hilo[h].lista
               /\ hilo'[h].memoria = hilo[h].memoria
      PROVE  DebenInv'
  <2>1. \A g \in Todos : \A p : Conserva(g, p)
    BY <1>6, TodoIgual
  <2>2. \A g \in Todos : deben[g] \subseteq Consistencias \X Memorias
    BY DEF DebenInv
  <2> QED BY <1>6, <2>1, <2>2, DebeIgual DEF DebenInv
<1>7. ASSUME NEW m \in Memorias, Caer(m) PROVE DebenInv'
  <2>1. \A h \in Todos :
          /\ hilo'[h].op = hilo[h].op /\ hilo'[h].pc = hilo[h].pc
          /\ hilo'[h].criterio = hilo[h].criterio /\ hilo'[h].lista = hilo[h].lista
          /\ hilo'[h].memoria = hilo[h].memoria
    BY <1>7, DatosDeHilo DEF Caer, EstadosDeHilo
  <2> QED BY <1>6, <1>7, <2>1 DEF Caer, historia
<1>8. ASSUME NEW m \in Memorias, Levantar(m) PROVE DebenInv'
  BY <1>6, <1>8 DEF Levantar, historia
<1>9. CASE UNCHANGED vars
  BY <1>6, <1>9 DEF vars, historia
<1> QED BY <1>3, <1>4, <1>5, <1>7, <1>8, <1>9, DebenPedir DEF Next

\* When a JOURNAL, or an ADD to SHC, ends, every memory that was in its criteria
\* from beginning to end has received one: although procesarJournal reads the
\* lists one by one, or gives back the mutex of the one it is iterating while
\* eliminarMemoria and other ADDs change it (or it is not alive to say so).
THEOREM ElJournalLlegaATodas == Spec => []JournalATodas
<1>1. Init => DebenInv
  BY DebenInit
<1>2. Inv /\ DebenInv /\ [Next]_vars => DebenInv'
  BY DebenNext
<1>3. Inv /\ DebenInv => JournalATodas
  <2> SUFFICES ASSUME Inv, DebenInv, NEW h \in Todos, hilo[h].pc = "fin"
               PROVE  deben[h] = {}
    BY DEF JournalATodas
  <2>1. hilo[h].op \notin DeMemorias
    BY DatosDeHilo DEF Sano, DondeVa, DeMemorias, Eliminando
  <2> QED BY <2>1, LosDemasNoDeben
<1> QED BY <1>1, <1>2, <1>3, InvSiempre, PTL DEF Spec

=============================================================================
