--------------------------- MODULE Memoria_proofs ---------------------------
(***************************************************************************)
(* Proofs about Memoria, for any tables, keys, frames, threads and         *)
(* requests: every variable keeps its type, a journal is served alone, and *)
(* it clears nothing that the file system does not have; with one client,  *)
(* frames and keys are exact, MEMORIA_FULL is only answered when it is,    *)
(* and, if nothing takes values away, reads are right and none is lost.    *)
(***************************************************************************)
EXTENDS Memoria, Secuencias_lemas

------------------------------------------------------------------------------
(* Fresh numbers.                                                          *)

\* Among one number more than there are taken, one is free: the least is.
LEMMA MinimoLibre ==
  ASSUME NEW T, IsFiniteSet(T), NEW n \in Nat, Cardinality(T) <= n
  PROVE  /\ Min(1..(n + 1) \ T) \in Nat \ {0}
         /\ Min(1..(n + 1) \ T) \notin T
<1> DEFINE I == 1..(n + 1)
           L == I \ T
<1>1. IsFiniteSet(I) /\ Cardinality(I) = n + 1
  <2>1. 1 \in Int /\ n + 1 \in Int /\ ~(1 > n + 1) /\ n + 1 - 1 + 1 = n + 1
    OBVIOUS
  <2> QED BY <2>1, FS_Interval
<1>2. L # {}
  <2> SUFFICES ASSUME L = {} PROVE FALSE
    OBVIOUS
  <2>1. I \in SUBSET T
    OBVIOUS
  <2>2. Cardinality(I) <= Cardinality(T)
    BY <2>1, FS_Subset
  <2>3. Cardinality(T) \in Nat
    BY FS_CardinalityType
  <2> QED BY <1>1, <2>2, <2>3
<1>3. L \subseteq Nat
  OBVIOUS
<1>4. Min(L) \in L
  BY <1>2, <1>3, HayMinimo
<1> QED BY <1>4

\* Up to six things make a finite set.
LEMMA ConjuntoFinito ==
  ASSUME NEW a, NEW b, NEW c, NEW d, NEW e, NEW f
  PROVE  IsFiniteSet({a, b, c, d, e, f})
<1>1. IsFiniteSet({a})
  BY FS_Singleton
<1>2. IsFiniteSet({a} \cup {b})
  BY <1>1, FS_AddElement
<1>3. IsFiniteSet({a} \cup {b} \cup {c})
  BY <1>2, FS_AddElement
<1>4. IsFiniteSet({a} \cup {b} \cup {c} \cup {d})
  BY <1>3, FS_AddElement
<1>5. IsFiniteSet({a} \cup {b} \cup {c} \cup {d} \cup {e})
  BY <1>4, FS_AddElement
<1>6. IsFiniteSet({a} \cup {b} \cup {c} \cup {d} \cup {e} \cup {f})
  BY <1>5, FS_AddElement
<1>7. {a} \cup {b} \cup {c} \cup {d} \cup {e} \cup {f} = {a, b, c, d, e, f}
  OBVIOUS
<1> QED BY <1>6, <1>7

\* The values of a function on a finite set are finitely many, and no more.
LEMMA ImagenFinita ==
  ASSUME NEW S, IsFiniteSet(S), NEW f, DOMAIN f = S
  PROVE  /\ IsFiniteSet({f[x] : x \in S})
         /\ Cardinality({f[x] : x \in S}) <= Cardinality(S)
<1> DEFINE T == {f[x] : x \in S}
           g == [x \in S |-> f[x]]
<1>1. g \in Surjection(S, T)
  BY DEF Surjection
<1> HIDE DEF g, T
<1>2. IsFiniteSet(T) /\ Cardinality(T) <= Cardinality(S)
  BY <1>1, FS_Surjection
<1> QED BY <1>2 DEF T

LEMMA IdDePaginaLibre ==
  ASSUME PaginasInv, NEW s, NEW e, NEW modificado
  PROVE  Pagina(s, e, modificado).id \in Nat \ {0}
<1> DEFINE T == {p.id : p \in paginas}
           f == [p \in paginas |-> p.id]
<1>1. IsFiniteSet({f[p] : p \in paginas}) /\ Cardinality({f[p] : p \in paginas}) <= Cardinality(paginas)
  <2>1. DOMAIN f = paginas
    OBVIOUS
  <2> HIDE DEF f
  <2> QED BY <2>1, ImagenFinita DEF PaginasInv
<1>2. {f[p] : p \in paginas} = T
  OBVIOUS
<1>3. Cardinality(paginas) \in Nat
  BY FS_CardinalityType DEF PaginasInv
<1> HIDE DEF T, f
<1>4. Min(1..(Cardinality(paginas) + 1) \ T) \in Nat \ {0}
  BY <1>1, <1>2, <1>3, MinimoLibre
<1> QED BY <1>4 DEF Pagina, T

\* A new segment has an address that nobody holds.
LEMMA SegmentoNuevo ==
  ASSUME TypeOK
  PROVE  IdLibre \in Nat \ {0} /\ IdLibre \notin EnUso
<1> DEFINE n == Len(segmentos)
           f == [i \in 1..n |-> segmentos[i].id]
           D == {est["kernel"].seg, est["consola"].seg, est["journal"].seg,
                 est["kernel"].victima, est["consola"].victima, est["journal"].victima}
           U == UNION {{est[h].seg, est[h].victima} : h \in Hilos}
<1>1. n \in Nat /\ DOMAIN segmentos = 1..n
  BY DEF TypeOK
<1>2. IsFiniteSet(EnUso)
  <2>1. IsFiniteSet(1..n)
    <3>1. 1 \in Int /\ n \in Int
      BY <1>1
    <3> QED BY <3>1, FS_Interval
  <2>2. DOMAIN f = 1..n
    OBVIOUS
  <2>3. {f[i] : i \in 1..n} = EnUso
    BY <1>1 DEF EnUso
  <2> HIDE DEF f
  <2> QED BY <2>1, <2>2, <2>3, ImagenFinita
<1>3. IsFiniteSet(U)
  <2>1. IsFiniteSet(D)
    BY ConjuntoFinito
  <2>2. U \in SUBSET D
    BY HilosAssumption
  <2> QED BY <2>1, <2>2, FS_Subset
<1> HIDE DEF U
<1>4. IsFiniteSet(EnUso \cup U)
  BY <1>2, <1>3, FS_Union
<1>5. Cardinality(EnUso \cup U) \in Nat
  BY <1>4, FS_CardinalityType
<1>6. IdLibre = Min(1..(Cardinality(EnUso \cup U) + 1) \ (EnUso \cup U))
  BY DEF IdLibre, U
<1>7. IdLibre \in Nat \ {0} /\ IdLibre \notin (EnUso \cup U)
  <2> DEFINE T == EnUso \cup U
  <2>1. Cardinality(T) <= Cardinality(T)
    BY <1>5
  <2>2. IsFiniteSet(T) /\ Cardinality(T) \in Nat /\ IdLibre = Min(1..(Cardinality(T) + 1) \ T)
    BY <1>4, <1>5, <1>6
  <2> HIDE DEF T
  <2>3. IdLibre \in Nat \ {0} /\ IdLibre \notin T
    BY <2>1, <2>2, MinimoLibre
  <2> QED BY <2>3 DEF T
<1> QED BY <1>7

LEMMA ConexionNueva ==
  ASSUME TypeOK, PaginasInv
  PROVE  FdLibre \in Nat \ {0}
<1> DEFINE D == {conexion, est["kernel"].fd, est["consola"].fd, est["journal"].fd,
                 conexion, conexion}
           T == {conexion} \cup rotas \cup {est[h].fd : h \in Hilos}
<1>1. IsFiniteSet(D \cup rotas)
  BY ConjuntoFinito, FS_Union DEF PaginasInv
<1>2. T \in SUBSET (D \cup rotas)
  BY HilosAssumption
<1>3. IsFiniteSet(T)
  BY <1>1, <1>2, FS_Subset
<1>4. Cardinality(T) \in Nat
  BY <1>3, FS_CardinalityType
<1>5. FdLibre = Min(1..(Cardinality(T) + 1) \ T)
  BY DEF FdLibre
<1> HIDE DEF T
<1>6. Cardinality(T) <= Cardinality(T)
  BY <1>4
<1> QED BY <1>3, <1>4, <1>5, <1>6, MinimoLibre

------------------------------------------------------------------------------
(* The parts of the types, one per group of variables.                     *)

CacheTipada ==
  /\ segmentos \in Seq(TipoDeSegmento)
  /\ paginas \subseteq TipoDePagina /\ IsFiniteSet(paginas)
  /\ marcos \in [Marcos -> [key : Claves, valor : Valores, timestamp : Horas]]
  /\ bits \subseteq Marcos
  /\ \A p \in paginas : p.seg \in EnUso

\* A thread takes three mutexes for a JOURNAL, and its own for the rest.
EstadoTipado(e) ==
  e \in EstadosDeHilo /\ (e.op # "JOURNAL" => e.i = 1)

HilosTipados ==
  /\ est \in [Hilos -> EstadosDeHilo]
  /\ \A h \in Hilos : EstadoTipado(est[h])

MutexTipado == mutex \in [{"kernel", "consola", "journal"} -> Hilos \cup {NADIE}]

FSTipado ==
  /\ conexion \in Nat \cup {COMPONENTE_CAIDO}
  /\ rotas \subseteq Nat /\ IsFiniteSet(rotas)
  /\ deLFS \in Seq(Respuestas) /\ enLFS \in [Tablas -> DatosDeTabla] /\ lfs \in BOOLEAN

RestoTipado ==
  /\ hora \in Nat /\ vivo \in BOOLEAN
  /\ pedidos \in 0..MaxPedidos /\ caidas \in 0..MaxCaidas
  /\ vigente \in [Tablas -> [Claves -> Valores]] /\ pisada \in BOOLEAN

Tipos == CacheTipada /\ HilosTipados /\ MutexTipado /\ FSTipado /\ RestoTipado

\* MutexDe(h) has three mutexes for a JOURNAL and one for the rest.
LEMMA CuantosMutex ==
  ASSUME NEW h
  PROVE  Len(MutexDe(h)) = IF est[h].op = "JOURNAL" THEN 3 ELSE 1
BY DEF MutexDe

LEMMA TiposEsTypeOK == Tipos <=> TypeOK /\ PaginasInv
<1>1. HilosTipados <=> /\ est \in [Hilos -> EstadosDeHilo]
                       /\ \A h \in Hilos : est[h].i \in 1..Len(MutexDe(h))
  <2> SUFFICES ASSUME est \in [Hilos -> EstadosDeHilo]
               PROVE  \A h \in Hilos : est[h].i \in 1..Len(MutexDe(h))
                                      <=> EstadoTipado(est[h])
    BY DEF HilosTipados
  <2> TAKE h \in Hilos
  <2>1. Len(MutexDe(h)) = IF est[h].op = "JOURNAL" THEN 3 ELSE 1
    BY CuantosMutex
  <2>2. est[h] \in EstadosDeHilo /\ est[h].i \in 1..3
    BY DEF EstadosDeHilo
  <2> QED BY <2>1, <2>2 DEF EstadoTipado
<1> QED
  BY <1>1 DEF Tipos, TypeOK, PaginasInv, CacheTipada, MutexTipado, FSTipado, RestoTipado

\* What does not change keeps its type.
LEMMA CacheIgual == CacheTipada /\ UNCHANGED cache => CacheTipada'
BY DEF CacheTipada, cache, EnUso

LEMMA HayLibres ==
  ASSUME CacheTipada
  PROVE  Marcos \ bits # {} <=> bits # Marcos
<1>1. bits \subseteq Marcos
  BY DEF CacheTipada
<1> QED BY <1>1, Zenon

LEMMA HilosIgual == HilosTipados /\ UNCHANGED est => HilosTipados'
BY DEF HilosTipados

LEMMA MutexIgual == MutexTipado /\ UNCHANGED mutex => MutexTipado'
BY DEF MutexTipado

LEMMA FSIgual == FSTipado /\ UNCHANGED fs => FSTipado'
BY DEF FSTipado, fs

LEMMA RestoIgual ==
  /\ RestoTipado /\ UNCHANGED <<hora, vivo, historia>> => RestoTipado'
  /\ RestoTipado /\ UNCHANGED <<hora, historia>> /\ vivo' \in BOOLEAN => RestoTipado'
BY DEF RestoTipado, historia

LEMMA ElOcioso == EstadoTipado(Ocioso)
<1>1. UnaTabla \in Tablas /\ UnaClave \in Claves
  BY DatosAssumption DEF UnaTabla, UnaClave
<1>2. 0 \in Marcos
  BY MarcosAssumption DEF Marcos
<1> QED BY <1>1, <1>2
  DEF EstadoTipado, EstadosDeHilo, Ocioso, Pcs, Operacion, Valores, Horas, Codigos, SIN_VALOR

\* A request keeps the types of what it is made of.
LEMMA PedidoTipado ==
  ASSUME NEW e, EstadoTipado(e), e.i = 1, NEW op \in Operacion, NEW t \in Tablas,
         NEW k \in Claves, NEW ec \in BOOLEAN, NEW v \in Valores
  PROVE  EstadoTipado([e EXCEPT !.op = op, !.tabla = t, !.key = k, !.ec = ec, !.valor = v])
<1> DEFINE f == [e EXCEPT !.op = op, !.tabla = t, !.key = k, !.ec = ec, !.valor = v]
<1>1. f \in EstadosDeHilo
  BY DEF EstadoTipado, EstadosDeHilo
<1>2. f.i = 1
  BY DEF EstadoTipado, EstadosDeHilo
<1> HIDE DEF f
<1>3. EstadoTipado(f)
  BY <1>1, <1>2 DEF EstadoTipado
<1> QED BY <1>3 DEF f

LEMMA SiguienteTipado ==
  ASSUME NEW e, EstadoTipado(e), e.i # (IF e.op = "JOURNAL" THEN 3 ELSE 1)
  PROVE  EstadoTipado([e EXCEPT !.i = @ + 1])
<1> DEFINE f == [e EXCEPT !.i = @ + 1]
<1>1. e.op = "JOURNAL" /\ e.i \in 1..3 /\ e.i # 3
  BY DEF EstadoTipado, EstadosDeHilo
<1>2. e.i + 1 \in 1..3
  BY <1>1
<1>3. f \in EstadosDeHilo /\ f.op = e.op
  BY <1>2 DEF EstadoTipado, EstadosDeHilo
<1> HIDE DEF f
<1>4. EstadoTipado(f)
  BY <1>1, <1>3 DEF EstadoTipado
<1> QED BY <1>4 DEF f

\* A thread goes on with a well-formed state; the others stay as they are.
LEMMA SigueTipado ==
  ASSUME HilosTipados, NEW h \in Hilos, NEW pc \in Pcs, NEW e, EstadoTipado(e),
         Sigue(h, pc, e)
  PROVE  /\ HilosTipados'
         /\ est'[h] = [e EXCEPT !.pc = pc]
         /\ \A x \in Hilos \ {h} : est'[x] = est[x]
<1>1. EstadoTipado([e EXCEPT !.pc = pc])
  BY DEF EstadoTipado, EstadosDeHilo
<1>2. est' = [est EXCEPT ![h] = [e EXCEPT !.pc = pc]]
  BY DEF Sigue
<1> QED BY <1>1, <1>2 DEF HilosTipados, EstadoTipado

LEMMA RespondeTipado ==
  ASSUME HilosTipados, NEW h \in Hilos, NEW cod \in Codigos, NEW e, EstadoTipado(e),
         Responde(h, cod, e)
  PROVE  HilosTipados'
<1>1. EstadoTipado([e EXCEPT !.cod = cod])
  BY DEF EstadoTipado, EstadosDeHilo
<1>2. "responde" \in Pcs
  BY DEF Pcs
<1>3. Sigue(h, "responde", [e EXCEPT !.cod = cod])
  BY DEF Responde
<1> QED BY <1>1, <1>2, <1>3, SigueTipado

------------------------------------------------------------------------------
(* Typing: initially, and of the requests and their mutexes.               *)

LEMMA InitTipos == Init => Tipos
<1> SUFFICES ASSUME Init PROVE Tipos
  OBVIOUS
<1> USE DEF Init, CacheVacia, NadieSirve
<1>1. CacheTipada
  <2>1. UnaClave \in Claves
    BY DatosAssumption DEF UnaClave
  <2>2. IsFiniteSet({})
    BY FS_EmptySet
  <2> QED BY <2>1, <2>2 DEF CacheTipada, Valores, Horas, SIN_VALOR
<1>2. HilosTipados
  BY ElOcioso DEF HilosTipados, EstadoTipado
<1>3. MutexTipado
  BY DEF MutexTipado
<1>4. FSTipado
  <2>1. \A t \in Tablas : InicioDeLFS(t) \in DatosDeTabla
    BY DEF InicioDeLFS, DatosDeTabla, Vacia, Inexistente, Valores, Horas, SIN_VALOR
  <2>2. IsFiniteSet({})
    BY FS_EmptySet
  <2> QED BY <2>1, <2>2 DEF FSTipado
<1>5. RestoTipado
  <2>1. \A t \in Tablas : InicioDeLFS(t) \in DatosDeTabla
    BY DEF InicioDeLFS, DatosDeTabla, Vacia, Inexistente, Valores, Horas, SIN_VALOR
  <2>2. \A t \in Tablas, k \in Claves : enLFS[t].datos[k].valor \in Valores
    BY <2>1 DEF DatosDeTabla
  <2>3. vigente \in [Tablas -> [Claves -> Valores]]
    BY <2>2
  <2>4. /\ hora \in Nat /\ vivo \in BOOLEAN /\ pisada \in BOOLEAN
        /\ pedidos \in 0..MaxPedidos /\ caidas \in 0..MaxCaidas
    <3>1. hora = 0 /\ pedidos = 0 /\ caidas = 0
      OBVIOUS
    <3>2. 0 \in Nat /\ 0 \in 0..MaxPedidos /\ 0 \in 0..MaxCaidas
      BY CotasAssumption
    <3>3. vivo \in BOOLEAN /\ pisada \in BOOLEAN
      BY Zenon
    <3> QED BY <3>1, <3>2, <3>3, Zenon
  <2> QED BY <2>3, <2>4 DEF RestoTipado
<1> QED BY <1>1, <1>2, <1>3, <1>4, <1>5 DEF Tipos

LEMMA RecibirTipos ==
  ASSUME Tipos, NEW h \in Clientes, NEW op \in Operaciones, NEW t \in Tablas, NEW k \in Claves,
         Recibir(h, op, t, k)
  PROVE  Tipos'
<1> USE DEF Tipos
<1>1. h \in Hilos /\ "toma" \in Pcs
  BY DEF Clientes, Pcs
<1>2. HilosTipados'
  <2>1. PICK ec \in BOOLEAN :
          Sigue(h, "toma", [Ocioso EXCEPT !.op = op, !.tabla = t, !.key = k, !.ec = ec,
                                          !.valor = pedidos + 1])
    BY DEF Recibir
  <2> DEFINE e == [Ocioso EXCEPT !.op = op, !.tabla = t, !.key = k, !.ec = ec,
                                 !.valor = pedidos + 1]
  <2>2. pedidos + 1 \in Valores /\ op \in Operacion
    BY CotasAssumption DEF RestoTipado, Valores, Operacion
  <2>3. Ocioso.i = 1
    BY DEF Ocioso
  <2>4. EstadoTipado(e)
    BY <2>2, <2>3, ElOcioso, PedidoTipado
  <2> HIDE DEF e
  <2> QED BY <1>1, <2>1, <2>4, SigueTipado DEF e
<1>3. RestoTipado'
  BY CotasAssumption DEF Recibir, RestoTipado
<1> QED BY <1>2, <1>3, CacheIgual, MutexIgual, FSIgual DEF Recibir

LEMMA EmpezarJournalTipos == Tipos /\ EmpezarJournal => Tipos'
<1> SUFFICES ASSUME Tipos, EmpezarJournal PROVE Tipos'
  OBVIOUS
<1> USE DEF Tipos
<1> DEFINE e == [Ocioso EXCEPT !.op = "JOURNAL"]
<1>1. "journal" \in Hilos /\ "toma" \in Pcs /\ Sigue("journal", "toma", e)
  BY DEF EmpezarJournal, Pcs
<1>2. EstadoTipado(e)
  BY ElOcioso DEF EstadoTipado, EstadosDeHilo, Operacion, Ocioso
<1> HIDE DEF e
<1>3. HilosTipados'
  BY <1>1, <1>2, SigueTipado
<1> QED BY <1>3, CacheIgual, MutexIgual, FSIgual, RestoIgual DEF EmpezarJournal

LEMMA TomarTipos ==
  ASSUME Tipos, NEW h \in Hilos, Tomar(h)
  PROVE  Tipos'
<1> USE DEF Tipos
<1> DEFINE e == est[h]
<1>1. EstadoTipado(e)
  BY DEF HilosTipados
<1>2. MutexTipado'
  BY DEF Tomar, MutexTipado
<1>3. HilosTipados'
  <2>1. CASE e.i = Len(MutexDe(h))
    <3>1. Sigue(h, Primero(e.op), [e EXCEPT !.i = 1])
      BY <2>1 DEF Tomar
    <3>2. EstadoTipado([e EXCEPT !.i = 1]) /\ Primero(e.op) \in Pcs
      BY <1>1 DEF EstadoTipado, EstadosDeHilo, Primero, Pcs
    <3> HIDE DEF e
    <3> QED BY <3>1, <3>2, SigueTipado
  <2>2. CASE e.i # Len(MutexDe(h))
    <3>1. Sigue(h, "toma", [e EXCEPT !.i = @ + 1]) /\ "toma" \in Pcs
      BY <2>2 DEF Tomar, Pcs
    <3>2. EstadoTipado([e EXCEPT !.i = @ + 1])
      <4>1. e.i # (IF e.op = "JOURNAL" THEN 3 ELSE 1)
        BY <2>2, CuantosMutex
      <4> HIDE DEF e
      <4> QED BY <1>1, <4>1, SiguienteTipado
    <3> HIDE DEF e
    <3> QED BY <3>1, <3>2, SigueTipado
  <2> QED BY <2>1, <2>2
<1> QED BY <1>2, <1>3, CacheIgual, FSIgual, RestoIgual DEF Tomar

LEMMA RequestTipos ==
  ASSUME Tipos, NEW h \in Hilos, RechazarValor(h) \/ Responder(h) \/ Soltar(h)
  PROVE  Tipos'
<1> USE DEF Tipos
<1>1. EstadoTipado(est[h])
  BY DEF HilosTipados
<1>2. CASE RechazarValor(h)
  <2>1. HilosTipados'
    BY <1>1, <1>2, RespondeTipado DEF RechazarValor, Codigos
  <2> QED BY <1>2, <2>1, CacheIgual, MutexIgual, FSIgual, RestoIgual DEF RechazarValor
<1>3. CASE Responder(h)
  <2> DEFINE e == [Ocioso EXCEPT !.op = est[h].op]
  <2>1. EstadoTipado(e)
    BY <1>1, ElOcioso DEF EstadoTipado, EstadosDeHilo, Ocioso
  <2>2. Sigue(h, "suelta", e) /\ "suelta" \in Pcs
    BY <1>3 DEF Responder, Pcs
  <2> HIDE DEF e
  <2>3. HilosTipados'
    BY <2>1, <2>2, SigueTipado
  <2> QED BY <1>3, <2>3, CacheIgual, MutexIgual, FSIgual, RestoIgual DEF Responder
<1>4. CASE Soltar(h)
  <2>1. HilosTipados'
    BY <1>4, ElOcioso DEF Soltar, HilosTipados, EstadoTipado
  <2>2. MutexTipado'
    BY <1>4 DEF Soltar, MutexTipado
  <2> QED BY <1>4, <2>1, <2>2, CacheIgual, FSIgual, RestoIgual DEF Soltar
<1> QED BY <1>2, <1>3, <1>4

------------------------------------------------------------------------------
(* Typing: SELECT and INSERT.                                              *)

\* list_find gives the address of a segment in use, and 0 when there is none.
LEMMA SegmentoTipado ==
  ASSUME CacheTipada, NEW t
  PROVE  /\ Segmento(t) \in Nat
         /\ Segmento(t) # 0 => Segmento(t) \in EnUso
         /\ Indices(t) # {} => /\ Min(Indices(t)) \in DOMAIN segmentos
                               /\ Segmento(t) = segmentos[Min(Indices(t))].id
<1>1. Indices(t) \subseteq DOMAIN segmentos /\ DOMAIN segmentos \subseteq Nat
  BY DEF Indices, CacheTipada
<1>2. Indices(t) # {} => Min(Indices(t)) \in DOMAIN segmentos
  BY <1>1, HayMinimo
<1>3. \A i \in DOMAIN segmentos : segmentos[i].id \in Nat
  <2>1. \A i \in DOMAIN segmentos : segmentos[i] \in TipoDeSegmento
    BY DEF CacheTipada
  <2> QED BY <2>1 DEF TipoDeSegmento
<1>4. \A i \in DOMAIN segmentos : segmentos[i].id \in EnUso
  BY DEF EnUso
<1> QED BY <1>2, <1>3, <1>4 DEF Segmento

LEMMA BuscarTipos ==
  ASSUME Tipos, NEW h \in Hilos, Buscar(h)
  PROVE  Tipos'
<1> USE DEF Tipos
<1> DEFINE e == est[h]
<1>1. EstadoTipado(e)
  BY DEF HilosTipados
<1>2. {"envia", "pideMarco", "buscaPagina"} \subseteq Pcs /\ "SUCCESS" \in Codigos
  BY DEF Pcs, Codigos
<1>3. hora \in Nat /\ hora + 1 \in Nat /\ hora + 1 \in Horas
  BY DEF RestoTipado, Horas
<1> HIDE DEF e
<1>4. ASSUME DespuesDeBuscar(h, e) PROVE HilosTipados'
  BY <1>1, <1>2, <1>4, SigueTipado DEF DespuesDeBuscar
<1>5. CASE BuscarSegmento(h)
  <2> DEFINE s == Segmento(e.tabla)
  <2>1. EstadoTipado([e EXCEPT !.seg = s])
    <3>1. s \in Nat
      BY SegmentoTipado
    <3> HIDE DEF s
    <3> QED BY <1>1, <3>1 DEF EstadoTipado, EstadosDeHilo
  <2>2. DespuesDeBuscar(h, e) \/ Sigue(h, "buscaPagina", [e EXCEPT !.seg = s])
    BY <1>5 DEF BuscarSegmento, e
  <2> HIDE DEF s
  <2>3. HilosTipados'
    BY <1>2, <1>4, <2>1, <2>2, SigueTipado
  <2> QED BY <1>5, <2>3, CacheIgual, MutexIgual, FSIgual, RestoIgual DEF BuscarSegmento
<1>6. CASE SegmentoLiberado(h)
  <2>1. UNCHANGED <<cache, mutex, est, fs, hora, historia>> /\ vivo' \in BOOLEAN
    BY <1>6, Zenon DEF SegmentoLiberado, Invalido
  <2> QED BY <2>1, CacheIgual, HilosIgual, MutexIgual, FSIgual, RestoIgual
<1>7. CASE FaltaPagina(h)
  <2>1. HilosTipados'
    BY <1>7, <1>4 DEF FaltaPagina, e
  <2> QED BY <1>7, <2>1, CacheIgual, MutexIgual, FSIgual, RestoIgual DEF FaltaPagina
<1>8. CASE LeerPagina(h)
  <2>1. PICK p \in PaginasDe(e.seg, e.key) :
          /\ marcos' = [marcos EXCEPT ![p.marco].timestamp = hora + 1]
          /\ Responde(h, "SUCCESS", [e EXCEPT !.valor = marcos[p.marco].valor])
    BY <1>8 DEF LeerPagina, e
  <2>2. p.marco \in Marcos
    BY DEF PaginasDe, CacheTipada, TipoDePagina
  <2>3. marcos[p.marco].valor \in Valores
    BY <2>2 DEF CacheTipada
  <2>4. marcos' \in [Marcos -> [key : Claves, valor : Valores, timestamp : Horas]]
    BY <1>3, <2>1, <2>2 DEF CacheTipada
  <2>5. CacheTipada'
    BY <1>8, <2>4 DEF LeerPagina, CacheTipada, EnUso
  <2>6. EstadoTipado([e EXCEPT !.valor = marcos[p.marco].valor])
    <3> DEFINE v == marcos[p.marco].valor
    <3> HIDE DEF v
    <3>1. v \in Valores
      BY <2>3 DEF v
    <3>2. EstadoTipado([e EXCEPT !.valor = v])
      BY <1>1, <3>1 DEF EstadoTipado, EstadosDeHilo
    <3> QED BY <3>2 DEF v
  <2>7. HilosTipados'
    BY <1>2, <2>1, <2>6, RespondeTipado
  <2>8. RestoTipado'
    BY <1>3, <1>8 DEF LeerPagina, RestoTipado, historia
  <2> QED BY <1>8, <2>5, <2>7, <2>8, MutexIgual, FSIgual DEF LeerPagina
<1>9. CASE ActualizarPagina(h)
  <2>1. PICK p \in PaginasDe(e.seg, e.key) :
          /\ marcos' = [marcos EXCEPT ![p.marco] =
               [key |-> e.key, valor |-> e.valor, timestamp |-> hora + 1]]
          /\ paginas' = (paginas \ {p}) \cup {[p EXCEPT !.modificado = TRUE]}
    BY <1>9 DEF ActualizarPagina, e
  <2>2. p \in paginas /\ p \in TipoDePagina
    BY DEF PaginasDe, CacheTipada
  <2>3. e.key \in Claves /\ e.valor \in Valores /\ e.tabla \in Tablas
    BY <1>1 DEF EstadoTipado, EstadosDeHilo
  <2>4. marcos' \in [Marcos -> [key : Claves, valor : Valores, timestamp : Horas]]
    BY <1>3, <2>1, <2>3 DEF CacheTipada
  <2>5. /\ [p EXCEPT !.modificado = TRUE] \in TipoDePagina
        /\ [p EXCEPT !.modificado = TRUE].seg = p.seg
    BY <2>2 DEF TipoDePagina
  <2>6. IsFiniteSet(paginas')
    BY <2>1, FS_RemoveElement, FS_AddElement DEF CacheTipada
  <2>7. CacheTipada'
    <3> DEFINE q == [p EXCEPT !.modificado = TRUE]
    <3> HIDE DEF q
    <3>1. paginas' = (paginas \ {p}) \cup {q} /\ q \in TipoDePagina /\ q.seg = p.seg
      BY <2>1, <2>5 DEF q
    <3>2. UNCHANGED <<segmentos, bits>> /\ EnUso' = EnUso
      BY <1>9 DEF ActualizarPagina, EnUso
    <3>3. \A x \in paginas' : x.seg \in EnUso
      BY <2>2, <3>1 DEF CacheTipada
    <3> QED BY <2>4, <2>6, <3>1, <3>2, <3>3 DEF CacheTipada
  <2>8. HilosTipados'
    BY <1>1, <1>2, <1>9, RespondeTipado DEF ActualizarPagina, e
  <2>9. RestoTipado'
    BY <1>3, <1>9, <2>3 DEF ActualizarPagina, RestoTipado, e
  <2> QED BY <1>9, <2>7, <2>8, <2>9, MutexIgual, FSIgual DEF ActualizarPagina
<1> QED BY <1>5, <1>6, <1>7, <1>8, <1>9 DEF Buscar

\* A frame is asked for, or a victim chosen and unlinked.
LEMMA ConseguirMarcoTipos ==
  ASSUME Tipos, NEW h \in Hilos, ConseguirMarco(h)
  PROVE  Tipos'
<1> USE DEF Tipos
<1> DEFINE e == est[h]
<1>1. EstadoTipado(e)
  BY DEF HilosTipados
<1>2. {"guarda", "eligeVictima", "desvincula"} \subseteq Pcs /\ "MEMORIA_FULL" \in Codigos
  BY DEF Pcs, Codigos
<1> HIDE DEF e
<1>3. CASE PedirMarco(h)
  <2> DEFINE ts == IF e.op = "INSERT" THEN hora + 1 ELSE e.ts
             f == [e EXCEPT !.ts = ts]
             m == Min(Marcos \ bits)
  <2>1. hora \in Nat /\ hora + 1 \in Nat
    BY DEF RestoTipado
  <2>2. ts \in Horas
    BY <1>1, <2>1 DEF EstadoTipado, EstadosDeHilo, Horas
  <2>3. hora' \in Nat
    BY <1>3, <2>1 DEF PedirMarco
  <2> HIDE DEF ts
  <2>4. EstadoTipado(f)
    BY <1>1, <2>2 DEF EstadoTipado, EstadosDeHilo
  <2>5. bits # Marcos => m \in Marcos
    <3>1. Marcos \ bits \subseteq Nat /\ (bits # Marcos => Marcos \ bits # {})
      BY MarcosAssumption DEF Marcos, CacheTipada
    <3> QED BY <3>1, HayMinimo
  <2> HIDE DEF m
  <2>6. /\ bits # Marcos => Sigue(h, "guarda", [f EXCEPT !.marco = m])
        /\ bits = Marcos => Sigue(h, "eligeVictima", f)
    BY <1>1, <1>3, HayLibres DEF PedirMarco, MarcosLibres, e, ts, m
  <2> HIDE DEF f
  <2>7. bits # Marcos => EstadoTipado([f EXCEPT !.marco = m])
    BY <2>4, <2>5 DEF EstadoTipado, EstadosDeHilo
  <2>8. HilosTipados'
    BY <1>2, <2>4, <2>6, <2>7, SigueTipado
  <2>9. RestoTipado'
    BY <1>3, <2>3 DEF PedirMarco, RestoTipado, historia
  <2> QED BY <1>3, <2>8, <2>9, CacheIgual, MutexIgual, FSIgual DEF PedirMarco
<1>4. CASE ElegirVictima(h)
  <2>1. PICK p \in Victimas :
          Sigue(h, "desvincula", [e EXCEPT !.victima = p.seg, !.marco = p.marco])
    BY <1>4 DEF ElegirVictima, e
  <2>2. p.seg \in Nat /\ p.marco \in Marcos
    BY DEF Victimas, SinModificar, CacheTipada, TipoDePagina
  <2>3. EstadoTipado([e EXCEPT !.victima = p.seg, !.marco = p.marco])
    BY <1>1, <2>2 DEF EstadoTipado, EstadosDeHilo
  <2>4. HilosTipados'
    BY <1>2, <2>1, <2>3, SigueTipado
  <2> QED BY <1>4, <2>4, CacheIgual, MutexIgual, FSIgual, RestoIgual DEF ElegirVictima
<1>5. CASE MemoriaFull(h)
  <2>1. HilosTipados'
    BY <1>1, <1>2, <1>5, RespondeTipado DEF MemoriaFull, e
  <2> QED BY <1>5, <2>1, CacheIgual, MutexIgual, FSIgual, RestoIgual DEF MemoriaFull
<1>6. CASE Desvincular(h)
  <2>1. PICK quitadas : paginas' = paginas \ quitadas
    BY <1>6 DEF Desvincular
  <2>2. IsFiniteSet(paginas')
    BY <2>1, FS_Difference DEF CacheTipada
  <2>3. CacheTipada'
    BY <1>6, <2>1, <2>2 DEF Desvincular, CacheTipada, EnUso
  <2>4. HilosTipados'
    BY <1>1, <1>2, <1>6, SigueTipado DEF Desvincular, e
  <2> QED BY <1>6, <2>3, <2>4, MutexIgual, FSIgual, RestoIgual DEF Desvincular
<1>7. CASE VictimaLiberada(h)
  <2>1. UNCHANGED <<cache, mutex, est, fs, hora, historia>> /\ vivo' \in BOOLEAN
    BY <1>7, Zenon DEF VictimaLiberada, Invalido
  <2> QED BY <2>1, CacheIgual, HilosIgual, MutexIgual, FSIgual, RestoIgual
<1> QED BY <1>3, <1>4, <1>5, <1>6, <1>7 DEF ConseguirMarco

------------------------------------------------------------------------------
(* Typing: the page is stored.                                             *)

LEMMA SegmentoAgregado ==
  ASSUME CacheTipada, NEW n \in Nat \ {0}, NEW t \in Tablas,
         segmentos' = Append(segmentos, [id |-> n, tabla |-> t])
  PROVE  /\ segmentos' \in Seq(TipoDeSegmento)
         /\ EnUso' = EnUso \cup {n}
<1> DEFINE x == [id |-> n, tabla |-> t]
           k == Len(segmentos)
<1>1. x \in TipoDeSegmento /\ x.id = n
  BY DEF TipoDeSegmento
<1> HIDE DEF x
<1>2. segmentos \in Seq(TipoDeSegmento) /\ segmentos' = Append(segmentos, x)
  BY DEF CacheTipada, x
<1>3. /\ segmentos' \in Seq(TipoDeSegmento)
      /\ DOMAIN segmentos = 1..k /\ DOMAIN segmentos' = 1..(k + 1) /\ k \in Nat
      /\ \A i \in 1..k : segmentos'[i] = segmentos[i]
      /\ segmentos'[k + 1] = x
  BY <1>1, <1>2
<1>4. EnUso' = {segmentos'[i].id : i \in 1..(k + 1)} /\ EnUso = {segmentos[i].id : i \in 1..k}
  BY <1>3 DEF EnUso
<1>5. 1..(k + 1) = 1..k \cup {k + 1}
  BY <1>3
<1> HIDE DEF k
<1> QED BY <1>1, <1>3, <1>4, <1>5

LEMMA PaginaTipada ==
  ASSUME Tipos, NEW e, EstadoTipado(e), NEW s \in Nat \ {0}, NEW b \in BOOLEAN
  PROVE  Pagina(s, e, b) \in TipoDePagina /\ Pagina(s, e, b).seg = s
<1>1. Pagina(s, e, b).id \in Nat \ {0}
  BY TiposEsTypeOK, IdDePaginaLibre
<1>2. e.marco \in Marcos
  BY DEF EstadoTipado, EstadosDeHilo
<1> DEFINE n == Min(1..(Cardinality(paginas) + 1) \ {p.id : p \in paginas})
<1>3. n \in Nat \ {0}
  BY <1>1 DEF Pagina
<1>4. Pagina(s, e, b) = [id |-> n, seg |-> s, marco |-> e.marco, modificado |-> b]
  BY DEF Pagina
<1> HIDE DEF n
<1> QED BY <1>2, <1>3, <1>4 DEF TipoDePagina

\* The pages with one more, in a segment there is.
LEMMA PaginaAgregada ==
  ASSUME Tipos, NEW e, EstadoTipado(e), NEW s \in Nat \ {0}, NEW b \in BOOLEAN,
         paginas' = paginas \cup {Pagina(s, e, b)},
         EnUso \subseteq EnUso', s \in EnUso'
  PROVE  /\ paginas' \subseteq TipoDePagina /\ IsFiniteSet(paginas')
         /\ \A p \in paginas' : p.seg \in EnUso'
<1> DEFINE q == Pagina(s, e, b)
<1>1. q \in TipoDePagina /\ q.seg = s
  BY PaginaTipada
<1> HIDE DEF q
<1>2. paginas' = paginas \cup {q}
  BY DEF q
<1>3. paginas \subseteq TipoDePagina /\ IsFiniteSet(paginas) /\ \A p \in paginas : p.seg \in EnUso
  BY DEF Tipos, CacheTipada
<1>4. IsFiniteSet(paginas')
  BY <1>2, <1>3, FS_AddElement
<1> QED BY <1>1, <1>2, <1>3, <1>4

LEMMA ContenidoTipado ==
  ASSUME Tipos, NEW e, EstadoTipado(e)
  PROVE  Contenido(e) \in [key : Claves, valor : Valores, timestamp : Horas]
<1>1. e.key \in Claves /\ e.valor \in Valores /\ e.ts \in Horas
  BY DEF EstadoTipado, EstadosDeHilo
<1>2. hora + 1 \in Horas
  BY DEF Tipos, RestoTipado, Horas
<1> QED BY <1>1, <1>2 DEF Contenido

LEMMA ReconoceTipado ==
  ASSUME Tipos, NEW e, EstadoTipado(e), Reconoce(e)
  PROVE  vigente' \in [Tablas -> [Claves -> Valores]]
<1>1. e.key \in Claves /\ e.valor \in Valores /\ e.tabla \in Tablas
  BY DEF EstadoTipado, EstadosDeHilo
<1> QED BY <1>1 DEF Reconoce, Tipos, RestoTipado

LEMMA EscribeTipos ==
  ASSUME Tipos, NEW h \in Hilos, NEW s \in Nat \ {0}, Escribe(h, s, est[h]),
         segmentos' \in Seq(TipoDeSegmento), EnUso \subseteq EnUso', s \in EnUso'
  PROVE  Tipos'
<1> USE DEF Tipos
<1> DEFINE e == est[h]
<1>1. EstadoTipado(e)
  BY DEF HilosTipados
<1> HIDE DEF e
<1>2. marcos' \in [Marcos -> [key : Claves, valor : Valores, timestamp : Horas]]
  BY <1>1, ContenidoTipado DEF Escribe, CacheTipada, e
<1>3. bits' \subseteq Marcos
  BY <1>1 DEF Escribe, CacheTipada, e, EstadoTipado, EstadosDeHilo
<1>4. /\ paginas' \subseteq TipoDePagina /\ IsFiniteSet(paginas')
      /\ \A p \in paginas' : p.seg \in EnUso'
  <2> DEFINE b == (e.op = "INSERT")
  <2>1. paginas' = paginas \cup {Pagina(s, e, b)}
    BY DEF Escribe, e
  <2>2. b \in BOOLEAN
    OBVIOUS
  <2> HIDE DEF b
  <2> QED BY <1>1, <2>1, <2>2, PaginaAgregada
<1>5. CacheTipada'
  BY <1>2, <1>3, <1>4 DEF CacheTipada
<1>6. HilosTipados'
  BY <1>1, RespondeTipado DEF Escribe, e, Codigos
<1>7. RestoTipado'
  <2>1. vigente' \in [Tablas -> [Claves -> Valores]]
    BY <1>1, ReconoceTipado DEF Escribe, e
  <2>2. hora' \in Nat
    BY DEF Escribe, Avanza, RestoTipado
  <2> QED BY <2>1, <2>2 DEF Escribe, RestoTipado
<1> QED BY <1>5, <1>6, <1>7, MutexIgual, FSIgual DEF Escribe

LEMMA GuardarPaginaTipos ==
  ASSUME Tipos, NEW h \in Hilos, GuardarPagina(h)
  PROVE  Tipos'
<1> USE DEF Tipos
<1> DEFINE e == est[h]
<1>1. EstadoTipado(e)
  BY DEF HilosTipados
<1>2. e.tabla \in Tablas
  BY <1>1 DEF EstadoTipado, EstadosDeHilo
<1>3. IdLibre \in Nat \ {0}
  BY TiposEsTypeOK, SegmentoNuevo
<1> HIDE DEF e
<1>4. CASE GuardarEnSegmento(h)
  <2> DEFINE s == Segmento(e.tabla)
  <2>1. s \in Nat \ {0} /\ s \in EnUso
    BY <1>4, SegmentoTipado DEF GuardarEnSegmento, e
  <2>2. Escribe(h, s, est[h]) /\ UNCHANGED segmentos
    BY <1>4 DEF GuardarEnSegmento, e
  <2> HIDE DEF s
  <2>3. segmentos' \in Seq(TipoDeSegmento) /\ EnUso' = EnUso
    BY <2>2 DEF CacheTipada, EnUso
  <2> QED BY <2>1, <2>2, <2>3, EscribeTipos
<1>5. CASE GuardarSinSegmento(h)
  <2>1. CASE e.op = "INSERT"
    <3>1. UNCHANGED <<cache, mutex, est, fs, hora, historia>> /\ vivo' \in BOOLEAN
      BY <1>5, <2>1, Zenon DEF GuardarSinSegmento, Invalido, e
    <3> QED BY <3>1, CacheIgual, HilosIgual, MutexIgual, FSIgual, RestoIgual
  <2>2. CASE e.op # "INSERT"
    <3>1. marcos' \in [Marcos -> [key : Claves, valor : Valores, timestamp : Horas]]
      BY <1>1, <1>5, <2>2, ContenidoTipado DEF GuardarSinSegmento, CacheTipada, e
    <3>2. bits' \subseteq Marcos
      BY <1>1, <1>5, <2>2 DEF GuardarSinSegmento, CacheTipada, e, EstadoTipado, EstadosDeHilo
    <3>3. UNCHANGED <<segmentos, paginas, mutex, fs, vivo, historia>>
      BY <1>5, <2>2 DEF GuardarSinSegmento, e
    <3>4. CacheTipada'
      BY <3>1, <3>2, <3>3 DEF CacheTipada, EnUso
    <3>5. HilosTipados'
      BY <1>1, <1>5, <2>2, RespondeTipado DEF GuardarSinSegmento, e, Codigos
    <3>6. hora' \in Nat
      BY <1>5, <2>2 DEF GuardarSinSegmento, Avanza, RestoTipado, e
    <3>7. RestoTipado'
      BY <3>3, <3>6 DEF RestoTipado, historia
    <3> QED BY <3>3, <3>4, <3>5, <3>7, MutexIgual, FSIgual
  <2> QED BY <2>1, <2>2
<1>6. CASE GuardarEnNuevo(h)
  <2>1. /\ segmentos' = Append(segmentos, [id |-> IdLibre, tabla |-> e.tabla])
        /\ Escribe(h, IdLibre, est[h])
    BY <1>6 DEF GuardarEnNuevo, e
  <2>2. segmentos' \in Seq(TipoDeSegmento) /\ EnUso' = EnUso \cup {IdLibre}
    BY <1>2, <1>3, <2>1, SegmentoAgregado
  <2> QED BY <1>3, <2>1, <2>2, EscribeTipos
<1>7. CASE GuardarVictimaIntacta(h)
  <2>1. /\ segmentos' = Append(segmentos, [id |-> IdLibre, tabla |-> e.tabla])
        /\ paginas' = paginas \cup {Pagina(IdLibre, e, FALSE)}
        /\ pisada' = TRUE /\ Reconoce(e) /\ Responde(h, "SUCCESS", e)
        /\ UNCHANGED <<marcos, bits, mutex, fs, hora, vivo, pedidos, caidas>>
    BY <1>7 DEF GuardarVictimaIntacta, e
  <2>2. segmentos' \in Seq(TipoDeSegmento) /\ EnUso' = EnUso \cup {IdLibre}
    BY <1>2, <1>3, <2>1, SegmentoAgregado
  <2>3. /\ paginas' \subseteq TipoDePagina /\ IsFiniteSet(paginas')
        /\ \A p \in paginas' : p.seg \in EnUso'
    BY <1>1, <1>3, <2>1, <2>2, PaginaAgregada
  <2>4. CacheTipada'
    BY <2>1, <2>2, <2>3 DEF CacheTipada
  <2>5. HilosTipados'
    BY <1>1, <2>1, RespondeTipado DEF Codigos
  <2>6. vigente' \in [Tablas -> [Claves -> Valores]]
    BY <1>1, <2>1, ReconoceTipado
  <2>7. pisada' \in BOOLEAN
    BY <2>1, Zenon
  <2>8. RestoTipado'
    BY <2>1, <2>6, <2>7 DEF RestoTipado
  <2> QED BY <2>1, <2>4, <2>5, <2>8, MutexIgual, FSIgual
<1> QED BY <1>4, <1>5, <1>6, <1>7 DEF GuardarPagina

------------------------------------------------------------------------------
(* Typing: CREATE, DROP and JOURNAL.                                       *)

\* Frames that are given back keep their type; of the pages, some stay.
LEMMA EliminarTipado ==
  ASSUME Tipos, NEW s, Eliminar(s), segmentos' \in Seq(TipoDeSegmento), EnUso \ s \subseteq EnUso'
  PROVE  CacheTipada'
<1> DEFINE suyas == {p \in paginas : p.seg \in s}
           liberados == {p.marco : p \in suyas}
<1>1. /\ paginas' = paginas \ suyas /\ bits' = bits \ liberados
      /\ marcos' = [m \in Marcos |-> IF m \in liberados
                                       THEN [marcos[m] EXCEPT !.valor = SIN_VALOR]
                                       ELSE marcos[m]]
  BY DEF Eliminar
<1>2. marcos' \in [Marcos -> [key : Claves, valor : Valores, timestamp : Horas]]
  <2>1. \A m \in Marcos : /\ marcos[m] \in [key : Claves, valor : Valores, timestamp : Horas]
                          /\ [marcos[m] EXCEPT !.valor = SIN_VALOR]
                               \in [key : Claves, valor : Valores, timestamp : Horas]
    BY DEF Tipos, CacheTipada, Valores
  <2> HIDE DEF liberados
  <2> QED BY <1>1, <2>1
<1>3. IsFiniteSet(paginas')
  BY <1>1, FS_Difference DEF Tipos, CacheTipada
<1>4. \A p \in paginas' : p.seg \in EnUso'
  BY <1>1 DEF Tipos, CacheTipada
<1> QED BY <1>1, <1>2, <1>3, <1>4 DEF Tipos, CacheTipada

LEMMA CrearYEliminarTipos ==
  ASSUME Tipos, NEW h \in Hilos, CrearYEliminar(h)
  PROVE  Tipos'
<1> USE DEF Tipos
<1> DEFINE e == est[h]
<1>1. EstadoTipado(e)
  BY DEF HilosTipados
<1>2. e.tabla \in Tablas /\ e.cod \in Codigos
  BY <1>1 DEF EstadoTipado, EstadosDeHilo
<1>3. "creaSegmento" \in Pcs /\ "SUCCESS" \in Codigos
  BY DEF Pcs, Codigos
<1> HIDE DEF e
<1>4. CASE BuscarAntesDeCrear(h)
  <2>1. HilosTipados'
    BY <1>1, <1>3, <1>4, SigueTipado, RespondeTipado DEF BuscarAntesDeCrear, e
  <2> QED BY <1>4, <2>1, CacheIgual, MutexIgual, FSIgual, RestoIgual DEF BuscarAntesDeCrear
<1>5. CASE CrearSegmento(h)
  <2>1. IdLibre \in Nat \ {0}
    BY TiposEsTypeOK, SegmentoNuevo
  <2>2. segmentos' \in Seq(TipoDeSegmento) /\ EnUso' = EnUso \cup {IdLibre}
    BY <1>2, <1>5, <2>1, SegmentoAgregado DEF CrearSegmento, e
  <2>3. CacheTipada'
    BY <1>5, <2>2 DEF CrearSegmento, CacheTipada
  <2>4. HilosTipados'
    BY <1>1, <1>3, <1>5, RespondeTipado DEF CrearSegmento, e
  <2> QED BY <1>5, <2>3, <2>4, MutexIgual, FSIgual, RestoIgual DEF CrearSegmento
<1>6. CASE EliminarSegmento(h)
  <2> DEFINE i == Min(Indices(e.tabla))
             s == Segmento(e.tabla)
  <2>1. /\ segmentos' = IF Indices(e.tabla) = {} THEN segmentos ELSE RemoveAt(segmentos, i)
        /\ Eliminar({s}) /\ Responde(h, e.cod, e)
        /\ UNCHANGED <<mutex, fs, hora, vivo, historia>>
    BY <1>6 DEF EliminarSegmento, e
  <2>2. segmentos' \in Seq(TipoDeSegmento) /\ EnUso \ {s} \subseteq EnUso'
    <3>1. CASE Indices(e.tabla) = {}
      BY <2>1, <3>1 DEF CacheTipada, EnUso
    <3>2. CASE Indices(e.tabla) # {}
      <4>1. i \in DOMAIN segmentos /\ s = segmentos[i].id
        BY <3>2, SegmentoTipado
      <4>2. segmentos' = RemoveAt(segmentos, i)
        BY <2>1, <3>2
      <4> HIDE DEF i, s
      <4>3. segmentos \in Seq(TipoDeSegmento) /\ i \in 1..Len(segmentos)
        BY <4>1 DEF CacheTipada
      <4>4. /\ segmentos' \in Seq(TipoDeSegmento)
            /\ Range(segmentos) \subseteq Range(segmentos') \cup {segmentos[i]}
        BY <4>2, <4>3, RangoDeRemoveAt
      <4>5. EnUso = {x.id : x \in Range(segmentos)} /\ EnUso' = {x.id : x \in Range(segmentos')}
        BY DEF EnUso, Range
      <4> QED BY <4>1, <4>4, <4>5
    <3> QED BY <3>1, <3>2
  <2> HIDE DEF i, s
  <2>3. CacheTipada'
    BY <2>1, <2>2, EliminarTipado
  <2>4. HilosTipados'
    BY <1>1, <1>2, <2>1, RespondeTipado
  <2> QED BY <2>1, <2>3, <2>4, MutexIgual, FSIgual, RestoIgual
<1> QED BY <1>4, <1>5, <1>6 DEF CrearYEliminar

LEMMA TablaDelSegmentoTipada ==
  ASSUME CacheTipada, NEW s \in EnUso
  PROVE  TablaDelSegmento(s) \in Tablas
<1> DEFINE j == CHOOSE i \in DOMAIN segmentos : segmentos[i].id = s
<1>1. j \in DOMAIN segmentos
  BY DEF EnUso
<1> HIDE DEF j
<1>2. segmentos[j] \in TipoDeSegmento
  BY <1>1 DEF CacheTipada
<1> QED BY <1>2 DEF TablaDelSegmento, TipoDeSegmento, j

LEMMA JournalTipos ==
  ASSUME Tipos, NEW h \in Hilos, Journal(h)
  PROVE  Tipos'
<1> USE DEF Tipos
<1> DEFINE e == est[h]
<1>1. EstadoTipado(e)
  BY DEF HilosTipados
<1> HIDE DEF e
<1>2. CASE TomarPagina(h)
  <2>1. PICK p \in PorEnviar(h) :
           Sigue(h, "envia",
             [e EXCEPT !.tabla = TablaDelSegmento(p.seg), !.key = marcos[p.marco].key,
                       !.valor = marcos[p.marco].valor, !.ts = marcos[p.marco].timestamp,
                       !.visitadas = @ \cup {p}])
    BY <1>2 DEF TomarPagina, e
  <2> DEFINE t == TablaDelSegmento(p.seg)
             m == marcos[p.marco]
             v == e.visitadas \cup {p}
             f == [e EXCEPT !.tabla = t, !.key = m.key, !.valor = m.valor, !.ts = m.timestamp,
                            !.visitadas = v]
  <2>2. p \in TipoDePagina /\ p.seg \in EnUso
    BY DEF PorEnviar, CacheTipada
  <2>3. t \in Tablas
    BY <2>2, TablaDelSegmentoTipada
  <2>4. m \in [key : Claves, valor : Valores, timestamp : Horas]
    BY <2>2 DEF CacheTipada, TipoDePagina
  <2>5. v \in SUBSET TipoDePagina
    BY <1>1, <2>2 DEF EstadoTipado, EstadosDeHilo
  <2> HIDE DEF t, m
  <2>6. Sigue(h, "envia", f)
    BY <2>1 DEF t, m
  <2> HIDE DEF v
  <2>7. EstadoTipado(f)
    BY <1>1, <2>3, <2>4, <2>5 DEF EstadoTipado, EstadosDeHilo
  <2>8. HilosTipados'
    <3> HIDE DEF f
    <3> QED BY <2>6, <2>7, SigueTipado DEF Pcs
  <2> QED BY <1>2, <2>8, CacheIgual, MutexIgual, FSIgual, RestoIgual DEF TomarPagina
<1>3. CASE Limpiar(h)
  <2>1. segmentos' = <<>> /\ Eliminar(EnUso)
    BY <1>3 DEF Limpiar
  <2>2. CacheTipada'
    BY <2>1, EliminarTipado
  <2>3. HilosTipados'
    <3>1. PICK cod \in Codigos : Responde(h, cod, e)
      BY <1>3 DEF Limpiar, e, Codigos
    <3> QED BY <1>1, <3>1, RespondeTipado
  <2> QED BY <1>3, <2>2, <2>3, MutexIgual, FSIgual, RestoIgual DEF Limpiar
<1> QED BY <1>2, <1>3 DEF Journal

------------------------------------------------------------------------------
(* Typing: the exchange with the file system.                              *)

Mensajes ==
  [op : Operacion \cup {"INSERT"}, tabla : Tablas, key : Claves, valor : Valores, ts : Horas]

LEMMA MensajeTipado ==
  ASSUME NEW e, EstadoTipado(e)
  PROVE  Mensaje(e) \in Mensajes
<1>1. /\ e.op \in Operacion /\ e.tabla \in Tablas /\ e.key \in Claves
      /\ e.valor \in Valores /\ e.ts \in Horas
  BY DEF EstadoTipado, EstadosDeHilo
<1> QED BY <1>1 DEF Mensaje, Mensajes

LEMMA CodigoTipado ==
  ASSUME NEW m
  PROVE  CodigoDeLFS(m) \in Codigos
BY DEF CodigoDeLFS, Codigos

LEMMA DatoTipado ==
  ASSUME FSTipado, NEW m \in Mensajes
  PROVE  /\ m.tabla \in Tablas /\ m.key \in Claves /\ m.ts \in Horas /\ m.valor \in Valores
         /\ enLFS[m.tabla] \in DatosDeTabla
         /\ enLFS[m.tabla].datos[m.key] \in [valor : Valores, ts : Horas]
<1>1. m.tabla \in Tablas /\ m.key \in Claves /\ m.ts \in Horas /\ m.valor \in Valores
  BY DEF Mensajes
<1>2. enLFS[m.tabla] \in DatosDeTabla
  BY <1>1 DEF FSTipado
<1> QED BY <1>1, <1>2 DEF DatosDeTabla

LEMMA RespuestaTipada ==
  ASSUME FSTipado, NEW h \in Hilos, NEW fd \in Nat, NEW m \in Mensajes
  PROVE  Respuesta(h, fd, m) \in Respuestas
<1> DEFINE d == enLFS[m.tabla].datos[m.key]
           c == CodigoDeLFS(m)
<1>1. d.valor \in Valores /\ d.ts \in Horas /\ c \in Codigos
  BY DatoTipado, CodigoTipado
<1>2. m.op \in Operacion \cup {"INSERT"} /\ m.tabla \in Tablas /\ m.key \in Claves
  BY DEF Mensajes
<1>3. Respuesta(h, fd, m) =
        [fd |-> fd, para |-> h, op |-> m.op, cod |-> c, tabla |-> m.tabla,
         key |-> m.key, valor |-> d.valor, ts |-> d.ts]
  BY DEF Respuesta
<1> HIDE DEF d, c
<1> QED BY <1>1, <1>2, <1>3 DEF Respuestas

LEMMA LFSTipado ==
  ASSUME FSTipado, NEW m \in Mensajes
  PROVE  LFSDespuesDe(m) \in [Tablas -> DatosDeTabla]
<1>1. m.tabla \in Tablas /\ m.key \in Claves /\ m.ts \in Horas /\ m.valor \in Valores
  BY DatoTipado
<1>2. enLFS \in [Tablas -> DatosDeTabla]
  BY DEF FSTipado
<1>3. Inexistente \in DatosDeTabla /\ Vacia \in DatosDeTabla
  BY DEF Inexistente, Vacia, DatosDeTabla, Valores, Horas, SIN_VALOR
<1>4. CASE CodigoDeLFS(m) # "SUCCESS"
  BY <1>2, <1>4 DEF LFSDespuesDe
<1>5. CASE CodigoDeLFS(m) = "SUCCESS"
  <2>1. CASE m.op = "INSERT" /\ m.ts >= enLFS[m.tabla].datos[m.key].ts
    <3> DEFINE r == [valor |-> m.valor, ts |-> m.ts]
               d == [enLFS[m.tabla] EXCEPT !.datos[m.key] = r]
    <3>1. r \in [valor : Valores, ts : Horas]
      BY <1>1
    <3> HIDE DEF r
    <3>2. d \in DatosDeTabla
      BY <1>1, <1>2, <3>1 DEF DatosDeTabla
    <3>3. LFSDespuesDe(m) = [enLFS EXCEPT ![m.tabla].datos[m.key] = r]
      BY <1>5, <2>1 DEF LFSDespuesDe, r
    <3>4. [enLFS EXCEPT ![m.tabla].datos[m.key] = r] = [enLFS EXCEPT ![m.tabla] = d]
      BY <1>1, <1>2
    <3> HIDE DEF d
    <3> QED BY <1>1, <1>2, <3>2, <3>3, <3>4
  <2>2. CASE m.op = "CREATE"
    <3>1. LFSDespuesDe(m) = [enLFS EXCEPT ![m.tabla] = Vacia]
      BY <1>5, <2>2 DEF LFSDespuesDe
    <3> QED BY <1>1, <1>2, <1>3, <3>1
  <2>3. CASE m.op = "DROP"
    <3>1. LFSDespuesDe(m) = [enLFS EXCEPT ![m.tabla] = Inexistente]
      BY <1>5, <2>3 DEF LFSDespuesDe
    <3> QED BY <1>1, <1>2, <1>3, <3>1
  <2>4. CASE /\ ~(m.op = "INSERT" /\ m.ts >= enLFS[m.tabla].datos[m.key].ts)
             /\ m.op # "CREATE" /\ m.op # "DROP"
    BY <1>2, <1>5, <2>4 DEF LFSDespuesDe
  <2> QED BY <2>1, <2>2, <2>3, <2>4
<1> QED BY <1>4, <1>5

\* A request that gets to the file system, by a connection.
LEMMA EnviadoTipado ==
  ASSUME Tipos, NEW h \in Hilos, NEW fd \in Nat, NEW m \in Mensajes, LlegaALFS(h, fd, m),
         UNCHANGED <<conexion, rotas, lfs, hora, vivo, pedidos, caidas, pisada>>
  PROVE  FSTipado' /\ RestoTipado'
<1> USE DEF Tipos
<1>1. deLFS' \in Seq(Respuestas)
  BY RespuestaTipada DEF LlegaALFS, FSTipado
<1>2. enLFS' \in [Tablas -> DatosDeTabla]
  BY LFSTipado DEF LlegaALFS
<1>3. vigente' \in [Tablas -> [Claves -> Valores]]
  <2>1. m.tabla \in Tablas /\ SIN_VALOR \in Valores
    BY DatoTipado DEF Valores
  <2> QED BY <2>1 DEF LlegaALFS, RestoTipado
<1> QED BY <1>1, <1>2, <1>3 DEF FSTipado, RestoTipado

LEMMA FracasoTipado ==
  ASSUME HilosTipados, NEW h \in Hilos, NEW e, EstadoTipado(e), Fracaso(h, e)
  PROVE  HilosTipados'
<1>1. EstadoTipado([e EXCEPT !.cod = "NUESTRO_ERROR"])
  BY DEF EstadoTipado, EstadosDeHilo, Codigos
<1>2. "recorre" \in Pcs /\ "LFS_CAIDO" \in Codigos
  BY DEF Pcs, Codigos
<1> QED BY <1>1, <1>2, SigueTipado, RespondeTipado DEF Fracaso

LEMMA AtiendeTipado ==
  ASSUME HilosTipados, NEW h \in Hilos, NEW d \in Respuestas, NEW e, EstadoTipado(e),
         Atiende(h, d, e)
  PROVE  HilosTipados'
<1>1. /\ d.cod \in Codigos /\ d.tabla \in Tablas /\ d.key \in Claves
      /\ d.valor \in Valores /\ d.ts \in Horas
  BY DEF Respuestas
<1>2. {"recorre", "pideMarco", "crea", "elimina"} \subseteq Pcs
  BY DEF Pcs
<1>3. CASE e.op = "JOURNAL"
  <2> DEFINE c == IF d.cod \in {"SUCCESS", "TABLA_NO_EXISTE"} THEN "SUCCESS" ELSE "NUESTRO_ERROR"
  <2>1. c \in Codigos
    BY DEF Codigos
  <2>2. Sigue(h, "recorre", [e EXCEPT !.cod = c])
    BY <1>3 DEF Atiende
  <2> HIDE DEF c
  <2>3. EstadoTipado([e EXCEPT !.cod = c])
    BY <2>1 DEF EstadoTipado, EstadosDeHilo
  <2> QED BY <1>2, <2>2, <2>3, SigueTipado
<1>4. CASE e.op = "SELECT" /\ d.cod = "SUCCESS"
  <2> DEFINE f == [e EXCEPT !.tabla = d.tabla, !.key = d.key, !.valor = d.valor, !.ts = d.ts]
  <2>1. Sigue(h, "pideMarco", f)
    BY <1>4 DEF Atiende
  <2>2. EstadoTipado(f)
    BY <1>1 DEF EstadoTipado, EstadosDeHilo
  <2> HIDE DEF f
  <2> QED BY <1>2, <2>1, <2>2, SigueTipado
<1>5. CASE e.op = "CREATE"
  <2>1. Sigue(h, "crea", e)
    BY <1>5 DEF Atiende
  <2> QED BY <1>2, <2>1, SigueTipado
<1>6. CASE e.op = "DROP" /\ e.ec
  <2>1. Sigue(h, "elimina", [e EXCEPT !.cod = d.cod])
    BY <1>6 DEF Atiende
  <2>2. EstadoTipado([e EXCEPT !.cod = d.cod])
    BY <1>1 DEF EstadoTipado, EstadosDeHilo
  <2> QED BY <1>2, <2>1, <2>2, SigueTipado
<1>7. CASE /\ e.op # "JOURNAL" /\ ~(e.op = "SELECT" /\ d.cod = "SUCCESS")
           /\ e.op # "CREATE" /\ ~(e.op = "DROP" /\ e.ec)
  <2>1. Responde(h, d.cod, e)
    BY <1>7, Zenon DEF Atiende
  <2> QED BY <1>1, <2>1, RespondeTipado
<1> QED BY <1>3, <1>4, <1>5, <1>6, <1>7

\* The first answer of a connection is in the queue, unless there is none.
LEMMA PrimeraEnCola ==
  ASSUME FSTipado, NEW fd
  PROVE  /\ PrimeraDe(fd) \in 1..(Len(deLFS) + 1)
         /\ PrimeraDe(fd) <= Len(deLFS) => PrimeraDe(fd) \in 1..Len(deLFS)
<1> DEFINE S == {i \in DOMAIN deLFS : deLFS[i].fd = fd} \cup {Len(deLFS) + 1}
<1>1. Len(deLFS) \in Nat /\ DOMAIN deLFS = 1..Len(deLFS)
  BY DEF FSTipado
<1>2. S \subseteq 1..(Len(deLFS) + 1) /\ S \subseteq Nat /\ S # {}
  BY <1>1
<1> HIDE DEF S
<1>3. Min(S) \in S
  BY <1>2, HayMinimo
<1>4. PrimeraDe(fd) = Min(S)
  BY DEF PrimeraDe, S
<1>5. PrimeraDe(fd) \in 1..(Len(deLFS) + 1)
  BY <1>2, <1>3, <1>4
<1> DEFINE i == PrimeraDe(fd)
           n == Len(deLFS)
<1>6. i \in 1..(n + 1) /\ n \in Nat
  BY <1>1, <1>5
<1> HIDE DEF i, n
<1>7. i <= n => i \in 1..n
  BY <1>6
<1> QED BY <1>5, <1>7 DEF i, n

LEMMA IntercambiarTipos ==
  ASSUME Tipos, NEW h \in Hilos, Intercambiar(h)
  PROVE  Tipos'
<1> USE DEF Tipos
<1> DEFINE e == est[h]
<1>1. EstadoTipado(e)
  BY DEF HilosTipados
<1>2. "espera" \in Pcs /\ FdLibre \in Nat
  BY TiposEsTypeOK, ConexionNueva DEF Pcs
<1>3. Mensaje(e) \in Mensajes
  BY <1>1, MensajeTipado
<1>4. e.fd \in Nat
  BY <1>1 DEF EstadoTipado, EstadosDeHilo
<1> HIDE DEF e
<1>5. ASSUME NEW fd \in Nat
      PROVE  /\ EstadoTipado([e EXCEPT !.fd = fd])
             /\ EstadoTipado([e EXCEPT !.fd = fd, !.propia = TRUE])
             /\ EstadoTipado([e EXCEPT !.fd = fd, !.propia = FALSE])
  BY <1>1 DEF EstadoTipado, EstadosDeHilo
<1>6. COMPONENTE_CAIDO \in Int
  BY DEF COMPONENTE_CAIDO
<1>7. CASE Enviar(h)
  <2>1. /\ conexion # COMPONENTE_CAIDO
        /\ LlegaALFS(h, conexion, Mensaje(e)) /\ Sigue(h, "espera", [e EXCEPT !.fd = conexion])
        /\ UNCHANGED <<cache, mutex, conexion, rotas, lfs, hora, vivo, pedidos, caidas, pisada>>
    BY <1>7 DEF Enviar, e
  <2>2. conexion \in Nat
    BY <2>1 DEF FSTipado
  <2>3. HilosTipados'
    BY <1>2, <1>5, <2>1, <2>2, SigueTipado
  <2>4. FSTipado' /\ RestoTipado'
    BY <1>3, <2>1, <2>2, EnviadoTipado
  <2> QED BY <2>1, <2>3, <2>4, CacheIgual, MutexIgual
<1>8. CASE EnviarReconectando(h)
  <2>1. /\ LlegaALFS(h, FdLibre, Mensaje(e))
        /\ Sigue(h, "espera", [e EXCEPT !.fd = FdLibre, !.propia = TRUE])
        /\ UNCHANGED <<cache, mutex, conexion, rotas, lfs, hora, vivo, pedidos, caidas, pisada>>
    BY <1>8 DEF EnviarReconectando, e
  <2>2. HilosTipados'
    BY <1>2, <1>5, <2>1, SigueTipado
  <2>3. FSTipado' /\ RestoTipado'
    BY <1>2, <1>3, <2>1, EnviadoTipado
  <2> QED BY <2>1, <2>2, <2>3, CacheIgual, MutexIgual
<1>9. CASE EnviarEnVano(h)
  <2>1. conexion \in Nat /\ Sigue(h, "espera", [e EXCEPT !.fd = conexion])
    BY <1>9 DEF EnviarEnVano, FSTipado, e
  <2>2. HilosTipados'
    BY <1>2, <1>5, <2>1, SigueTipado
  <2> QED BY <1>9, <2>2, CacheIgual, MutexIgual, FSIgual, RestoIgual DEF EnviarEnVano
<1>10. CASE FallarEnvio(h)
  <2>1. HilosTipados'
    BY <1>1, <1>10, FracasoTipado DEF FallarEnvio, e
  <2>2. FSTipado'
    BY <1>10 DEF FallarEnvio, FSTipado
  <2>3. vivo' \in BOOLEAN /\ UNCHANGED <<cache, mutex, hora, historia>>
    BY <1>10 DEF FallarEnvio
  <2> QED BY <2>1, <2>2, <2>3, CacheIgual, MutexIgual, RestoIgual
<1>11. CASE RecibirDeLFS(h)
  <2> DEFINE i == PrimeraDe(e.fd)
             d == deLFS[i]
             ajena == (d.para # h)
             f == [e EXCEPT !.fd = 0, !.propia = FALSE, !.ajena = ajena]
  <2>1. /\ i <= Len(deLFS) /\ deLFS' = RemoveAt(deLFS, i)
        /\ conexion' = IF e.propia THEN e.fd ELSE conexion
        /\ Atiende(h, d, f)
        /\ UNCHANGED <<cache, mutex, rotas, lfs, enLFS, hora, historia>>
    BY <1>11 DEF RecibirDeLFS, e
  <2>2. vivo' \in BOOLEAN
    BY <1>11 DEF RecibirDeLFS
  <2>3. i \in 1..Len(deLFS)
    BY <2>1, PrimeraEnCola
  <2>4. ajena \in BOOLEAN
    OBVIOUS
  <2> HIDE DEF i, ajena
  <2>5. d \in Respuestas /\ deLFS' \in Seq(Respuestas)
    BY <2>1, <2>3, RangoDeRemoveAt DEF FSTipado
  <2>6. EstadoTipado(f)
    BY <1>1, <2>4 DEF EstadoTipado, EstadosDeHilo
  <2> HIDE DEF d, f
  <2>7. HilosTipados'
    BY <2>1, <2>5, <2>6, AtiendeTipado
  <2>8. FSTipado'
    BY <1>4, <2>1, <2>5 DEF FSTipado
  <2> QED BY <2>1, <2>2, <2>7, <2>8, CacheIgual, MutexIgual, RestoIgual
<1>12. CASE RecibirCaida(h)
  <2>1. /\ conexion' = IF e.propia THEN e.fd ELSE COMPONENTE_CAIDO
        /\ Fracaso(h, [e EXCEPT !.fd = 0, !.propia = FALSE])
        /\ UNCHANGED <<cache, mutex, rotas, deLFS, lfs, enLFS, hora, vivo, historia>>
    BY <1>12 DEF RecibirCaida, e
  <2>2. HilosTipados'
    BY <1>5, <2>1, FracasoTipado
  <2>3. FSTipado'
    BY <1>4, <2>1 DEF FSTipado
  <2> QED BY <2>1, <2>2, <2>3, CacheIgual, MutexIgual, RestoIgual
<1> QED BY <1>7, <1>8, <1>9, <1>10, <1>11, <1>12 DEF Intercambiar

LEMMA CaerTipos == Tipos /\ CaerLFS => Tipos'
<1> SUFFICES ASSUME Tipos, CaerLFS PROVE Tipos'
  OBVIOUS
<1> USE DEF Tipos
<1> DEFINE fds == {est[h].fd : h \in Hilos}
           D == {conexion, est["kernel"].fd, est["consola"].fd, est["journal"].fd,
                 conexion, conexion}
<1>1. fds \subseteq Nat
  BY DEF HilosTipados, EstadosDeHilo
<1>2. rotas' = ({conexion} \cup fds) \ {COMPONENTE_CAIDO, 0}
  BY DEF CaerLFS
<1>3. rotas' \subseteq Nat
  BY <1>1, <1>2 DEF FSTipado
<1>4. IsFiniteSet(rotas')
  <2>1. rotas' \in SUBSET D
    BY <1>2, HilosAssumption
  <2>2. IsFiniteSet(D)
    BY ConjuntoFinito
  <2> QED BY <2>1, <2>2, FS_Subset
<1>5. deLFS' \in Seq(Respuestas)
  <2>1. PICK n \in 0..Len(deLFS) : deLFS' = SubSeq(deLFS, 1, n)
    BY DEF CaerLFS
  <2>2. deLFS \in Seq(Respuestas)
    BY DEF FSTipado
  <2> QED BY <2>1, <2>2
<1>6. lfs' \in BOOLEAN
  BY Zenon DEF CaerLFS
<1>7. FSTipado'
  BY <1>3, <1>4, <1>5, <1>6 DEF CaerLFS, FSTipado
<1>8. RestoTipado'
  <2>1. caidas' \in 0..MaxCaidas
    BY CotasAssumption DEF CaerLFS, RestoTipado
  <2> QED BY <2>1 DEF CaerLFS, RestoTipado
<1> QED BY <1>7, <1>8, CacheIgual, HilosIgual, MutexIgual DEF CaerLFS

LEMMA LevantarTipos == Tipos /\ LevantarLFS => Tipos'
<1> SUFFICES ASSUME Tipos, LevantarLFS PROVE Tipos'
  OBVIOUS
<1> USE DEF Tipos
<1>1. lfs' \in BOOLEAN
  BY Zenon DEF LevantarLFS
<1>2. FSTipado'
  BY <1>1 DEF LevantarLFS, FSTipado
<1> QED BY <1>2, CacheIgual, HilosIgual, MutexIgual, RestoIgual DEF LevantarLFS

\* An answer that two threads read in pieces.
LEMMA PartirDeja ==
  ASSUME HilosTipados, NEW h \in Hilos, PartirRespuesta(h) \/ RecibirPartida(h)
  PROVE  /\ UNCHANGED <<cache, mutex, conexion, rotas, lfs, enLFS, hora, historia>>
         /\ \A x \in Hilos : \/ est'[x] = est[x]
                             \/ est[x].pc = "espera" /\ est'[x] = [est[x] EXCEPT !.pc = "partida"]
<1>1. CASE PartirRespuesta(h)
  <2>1. PICK x \in Hilos \ {h} :
          /\ est[x].pc = "espera"
          /\ est' = [est EXCEPT ![h].pc = "partida", ![x].pc = "partida"]
    BY <1>1 DEF PartirRespuesta
  <2>2. est[h].pc = "espera"
    BY <1>1 DEF PartirRespuesta
  <2>3. \A y \in Hilos : est'[y] = IF y \in {h, x} THEN [est[y] EXCEPT !.pc = "partida"] ELSE est[y]
    BY <2>1 DEF HilosTipados
  <2> QED BY <1>1, <2>1, <2>2, <2>3 DEF PartirRespuesta
<1>2. CASE RecibirPartida(h)
  BY <1>2 DEF RecibirPartida, Invalido, fs
<1> QED BY <1>1, <1>2

LEMMA PartirTipos ==
  ASSUME Tipos, NEW h \in Hilos, PartirRespuesta(h) \/ RecibirPartida(h)
  PROVE  Tipos'
<1>1. CASE PartirRespuesta(h)
  <2>1. "partida" \in Pcs
    BY DEF Pcs
  <2>2. \A x \in Hilos : EstadoTipado(est[x]) => EstadoTipado([est[x] EXCEPT !.pc = "partida"])
    BY <2>1 DEF EstadoTipado, EstadosDeHilo
  <2>3. \A x \in Hilos : EstadoTipado(est'[x])
    BY <1>1, <2>2, PartirDeja DEF Tipos, HilosTipados
  <2>4. DOMAIN est' = Hilos /\ est' = [x \in DOMAIN est' |-> est'[x]]
    BY <1>1 DEF PartirRespuesta, Tipos, HilosTipados
  <2>5. HilosTipados'
    BY <2>3, <2>4 DEF HilosTipados, EstadoTipado
  <2>6. deLFS' \in Seq(Respuestas)
    <3>1. PrimeraDe(est[h].fd) \in 1..Len(deLFS)
      BY <1>1, PrimeraEnCola DEF PartirRespuesta, Tipos
    <3> QED BY <1>1, <3>1, RangoDeRemoveAt DEF PartirRespuesta, Tipos, FSTipado
  <2>7. FSTipado'
    BY <1>1, <2>6 DEF PartirRespuesta, Tipos, FSTipado
  <2> QED BY <1>1, <2>5, <2>7, CacheIgual, MutexIgual, RestoIgual DEF PartirRespuesta, Tipos
<1>2. CASE RecibirPartida(h)
  BY <1>2, CacheIgual, HilosIgual, MutexIgual, FSIgual, RestoIgual
     DEF RecibirPartida, Invalido, Tipos
<1> QED BY <1>1, <1>2

LEMMA IgualTipos == Tipos /\ UNCHANGED vars => Tipos'
BY CacheIgual, HilosIgual, MutexIgual, FSIgual, RestoIgual DEF Tipos, vars

LEMMA NextTipos == Tipos /\ [Next]_vars => Tipos'
<1> SUFFICES ASSUME Tipos, Next PROVE Tipos'
  BY IgualTipos
<1>1. ASSUME NEW h \in Clientes, NEW op \in Operaciones, NEW t \in Tablas, NEW k \in Claves,
             Recibir(h, op, t, k)
      PROVE  Tipos'
  BY <1>1, RecibirTipos
<1>2. ASSUME NEW h \in Hilos, Tomar(h) PROVE Tipos'
  BY <1>2, TomarTipos
<1>3. ASSUME NEW h \in Hilos, Avanzar(h) PROVE Tipos'
  BY <1>3, RequestTipos, BuscarTipos, ConseguirMarcoTipos, GuardarPaginaTipos,
     IntercambiarTipos, CrearYEliminarTipos, JournalTipos DEF Avanzar
<1>4. Caido => Tipos'
  BY IgualTipos DEF Caido
<1>5. ASSUME NEW h \in Hilos, PartirRespuesta(h) \/ RecibirPartida(h) PROVE Tipos'
  BY <1>5, PartirTipos
<1> QED BY <1>1, <1>2, <1>3, <1>4, <1>5, EmpezarJournalTipos, CaerTipos, LevantarTipos DEF Next

\* Whatever the tables, keys, frames, threads and requests: every variable
\* keeps its type, every page is in a segment there is and in a frame, and the
\* numbers that the code gets from malloc and the kernel are always there.
THEOREM TiposDeMemoria == Spec => [](TypeOK /\ PaginasInv)
<1>1. Tipos => TypeOK /\ PaginasInv
  BY TiposEsTypeOK
<1> QED BY <1>1, InitTipos, NextTipos, PTL DEF Spec

------------------------------------------------------------------------------
(* What the step of a thread that serves a request leaves alone.           *)

\* It keeps its request and the mutexes, does not touch the other threads, and
\* only a JOURNAL goes through the pages.
Prosigue(h) ==
  /\ mutex' = mutex
  /\ \A x \in Hilos \ {h} : est'[x] = est[x]
  /\ est'[h].op = est[h].op /\ est'[h].pc \notin {"ocioso", "toma"}
  /\ est'[h].pc = "recorre" => est[h].op = "JOURNAL"
  /\ UNCHANGED <<rotas, lfs, caidas>>

\* The part of Prosigue that Sigue gives.
LEMMA SigueProsigue ==
  ASSUME HilosTipados, NEW h \in Hilos, NEW pc \in Pcs, NEW e, EstadoTipado(e),
         Sigue(h, pc, e)
  PROVE  /\ \A x \in Hilos \ {h} : est'[x] = est[x]
         /\ est'[h].op = e.op /\ est'[h].pc = pc
         /\ est'[h].visitadas = e.visitadas /\ est'[h].i = e.i
         /\ est'[h].tabla = e.tabla /\ est'[h].key = e.key /\ est'[h].ts = e.ts
<1>1. /\ est'[h] = [e EXCEPT !.pc = pc]
      /\ \A x \in Hilos \ {h} : est'[x] = est[x]
  BY SigueTipado
<1>2. e \in EstadosDeHilo
  BY DEF EstadoTipado
<1> QED BY <1>1, <1>2 DEF EstadosDeHilo

LEMMA RespondeProsigue ==
  ASSUME HilosTipados, NEW h \in Hilos, NEW cod \in Codigos, NEW e, EstadoTipado(e),
         Responde(h, cod, e)
  PROVE  /\ \A x \in Hilos \ {h} : est'[x] = est[x]
         /\ est'[h].op = e.op /\ est'[h].pc = "responde"
         /\ est'[h].visitadas = e.visitadas
<1> DEFINE f == [e EXCEPT !.cod = cod]
<1>1. EstadoTipado(f) /\ f.op = e.op /\ f.visitadas = e.visitadas
  BY DEF EstadoTipado, EstadosDeHilo
<1>2. Sigue(h, "responde", f) /\ "responde" \in Pcs
  BY DEF Responde, Pcs
<1> HIDE DEF f
<1> QED BY <1>1, <1>2, SigueProsigue

LEMMA BuscarProsigue ==
  ASSUME Tipos, NEW h \in Hilos, Buscar(h)
  PROVE  Prosigue(h) /\ est[h].pc \in {"busca", "buscaPagina"}
<1> DEFINE e == est[h]
<1>1. HilosTipados /\ EstadoTipado(e) /\ CacheTipada
  BY DEF Tipos, HilosTipados
<1>2. {"envia", "pideMarco", "buscaPagina"} \subseteq Pcs /\ "SUCCESS" \in Codigos
  BY DEF Pcs, Codigos
<1> HIDE DEF e
<1>3. ASSUME DespuesDeBuscar(h, e)
      PROVE  /\ \A x \in Hilos \ {h} : est'[x] = est[x]
             /\ est'[h].op = e.op /\ est'[h].pc \in {"envia", "pideMarco"}
  BY <1>1, <1>2, <1>3, SigueProsigue DEF DespuesDeBuscar
<1>4. CASE BuscarSegmento(h)
  <2> DEFINE s == Segmento(e.tabla)
             f == [e EXCEPT !.seg = s]
  <2>1. s \in Nat
    BY <1>1, SegmentoTipado
  <2>2. DespuesDeBuscar(h, e) \/ Sigue(h, "buscaPagina", f)
    BY <1>4 DEF BuscarSegmento, e
  <2> HIDE DEF s
  <2>3. EstadoTipado(f) /\ f.op = e.op
    BY <1>1, <2>1 DEF EstadoTipado, EstadosDeHilo
  <2> HIDE DEF f
  <2>4. /\ \A x \in Hilos \ {h} : est'[x] = est[x]
        /\ est'[h].op = e.op /\ est'[h].pc \in {"envia", "pideMarco", "buscaPagina"}
    BY <1>1, <1>2, <1>3, <2>2, <2>3, SigueProsigue
  <2> QED BY <1>4, <2>4 DEF BuscarSegmento, Prosigue, fs, historia, e
<1>5. CASE SegmentoLiberado(h)
  BY <1>5 DEF SegmentoLiberado, Invalido, Prosigue, fs, historia
<1>6. CASE FaltaPagina(h)
  BY <1>3, <1>6 DEF FaltaPagina, Prosigue, fs, historia, e
<1>7. CASE LeerPagina(h)
  <2>1. PICK p \in PaginasDe(e.seg, e.key) :
          Responde(h, "SUCCESS", [e EXCEPT !.valor = marcos[p.marco].valor])
    BY <1>7 DEF LeerPagina, e
  <2> DEFINE v == marcos[p.marco].valor
             f == [e EXCEPT !.valor = v]
  <2>2. v \in Valores
    BY <1>1 DEF PaginasDe, CacheTipada, TipoDePagina
  <2>3. Responde(h, "SUCCESS", f)
    BY <2>1
  <2> HIDE DEF v
  <2>4. EstadoTipado(f) /\ f.op = e.op
    BY <1>1, <2>2 DEF EstadoTipado, EstadosDeHilo
  <2> HIDE DEF f
  <2>5. /\ \A x \in Hilos \ {h} : est'[x] = est[x]
        /\ est'[h].op = e.op /\ est'[h].pc = "responde"
    BY <1>1, <1>2, <2>3, <2>4, RespondeProsigue
  <2> QED BY <1>7, <2>5 DEF LeerPagina, Prosigue, fs, historia, e
<1>8. CASE ActualizarPagina(h)
  <2>1. /\ \A x \in Hilos \ {h} : est'[x] = est[x]
        /\ est'[h].op = e.op /\ est'[h].pc = "responde"
    BY <1>1, <1>2, <1>8, RespondeProsigue DEF ActualizarPagina, e
  <2> QED BY <1>8, <2>1 DEF ActualizarPagina, Prosigue, fs, e
<1> QED BY <1>4, <1>5, <1>6, <1>7, <1>8 DEF Buscar

LEMMA ConseguirMarcoProsigue ==
  ASSUME Tipos, NEW h \in Hilos, ConseguirMarco(h)
  PROVE  Prosigue(h) /\ est[h].pc \in {"pideMarco", "eligeVictima", "desvincula"}
<1> DEFINE e == est[h]
<1>1. HilosTipados /\ EstadoTipado(e) /\ CacheTipada /\ RestoTipado
  BY DEF Tipos, HilosTipados
<1>2. {"guarda", "eligeVictima", "desvincula"} \subseteq Pcs /\ "MEMORIA_FULL" \in Codigos
  BY DEF Pcs, Codigos
<1> HIDE DEF e
<1>3. CASE PedirMarco(h)
  <2> DEFINE ts == IF e.op = "INSERT" THEN hora + 1 ELSE e.ts
             f == [e EXCEPT !.ts = ts]
             m == Min(Marcos \ bits)
  <2>1. ts \in Horas
    BY <1>1 DEF EstadoTipado, EstadosDeHilo, Horas, RestoTipado
  <2> HIDE DEF ts
  <2>2. EstadoTipado(f) /\ f.op = e.op
    BY <1>1, <2>1 DEF EstadoTipado, EstadosDeHilo
  <2>3. bits # Marcos => m \in Marcos
    <3>1. Marcos \ bits \subseteq Nat /\ (bits # Marcos => Marcos \ bits # {})
      BY <1>1, MarcosAssumption DEF Marcos, CacheTipada
    <3> QED BY <3>1, HayMinimo
  <2> HIDE DEF m
  <2>4. /\ bits # Marcos => Sigue(h, "guarda", [f EXCEPT !.marco = m])
        /\ bits = Marcos => Sigue(h, "eligeVictima", f)
    BY <1>1, <1>3, HayLibres DEF PedirMarco, MarcosLibres, e, ts, m
  <2> HIDE DEF f
  <2> DEFINE g == [f EXCEPT !.marco = m]
  <2>5. bits # Marcos => EstadoTipado(g) /\ g.op = f.op
    BY <2>2, <2>3 DEF EstadoTipado, EstadosDeHilo
  <2>6. /\ \A x \in Hilos \ {h} : est'[x] = est[x]
        /\ est'[h].op = e.op /\ est'[h].pc \in {"guarda", "eligeVictima"}
    <3>1. CASE bits = Marcos
      BY <1>1, <1>2, <2>2, <2>4, <3>1, SigueProsigue
    <3>2. CASE bits # Marcos
      <4>1. Sigue(h, "guarda", g)
        BY <2>4, <3>2
      <4> HIDE DEF g
      <4> QED BY <1>1, <1>2, <2>2, <2>5, <3>2, <4>1, SigueProsigue
    <3> QED BY <3>1, <3>2
  <2> QED BY <1>3, <2>6 DEF PedirMarco, Prosigue, fs, historia, e
<1>4. CASE ElegirVictima(h)
  <2>1. PICK p \in Victimas :
          Sigue(h, "desvincula", [e EXCEPT !.victima = p.seg, !.marco = p.marco])
    BY <1>4 DEF ElegirVictima, e
  <2> DEFINE f == [e EXCEPT !.victima = p.seg, !.marco = p.marco]
  <2>2. p.seg \in Nat /\ p.marco \in Marcos
    BY <1>1 DEF Victimas, SinModificar, CacheTipada, TipoDePagina
  <2>3. EstadoTipado(f) /\ f.op = e.op
    BY <1>1, <2>2 DEF EstadoTipado, EstadosDeHilo
  <2>4. Sigue(h, "desvincula", f)
    BY <2>1
  <2> HIDE DEF f
  <2>5. /\ \A x \in Hilos \ {h} : est'[x] = est[x]
        /\ est'[h].op = e.op /\ est'[h].pc = "desvincula"
    BY <1>1, <1>2, <2>3, <2>4, SigueProsigue
  <2> QED BY <1>4, <2>5 DEF ElegirVictima, Prosigue, fs, historia, e
<1>5. CASE MemoriaFull(h)
  <2>1. /\ \A x \in Hilos \ {h} : est'[x] = est[x]
        /\ est'[h].op = e.op /\ est'[h].pc = "responde"
    BY <1>1, <1>2, <1>5, RespondeProsigue DEF MemoriaFull, e
  <2> QED BY <1>5, <2>1 DEF MemoriaFull, Prosigue, fs, historia, e
<1>6. CASE Desvincular(h)
  <2>1. /\ \A x \in Hilos \ {h} : est'[x] = est[x]
        /\ est'[h].op = e.op /\ est'[h].pc = "guarda"
    BY <1>1, <1>2, <1>6, SigueProsigue DEF Desvincular, e
  <2> QED BY <1>6, <2>1 DEF Desvincular, Prosigue, fs, historia, e
<1>7. CASE VictimaLiberada(h)
  BY <1>7 DEF VictimaLiberada, Invalido, Prosigue, fs, historia
<1> QED BY <1>3, <1>4, <1>5, <1>6, <1>7 DEF ConseguirMarco

LEMMA GuardarPaginaProsigue ==
  ASSUME Tipos, NEW h \in Hilos, GuardarPagina(h)
  PROVE  Prosigue(h) /\ est[h].pc = "guarda"
<1> DEFINE e == est[h]
<1>1. HilosTipados /\ EstadoTipado(e) /\ "SUCCESS" \in Codigos
  BY DEF Tipos, HilosTipados, Codigos
<1> HIDE DEF e
<1>2. ASSUME Responde(h, "SUCCESS", e)
      PROVE  /\ \A x \in Hilos \ {h} : est'[x] = est[x]
             /\ est'[h].op = e.op /\ est'[h].pc = "responde"
  BY <1>1, <1>2, RespondeProsigue
<1>3. ASSUME NEW s, Escribe(h, s, e), e.pc = "guarda"
      PROVE  Prosigue(h)
  BY <1>2, <1>3 DEF Escribe, Prosigue, fs, e
<1>4. CASE GuardarEnSegmento(h)
  BY <1>3, <1>4 DEF GuardarEnSegmento, e
<1>5. CASE GuardarSinSegmento(h)
  <2>1. CASE e.op = "INSERT"
    BY <1>5, <2>1 DEF GuardarSinSegmento, Invalido, Prosigue, fs, historia, e
  <2>2. CASE e.op # "INSERT"
    <3>1. /\ Responde(h, "SUCCESS", e) /\ e.pc = "guarda"
          /\ UNCHANGED <<segmentos, paginas, mutex, fs, vivo, historia>>
      BY <1>5, <2>2 DEF GuardarSinSegmento, e
    <3> QED BY <1>2, <3>1 DEF Prosigue, fs, historia, e
  <2> QED BY <2>1, <2>2
<1>6. CASE GuardarEnNuevo(h)
  BY <1>3, <1>6 DEF GuardarEnNuevo, e
<1>7. CASE GuardarVictimaIntacta(h)
  BY <1>2, <1>7 DEF GuardarVictimaIntacta, Prosigue, fs, e
<1> QED BY <1>4, <1>5, <1>6, <1>7 DEF GuardarPagina

LEMMA CrearYEliminarProsigue ==
  ASSUME Tipos, NEW h \in Hilos, CrearYEliminar(h)
  PROVE  Prosigue(h) /\ est[h].pc \in {"crea", "creaSegmento", "elimina"}
<1> DEFINE e == est[h]
<1>1. HilosTipados /\ EstadoTipado(e) /\ e.cod \in Codigos
  BY DEF Tipos, HilosTipados, EstadoTipado, EstadosDeHilo
<1>2. "creaSegmento" \in Pcs /\ "SUCCESS" \in Codigos
  BY DEF Pcs, Codigos
<1> HIDE DEF e
<1>3. CASE BuscarAntesDeCrear(h)
  <2>1. /\ \A x \in Hilos \ {h} : est'[x] = est[x]
        /\ est'[h].op = e.op /\ est'[h].pc \in {"creaSegmento", "responde"}
    BY <1>1, <1>2, <1>3, SigueProsigue, RespondeProsigue DEF BuscarAntesDeCrear, e
  <2> QED BY <1>3, <2>1 DEF BuscarAntesDeCrear, Prosigue, fs, historia, e
<1>4. CASE CrearSegmento(h)
  <2>1. /\ \A x \in Hilos \ {h} : est'[x] = est[x]
        /\ est'[h].op = e.op /\ est'[h].pc = "responde"
    BY <1>1, <1>2, <1>4, RespondeProsigue DEF CrearSegmento, e
  <2> QED BY <1>4, <2>1 DEF CrearSegmento, Prosigue, fs, historia, e
<1>5. CASE EliminarSegmento(h)
  <2>1. /\ \A x \in Hilos \ {h} : est'[x] = est[x]
        /\ est'[h].op = e.op /\ est'[h].pc = "responde"
    BY <1>1, <1>2, <1>5, RespondeProsigue DEF EliminarSegmento, e
  <2> QED BY <1>5, <2>1 DEF EliminarSegmento, Prosigue, fs, historia, e
<1> QED BY <1>3, <1>4, <1>5 DEF CrearYEliminar

\* What a page of a journal becomes.
LEMMA TomarPaginaSigue ==
  ASSUME Tipos, NEW h \in Hilos, TomarPagina(h)
  PROVE  \E p \in PorEnviar(h) :
           /\ \A x \in Hilos \ {h} : est'[x] = est[x]
           /\ est'[h].op = est[h].op /\ est'[h].pc = "envia"
           /\ est'[h].visitadas = est[h].visitadas \cup {p}
           /\ est'[h].tabla = TablaDelSegmento(p.seg)
           /\ est'[h].key = marcos[p.marco].key /\ est'[h].ts = marcos[p.marco].timestamp
<1> DEFINE e == est[h]
<1>1. HilosTipados /\ EstadoTipado(e) /\ CacheTipada
  BY DEF Tipos, HilosTipados
<1> HIDE DEF e
<1>2. PICK p \in PorEnviar(h) :
         Sigue(h, "envia",
           [e EXCEPT !.tabla = TablaDelSegmento(p.seg), !.key = marcos[p.marco].key,
                     !.valor = marcos[p.marco].valor, !.ts = marcos[p.marco].timestamp,
                     !.visitadas = @ \cup {p}])
  BY DEF TomarPagina, e
<1> DEFINE t == TablaDelSegmento(p.seg)
           m == marcos[p.marco]
           v == e.visitadas \cup {p}
           f == [e EXCEPT !.tabla = t, !.key = m.key, !.valor = m.valor, !.ts = m.timestamp,
                          !.visitadas = v]
<1>3. p \in TipoDePagina /\ p.seg \in EnUso
  BY <1>1 DEF PorEnviar, CacheTipada
<1>4. t \in Tablas
  BY <1>1, <1>3, TablaDelSegmentoTipada
<1>5. m \in [key : Claves, valor : Valores, timestamp : Horas]
  BY <1>1, <1>3 DEF CacheTipada, TipoDePagina
<1>6. v \in SUBSET TipoDePagina
  BY <1>1, <1>3 DEF EstadoTipado, EstadosDeHilo
<1> HIDE DEF t, m
<1>7. Sigue(h, "envia", f)
  BY <1>2 DEF t, m
<1> HIDE DEF v
<1>8. /\ EstadoTipado(f) /\ f.op = e.op /\ f.visitadas = v
      /\ f.tabla = t /\ f.key = m.key /\ f.ts = m.timestamp
  BY <1>1, <1>4, <1>5, <1>6 DEF EstadoTipado, EstadosDeHilo
<1> HIDE DEF f
<1>9. /\ \A x \in Hilos \ {h} : est'[x] = est[x]
      /\ est'[h].op = e.op /\ est'[h].pc = "envia" /\ est'[h].visitadas = v
      /\ est'[h].tabla = t /\ est'[h].key = m.key /\ est'[h].ts = m.timestamp
  BY <1>1, <1>7, <1>8, SigueProsigue DEF Pcs
<1> QED BY <1>9 DEF t, m, v, e

LEMMA JournalProsigue ==
  ASSUME Tipos, NEW h \in Hilos, Journal(h)
  PROVE  Prosigue(h) /\ est[h].pc = "recorre"
<1>1. CASE TomarPagina(h)
  BY <1>1, TomarPaginaSigue DEF TomarPagina, Prosigue, fs, historia
<1>2. CASE Limpiar(h)
  <2>1. HilosTipados /\ EstadoTipado(est[h])
    BY DEF Tipos, HilosTipados
  <2>2. PICK cod \in Codigos : Responde(h, cod, est[h])
    BY <1>2 DEF Limpiar, Codigos
  <2>3. /\ \A x \in Hilos \ {h} : est'[x] = est[x]
        /\ est'[h].op = est[h].op /\ est'[h].pc = "responde"
    BY <2>1, <2>2, RespondeProsigue
  <2> QED BY <1>2, <2>3 DEF Limpiar, Prosigue, fs, historia
<1> QED BY <1>1, <1>2 DEF Journal

\* The exchange also leaves what the journal has visited.
LEMMA FracasoProsigue ==
  ASSUME HilosTipados, NEW h \in Hilos, NEW e, EstadoTipado(e), Fracaso(h, e)
  PROVE  /\ \A x \in Hilos \ {h} : est'[x] = est[x]
         /\ est'[h].op = e.op /\ est'[h].pc \in {"recorre", "responde"}
         /\ est'[h].pc = "recorre" => e.op = "JOURNAL"
         /\ est'[h].visitadas = e.visitadas
<1> DEFINE f == [e EXCEPT !.cod = "NUESTRO_ERROR"]
<1>1. EstadoTipado(f) /\ f.op = e.op /\ f.visitadas = e.visitadas
  BY DEF EstadoTipado, EstadosDeHilo, Codigos
<1>2. "recorre" \in Pcs /\ "LFS_CAIDO" \in Codigos
  BY DEF Pcs, Codigos
<1>3. CASE e.op = "JOURNAL"
  <2>1. Sigue(h, "recorre", f)
    BY <1>3 DEF Fracaso
  <2> HIDE DEF f
  <2> QED BY <1>1, <1>2, <1>3, <2>1, SigueProsigue
<1>4. CASE e.op # "JOURNAL"
  <2>1. Responde(h, "LFS_CAIDO", e)
    BY <1>4 DEF Fracaso
  <2> QED BY <1>2, <1>4, <2>1, RespondeProsigue
<1> QED BY <1>3, <1>4

LEMMA AtiendeProsigue ==
  ASSUME HilosTipados, NEW h \in Hilos, NEW d \in Respuestas, NEW e, EstadoTipado(e),
         Atiende(h, d, e)
  PROVE  /\ \A x \in Hilos \ {h} : est'[x] = est[x]
         /\ est'[h].op = e.op
         /\ est'[h].pc \in {"recorre", "pideMarco", "crea", "elimina", "responde"}
         /\ est'[h].pc = "recorre" => e.op = "JOURNAL"
         /\ e.op = "JOURNAL" => est'[h].pc = "recorre"
         /\ est'[h].visitadas = e.visitadas
<1>1. /\ d.cod \in Codigos /\ d.tabla \in Tablas /\ d.key \in Claves
      /\ d.valor \in Valores /\ d.ts \in Horas
  BY DEF Respuestas
<1>2. {"recorre", "pideMarco", "crea", "elimina"} \subseteq Pcs
  BY DEF Pcs
<1>3. CASE e.op = "JOURNAL"
  <2> DEFINE c == IF d.cod \in {"SUCCESS", "TABLA_NO_EXISTE"} THEN "SUCCESS" ELSE "NUESTRO_ERROR"
             f == [e EXCEPT !.cod = c]
  <2>1. c \in Codigos
    BY DEF Codigos
  <2>2. Sigue(h, "recorre", f)
    BY <1>3 DEF Atiende
  <2> HIDE DEF c
  <2>3. EstadoTipado(f) /\ f.op = e.op /\ f.visitadas = e.visitadas
    BY <2>1 DEF EstadoTipado, EstadosDeHilo
  <2> HIDE DEF f
  <2> QED BY <1>2, <1>3, <2>2, <2>3, SigueProsigue
<1>4. CASE e.op = "SELECT" /\ d.cod = "SUCCESS"
  <2> DEFINE f == [e EXCEPT !.tabla = d.tabla, !.key = d.key, !.valor = d.valor, !.ts = d.ts]
  <2>1. Sigue(h, "pideMarco", f)
    BY <1>4 DEF Atiende
  <2>2. EstadoTipado(f) /\ f.op = e.op /\ f.visitadas = e.visitadas
    BY <1>1 DEF EstadoTipado, EstadosDeHilo
  <2> HIDE DEF f
  <2> QED BY <1>2, <1>4, <2>1, <2>2, SigueProsigue
<1>5. CASE e.op = "CREATE"
  <2>1. Sigue(h, "crea", e)
    BY <1>5 DEF Atiende
  <2> QED BY <1>2, <1>5, <2>1, SigueProsigue
<1>6. CASE e.op = "DROP" /\ e.ec
  <2> DEFINE f == [e EXCEPT !.cod = d.cod]
  <2>1. Sigue(h, "elimina", f)
    BY <1>6 DEF Atiende
  <2>2. EstadoTipado(f) /\ f.op = e.op /\ f.visitadas = e.visitadas
    BY <1>1 DEF EstadoTipado, EstadosDeHilo
  <2> HIDE DEF f
  <2> QED BY <1>2, <1>6, <2>1, <2>2, SigueProsigue
<1>7. CASE /\ e.op # "JOURNAL" /\ ~(e.op = "SELECT" /\ d.cod = "SUCCESS")
           /\ e.op # "CREATE" /\ ~(e.op = "DROP" /\ e.ec)
  <2>1. Responde(h, d.cod, e)
    BY <1>7, Zenon DEF Atiende
  <2> QED BY <1>1, <1>7, <2>1, RespondeProsigue
<1> QED BY <1>3, <1>4, <1>5, <1>6, <1>7

LEMMA IntercambiarProsigue ==
  ASSUME Tipos, NEW h \in Hilos, Intercambiar(h)
  PROVE  /\ Prosigue(h) /\ est[h].pc \in {"envia", "espera"}
         /\ est'[h].visitadas = est[h].visitadas
         /\ est[h].op = "JOURNAL" => est'[h].pc \in {"espera", "recorre"}
         /\ est'[h].pc # "envia"
<1> DEFINE e == est[h]
<1>1. HilosTipados /\ EstadoTipado(e) /\ FSTipado
  BY DEF Tipos, HilosTipados
<1>2. "espera" \in Pcs /\ FdLibre \in Nat
  BY TiposEsTypeOK, ConexionNueva DEF Pcs
<1> HIDE DEF e
<1>3. ASSUME NEW fd \in Nat, NEW b \in BOOLEAN, Sigue(h, "espera", [e EXCEPT !.fd = fd, !.propia = b])
      PROVE  /\ \A x \in Hilos \ {h} : est'[x] = est[x]
             /\ est'[h].op = e.op /\ est'[h].pc = "espera" /\ est'[h].visitadas = e.visitadas
  <2> DEFINE f == [e EXCEPT !.fd = fd, !.propia = b]
  <2>1. EstadoTipado(f) /\ f.op = e.op /\ f.visitadas = e.visitadas
    BY <1>1 DEF EstadoTipado, EstadosDeHilo
  <2>2. Sigue(h, "espera", f)
    BY <1>3
  <2> HIDE DEF f
  <2> QED BY <1>1, <1>2, <2>1, <2>2, SigueProsigue
<1>4. ASSUME NEW fd \in Nat, Sigue(h, "espera", [e EXCEPT !.fd = fd])
      PROVE  /\ \A x \in Hilos \ {h} : est'[x] = est[x]
             /\ est'[h].op = e.op /\ est'[h].pc = "espera" /\ est'[h].visitadas = e.visitadas
  <2> DEFINE f == [e EXCEPT !.fd = fd]
  <2>1. EstadoTipado(f) /\ f.op = e.op /\ f.visitadas = e.visitadas
    BY <1>1 DEF EstadoTipado, EstadosDeHilo
  <2>2. Sigue(h, "espera", f)
    BY <1>4
  <2> HIDE DEF f
  <2> QED BY <1>1, <1>2, <2>1, <2>2, SigueProsigue
<1>5. CASE Enviar(h)
  <2>1. /\ conexion \in Nat /\ Sigue(h, "espera", [e EXCEPT !.fd = conexion])
    BY <1>1, <1>5 DEF Enviar, FSTipado, e
  <2>2. /\ \A x \in Hilos \ {h} : est'[x] = est[x]
        /\ est'[h].op = e.op /\ est'[h].pc = "espera" /\ est'[h].visitadas = e.visitadas
    BY <1>4, <2>1
  <2> QED BY <1>5, <2>2 DEF Enviar, Prosigue, e
<1>6. CASE EnviarReconectando(h)
  <2>1. Sigue(h, "espera", [e EXCEPT !.fd = FdLibre, !.propia = TRUE])
    BY <1>6 DEF EnviarReconectando, e
  <2>2. /\ \A x \in Hilos \ {h} : est'[x] = est[x]
        /\ est'[h].op = e.op /\ est'[h].pc = "espera" /\ est'[h].visitadas = e.visitadas
    BY <1>2, <1>3, <2>1
  <2> QED BY <1>6, <2>2 DEF EnviarReconectando, Prosigue, e
<1>7. CASE EnviarEnVano(h)
  <2>1. conexion \in Nat /\ Sigue(h, "espera", [e EXCEPT !.fd = conexion])
    BY <1>1, <1>7 DEF EnviarEnVano, FSTipado, e
  <2>2. /\ \A x \in Hilos \ {h} : est'[x] = est[x]
        /\ est'[h].op = e.op /\ est'[h].pc = "espera" /\ est'[h].visitadas = e.visitadas
    BY <1>4, <2>1
  <2> QED BY <1>7, <2>2 DEF EnviarEnVano, Prosigue, fs, historia, e
<1>8. CASE FallarEnvio(h)
  <2>1. Fracaso(h, e)
    BY <1>8 DEF FallarEnvio, e
  <2>2. /\ \A x \in Hilos \ {h} : est'[x] = est[x]
        /\ est'[h].op = e.op /\ est'[h].pc \in {"recorre", "responde"}
        /\ est'[h].pc = "recorre" => e.op = "JOURNAL"
        /\ est'[h].visitadas = e.visitadas
    BY <1>1, <2>1, FracasoProsigue
  <2>3. e.op = "JOURNAL" => est'[h].pc = "recorre"
    <3> SUFFICES ASSUME e.op = "JOURNAL" PROVE est'[h].pc = "recorre"
      OBVIOUS
    <3>1. Sigue(h, "recorre", [e EXCEPT !.cod = "NUESTRO_ERROR"])
      BY <2>1 DEF Fracaso
    <3>2. EstadoTipado([e EXCEPT !.cod = "NUESTRO_ERROR"]) /\ "recorre" \in Pcs
      BY <1>1 DEF EstadoTipado, EstadosDeHilo, Codigos, Pcs
    <3> QED BY <1>1, <3>1, <3>2, SigueProsigue
  <2> QED BY <1>8, <2>2, <2>3 DEF FallarEnvio, Prosigue, historia, e
<1>9. CASE RecibirDeLFS(h)
  <2> DEFINE i == PrimeraDe(e.fd)
             d == deLFS[i]
             ajena == (d.para # h)
             f == [e EXCEPT !.fd = 0, !.propia = FALSE, !.ajena = ajena]
  <2>1. i <= Len(deLFS) /\ Atiende(h, d, f) /\ e.pc = "espera"
    BY <1>9 DEF RecibirDeLFS, e
  <2>2. i \in 1..Len(deLFS)
    BY <1>1, <2>1, PrimeraEnCola
  <2>3. ajena \in BOOLEAN
    OBVIOUS
  <2> HIDE DEF i, ajena
  <2>4. d \in Respuestas
    BY <1>1, <2>2 DEF FSTipado
  <2>5. EstadoTipado(f) /\ f.op = e.op /\ f.visitadas = e.visitadas
    BY <1>1, <2>3 DEF EstadoTipado, EstadosDeHilo
  <2> HIDE DEF d, f
  <2>6. /\ \A x \in Hilos \ {h} : est'[x] = est[x]
        /\ est'[h].op = e.op
        /\ est'[h].pc \in {"recorre", "pideMarco", "crea", "elimina", "responde"}
        /\ est'[h].pc = "recorre" => e.op = "JOURNAL"
        /\ e.op = "JOURNAL" => est'[h].pc = "recorre"
        /\ est'[h].visitadas = e.visitadas
    BY <1>1, <2>1, <2>4, <2>5, AtiendeProsigue
  <2>7. UNCHANGED <<mutex, rotas, lfs, caidas>>
    BY <1>9 DEF RecibirDeLFS, historia
  <2> QED BY <2>1, <2>6, <2>7 DEF Prosigue, e
<1>10. CASE RecibirCaida(h)
  <2> DEFINE f == [e EXCEPT !.fd = 0, !.propia = FALSE]
  <2>1. Fracaso(h, f) /\ e.pc = "espera" /\ UNCHANGED <<mutex, rotas, lfs, caidas>>
    BY <1>10 DEF RecibirCaida, historia, e
  <2>2. EstadoTipado(f) /\ f.op = e.op /\ f.visitadas = e.visitadas
    BY <1>1 DEF EstadoTipado, EstadosDeHilo
  <2> HIDE DEF f
  <2>3. /\ \A x \in Hilos \ {h} : est'[x] = est[x]
        /\ est'[h].op = e.op /\ est'[h].pc \in {"recorre", "responde"}
        /\ est'[h].pc = "recorre" => e.op = "JOURNAL"
        /\ est'[h].visitadas = e.visitadas
    BY <1>1, <2>1, <2>2, FracasoProsigue
  <2>4. e.op = "JOURNAL" => est'[h].pc = "recorre"
    <3> SUFFICES ASSUME e.op = "JOURNAL" PROVE est'[h].pc = "recorre"
      OBVIOUS
    <3>1. Sigue(h, "recorre", [f EXCEPT !.cod = "NUESTRO_ERROR"])
      BY <2>1, <2>2 DEF Fracaso
    <3>2. EstadoTipado([f EXCEPT !.cod = "NUESTRO_ERROR"]) /\ "recorre" \in Pcs
      BY <2>2 DEF EstadoTipado, EstadosDeHilo, Codigos, Pcs
    <3> QED BY <1>1, <3>1, <3>2, SigueProsigue
  <2> QED BY <2>1, <2>3, <2>4 DEF Prosigue, e
<1> QED BY <1>5, <1>6, <1>7, <1>8, <1>9, <1>10 DEF Intercambiar

LEMMA RequestProsigue ==
  ASSUME Tipos, NEW h \in Hilos, RechazarValor(h) \/ Responder(h)
  PROVE  /\ Prosigue(h) /\ est'[h].pc \in {"responde", "suelta"}
         /\ est[h].pc \in {"busca", "responde"}
         /\ est[h].pc = "busca" => est[h].op = "INSERT"
<1>1. HilosTipados /\ EstadoTipado(est[h])
  BY DEF Tipos, HilosTipados
<1>2. CASE RechazarValor(h)
  <2>1. /\ \A x \in Hilos \ {h} : est'[x] = est[x]
        /\ est'[h].op = est[h].op /\ est'[h].pc = "responde"
    BY <1>1, <1>2, RespondeProsigue DEF RechazarValor, Codigos
  <2> QED BY <1>2, <2>1 DEF RechazarValor, Prosigue, fs, historia
<1>3. CASE Responder(h)
  <2> DEFINE e == [Ocioso EXCEPT !.op = est[h].op]
  <2>1. EstadoTipado(e) /\ e.op = est[h].op
    BY <1>1, ElOcioso DEF EstadoTipado, EstadosDeHilo, Ocioso
  <2>2. Sigue(h, "suelta", e) /\ "suelta" \in Pcs
    BY <1>3 DEF Responder, Pcs
  <2> HIDE DEF e
  <2>3. /\ \A x \in Hilos \ {h} : est'[x] = est[x]
        /\ est'[h].op = est[h].op /\ est'[h].pc = "suelta"
    BY <1>1, <2>1, <2>2, SigueProsigue
  <2> QED BY <1>3, <2>3 DEF Responder, Prosigue, fs, historia
<1> QED BY <1>2, <1>3

\* A thread that goes on keeps what it has, until it gives it all back.
LEMMA AvanzarProsigue ==
  ASSUME Tipos, NEW h \in Hilos, Avanzar(h)
  PROVE  Sirviendo(h) /\ (Prosigue(h) \/ Soltar(h))
BY RequestProsigue, BuscarProsigue, ConseguirMarcoProsigue, GuardarPaginaProsigue,
   IntercambiarProsigue, CrearYEliminarProsigue, JournalProsigue
   DEF Avanzar, Sirviendo, Soltar

------------------------------------------------------------------------------
(* The mutexes: a journal serves alone.                                    *)

LEMMA MutexDeIgual ==
  ASSUME NEW x, est'[x].op = est[x].op
  PROVE  MutexDe(x)' = MutexDe(x)
BY DEF MutexDe

\* Each mutex of a request is one of the three.
LEMMA SonMutex ==
  ASSUME NEW h \in Hilos, NEW j \in 1..Len(MutexDe(h))
  PROVE  MutexDe(h)[j] \in {"kernel", "consola", "journal"}
<1>1. h \in {"kernel", "consola", "journal"}
  BY HilosAssumption
<1>2. CASE est[h].op = "JOURNAL"
  <2>1. MutexDe(h) = <<"kernel", "consola", "journal">> /\ j \in 1..3
    BY <1>2 DEF MutexDe
  <2> QED BY <2>1
<1>3. CASE est[h].op # "JOURNAL"
  <2>1. MutexDe(h) = <<h>> /\ j \in 1..1
    BY <1>3 DEF MutexDe
  <2>2. j = 1
    BY <2>1
  <2> QED BY <1>1, <2>1, <2>2
<1> QED BY <1>2, <1>3

LEMMA NadieNoEsHilo == NADIE \notin Hilos
BY HilosAssumption DEF NADIE

LEMMA InitMutexInv == Init => MutexInv
BY DEF Init, NadieSirve, Ocioso, MutexInv, Sirviendo

\* A request that arrives has no mutex yet.
LEMMA EmpezarSigue ==
  ASSUME Tipos, NEW h \in Hilos,
         \/ \E op \in Operaciones, t \in Tablas, k \in Claves : Recibir(h, op, t, k)
         \/ h = "journal" /\ EmpezarJournal
  PROVE  /\ \A x \in Hilos \ {h} : est'[x] = est[x]
         /\ est[h].pc = "ocioso" /\ est'[h].pc = "toma" /\ est'[h].i = 1
         /\ est'[h].visitadas = {}
         /\ UNCHANGED <<cache, mutex, fs, caidas>>
<1>1. HilosTipados /\ RestoTipado /\ "toma" \in Pcs
  BY DEF Tipos, Pcs
<1>2. EstadoTipado(Ocioso) /\ Ocioso.i = 1 /\ Ocioso.visitadas = {}
  BY ElOcioso DEF Ocioso
<1>3. CASE \E op \in Operaciones, t \in Tablas, k \in Claves : Recibir(h, op, t, k)
  <2>1. PICK op \in Operaciones, t \in Tablas, k \in Claves : Recibir(h, op, t, k)
    BY <1>3
  <2>2. PICK ec \in BOOLEAN :
          Sigue(h, "toma", [Ocioso EXCEPT !.op = op, !.tabla = t, !.key = k, !.ec = ec,
                                          !.valor = pedidos + 1])
    BY <2>1 DEF Recibir
  <2> DEFINE e == [Ocioso EXCEPT !.op = op, !.tabla = t, !.key = k, !.ec = ec,
                                 !.valor = pedidos + 1]
  <2>3. pedidos + 1 \in Valores /\ op \in Operacion
    BY <1>1, CotasAssumption DEF RestoTipado, Valores, Operacion
  <2>4. EstadoTipado(e)
    BY <1>2, <2>3, PedidoTipado
  <2>5. e.i = 1 /\ e.visitadas = {}
    BY DEF Ocioso
  <2>6. Sigue(h, "toma", e)
    BY <2>2
  <2> HIDE DEF e
  <2>7. /\ \A x \in Hilos \ {h} : est'[x] = est[x]
        /\ est'[h].pc = "toma" /\ est'[h].i = 1 /\ est'[h].visitadas = {}
    BY <1>1, <2>4, <2>5, <2>6, SigueProsigue
  <2> QED BY <2>1, <2>7 DEF Recibir
<1>4. CASE h = "journal" /\ EmpezarJournal
  <2> DEFINE e == [Ocioso EXCEPT !.op = "JOURNAL"]
  <2>1. EstadoTipado(e) /\ e.i = 1 /\ e.visitadas = {}
    BY <1>2 DEF EstadoTipado, EstadosDeHilo, Operacion, Ocioso
  <2>2. Sigue(h, "toma", e)
    BY <1>4 DEF EmpezarJournal
  <2> HIDE DEF e
  <2>3. /\ \A x \in Hilos \ {h} : est'[x] = est[x]
        /\ est'[h].pc = "toma" /\ est'[h].i = 1 /\ est'[h].visitadas = {}
    BY <1>1, <2>1, <2>2, SigueProsigue
  <2> QED BY <1>4, <2>3 DEF EmpezarJournal, historia
<1> QED BY <1>3, <1>4

LEMMA TomarSigue ==
  ASSUME Tipos, NEW h \in Hilos, Tomar(h)
  PROVE  /\ \A x \in Hilos \ {h} : est'[x] = est[x]
         /\ est[h].pc = "toma" /\ est'[h].op = est[h].op
         /\ est'[h].visitadas = est[h].visitadas
         /\ \/ est'[h].pc = "toma" /\ est'[h].i = est[h].i + 1
            \/ est'[h].pc = Primero(est[h].op) /\ est[h].i = Len(MutexDe(h))
         /\ UNCHANGED <<cache, fs, caidas>>
<1> DEFINE e == est[h]
<1>1. HilosTipados /\ EstadoTipado(e)
  BY DEF Tipos, HilosTipados
<1>2. CASE e.i = Len(MutexDe(h))
  <2> DEFINE f == [e EXCEPT !.i = 1]
  <2>1. Sigue(h, Primero(e.op), f)
    BY <1>2 DEF Tomar
  <2>2. Primero(e.op) \in Pcs
    BY DEF Primero, Pcs
  <2> HIDE DEF e
  <2>3. EstadoTipado(f) /\ f.op = e.op /\ f.visitadas = e.visitadas
    BY <1>1 DEF EstadoTipado, EstadosDeHilo
  <2> HIDE DEF f
  <2>4. /\ \A x \in Hilos \ {h} : est'[x] = est[x]
        /\ est'[h].pc = Primero(e.op) /\ est'[h].op = e.op /\ est'[h].visitadas = e.visitadas
    BY <1>1, <2>1, <2>2, <2>3, SigueProsigue
  <2> QED BY <1>2, <2>4 DEF Tomar, e, historia
<1>3. CASE e.i # Len(MutexDe(h))
  <2> DEFINE f == [e EXCEPT !.i = @ + 1]
  <2>1. Sigue(h, "toma", f) /\ "toma" \in Pcs
    BY <1>3 DEF Tomar, Pcs
  <2>2. e.i # (IF e.op = "JOURNAL" THEN 3 ELSE 1)
    BY <1>3, CuantosMutex
  <2> HIDE DEF e
  <2>3. EstadoTipado(f)
    BY <1>1, <2>2, SiguienteTipado
  <2>4. f.op = e.op /\ f.visitadas = e.visitadas /\ f.i = e.i + 1
    BY <1>1 DEF EstadoTipado, EstadosDeHilo
  <2> HIDE DEF f
  <2>5. /\ \A x \in Hilos \ {h} : est'[x] = est[x]
        /\ est'[h].pc = "toma" /\ est'[h].i = e.i + 1
        /\ est'[h].op = e.op /\ est'[h].visitadas = e.visitadas
    BY <1>1, <2>1, <2>3, <2>4, SigueProsigue
  <2> QED BY <2>5 DEF Tomar, e, historia
<1> QED BY <1>2, <1>3

\* One thread's part of MutexInv.
TieneLosSuyos(x) ==
  \A j \in 1..Len(MutexDe(x)) :
    Sirviendo(x) \/ (est[x].pc = "toma" /\ j < est[x].i) => mutex[MutexDe(x)[j]] = x

LEMMA TomarMutexInv ==
  ASSUME Tipos, MutexInv, NEW h \in Hilos, Tomar(h)
  PROVE  MutexInv'
<1> DEFINE i == est[h].i
           n == Len(MutexDe(h))
           m == MutexDe(h)[i]
<1>1. i \in 1..n /\ i \in Nat /\ n \in Nat
  BY CuantosMutex, TiposEsTypeOK DEF TypeOK
<1>2. mutex[m] = NADIE /\ mutex' = [mutex EXCEPT ![m] = h] /\ est[h].pc = "toma"
  BY DEF Tomar
<1>3. m \in DOMAIN mutex
  BY <1>1, SonMutex DEF Tipos, MutexTipado
<1>4. TieneLosSuyos(h)'
  <2>1. MutexDe(h)' = MutexDe(h)
    BY TomarSigue, MutexDeIgual
  <2>2. \A j \in 1..n : j < i => mutex[MutexDe(h)[j]] = h
    BY <1>2 DEF MutexInv
  <2>3. \A j \in 1..n : j <= i => mutex'[MutexDe(h)[j]] = h
    <3> SUFFICES ASSUME NEW j \in 1..n, j <= i PROVE mutex'[MutexDe(h)[j]] = h
      OBVIOUS
    <3>1. MutexDe(h)[j] \in DOMAIN mutex
      BY SonMutex DEF Tipos, MutexTipado
    <3>2. j = i \/ j < i
      BY <1>1
    <3> QED BY <1>2, <1>3, <2>2, <3>1, <3>2
  <2>4. \A j \in 1..n :
          (est'[h].pc \notin {"ocioso", "toma"}) \/ (est'[h].pc = "toma" /\ j < est'[h].i) => j <= i
    <3>1. CASE est'[h].pc = "toma" /\ est'[h].i = i + 1
      <4>1. \A j \in 1..n : j < i + 1 => j <= i
        BY <1>1
      <4> QED BY <3>1, <4>1
    <3>2. CASE i = n
      BY <1>1, <3>2
    <3> QED BY <3>1, <3>2, TomarSigue
  <2> HIDE DEF i, n, m
  <2> QED BY <2>1, <2>3, <2>4 DEF TieneLosSuyos, Sirviendo, n
<1>5. ASSUME NEW x \in Hilos, x # h PROVE TieneLosSuyos(x)'
  <2>1. est'[x] = est[x]
    BY <1>5, TomarSigue
  <2>2. MutexDe(x)' = MutexDe(x)
    BY <2>1, MutexDeIgual
  <2>3. TieneLosSuyos(x)
    BY DEF MutexInv, TieneLosSuyos
  <2>4. ASSUME NEW y \in DOMAIN mutex, mutex[y] = x PROVE mutex'[y] = x
    <3>1. y # m
      BY <1>2, <2>4, NadieNoEsHilo
    <3> QED BY <1>2, <2>4, <3>1 DEF Tipos, MutexTipado
  <2>5. \A j \in 1..Len(MutexDe(x)) : MutexDe(x)[j] \in DOMAIN mutex
    BY SonMutex DEF Tipos, MutexTipado
  <2> QED BY <2>1, <2>2, <2>3, <2>4, <2>5 DEF TieneLosSuyos, Sirviendo
<1> QED BY <1>4, <1>5 DEF MutexInv, TieneLosSuyos

\* A thread that gives its mutexes back takes them from nobody.
LEMMA SoltarMutexInv ==
  ASSUME Tipos, MutexInv, NEW h \in Hilos, Soltar(h)
  PROVE  MutexInv'
<1>1. /\ mutex' = [m \in DOMAIN mutex |-> IF m \in Range(MutexDe(h)) THEN NADIE ELSE mutex[m]]
      /\ est' = [est EXCEPT ![h] = Ocioso]
      /\ Sirviendo(h)
  BY DEF Soltar, Sirviendo
<1>2. TieneLosSuyos(h)'
  <2>1. est'[h].pc = "ocioso"
    BY <1>1 DEF Tipos, HilosTipados, Ocioso
  <2> QED BY <2>1 DEF TieneLosSuyos, Sirviendo
<1>3. ASSUME NEW x \in Hilos, x # h PROVE TieneLosSuyos(x)'
  <2>1. est'[x] = est[x]
    BY <1>1, <1>3 DEF Tipos, HilosTipados
  <2>2. MutexDe(x)' = MutexDe(x)
    BY <2>1, MutexDeIgual
  <2>3. TieneLosSuyos(x)
    BY DEF MutexInv, TieneLosSuyos
  <2>4. ASSUME NEW y \in DOMAIN mutex, mutex[y] = x PROVE mutex'[y] = x
    <3>1. y \notin Range(MutexDe(h))
      <4> SUFFICES ASSUME NEW j \in DOMAIN MutexDe(h), y = MutexDe(h)[j] PROVE FALSE
        BY DEF Range
      <4>1. j \in 1..Len(MutexDe(h))
        BY DEF MutexDe
      <4>2. mutex[MutexDe(h)[j]] = h
        BY <1>1, <4>1 DEF MutexInv
      <4> QED BY <1>3, <2>4, <4>2
    <3> QED BY <1>1, <2>4, <3>1
  <2>5. \A j \in 1..Len(MutexDe(x)) : MutexDe(x)[j] \in DOMAIN mutex
    BY SonMutex DEF Tipos, MutexTipado
  <2> QED BY <2>1, <2>2, <2>3, <2>4, <2>5 DEF TieneLosSuyos, Sirviendo
<1> QED BY <1>2, <1>3 DEF MutexInv, TieneLosSuyos

\* A step that leaves the mutexes leaves them to those who have them.
LEMMA ProsigueMutexInv ==
  ASSUME MutexInv, NEW h \in Hilos, Prosigue(h), Sirviendo(h)
  PROVE  MutexInv'
<1>1. ASSUME NEW x \in Hilos PROVE TieneLosSuyos(x)'
  <2>1. TieneLosSuyos(x)
    BY DEF MutexInv, TieneLosSuyos
  <2>2. est'[x].op = est[x].op
    BY DEF Prosigue
  <2>3. MutexDe(x)' = MutexDe(x)
    BY <2>2, MutexDeIgual
  <2>4. x # h => est'[x] = est[x]
    BY DEF Prosigue
  <2> QED BY <2>1, <2>3, <2>4 DEF TieneLosSuyos, Sirviendo, Prosigue
<1> QED BY <1>1 DEF MutexInv, TieneLosSuyos

LEMMA EmpezarMutexInv ==
  ASSUME Tipos, MutexInv, NEW h \in Hilos,
         \/ \E op \in Operaciones, t \in Tablas, k \in Claves : Recibir(h, op, t, k)
         \/ h = "journal" /\ EmpezarJournal
  PROVE  MutexInv'
<1>1. ASSUME NEW x \in Hilos PROVE TieneLosSuyos(x)'
  <2>1. CASE x = h
    <3>1. est'[h].pc = "toma" /\ est'[h].i = 1
      BY EmpezarSigue
    <3>2. \A j \in 1..Len(MutexDe(h))' : ~(j < 1)
      BY DEF MutexDe
    <3> QED BY <2>1, <3>1, <3>2 DEF TieneLosSuyos, Sirviendo
  <2>2. CASE x # h
    <3>1. est'[x] = est[x] /\ mutex' = mutex
      BY <2>2, EmpezarSigue
    <3>2. MutexDe(x)' = MutexDe(x)
      BY <3>1, MutexDeIgual
    <3> QED BY <3>1, <3>2 DEF TieneLosSuyos, Sirviendo, MutexInv
  <2> QED BY <2>1, <2>2
<1> QED BY <1>1 DEF MutexInv, TieneLosSuyos

LEMMA IgualMutexInv ==
  ASSUME MutexInv, UNCHANGED <<mutex, est>>
  PROVE  MutexInv'
<1>1. \A x : MutexDe(x)' = MutexDe(x)
  BY MutexDeIgual
<1> QED BY <1>1 DEF MutexInv, Sirviendo

\* The steps of Next, by what they do to the threads.
LEMMA PasosDeNext ==
  ASSUME [Next]_vars
  PROVE  \/ \E h \in Hilos : \/ \E op \in Operaciones, t \in Tablas, k \in Claves : Recibir(h, op, t, k)
                             \/ h = "journal" /\ EmpezarJournal
                             \/ Tomar(h) \/ Avanzar(h)
         \/ CaerLFS \/ LevantarLFS \/ UNCHANGED vars
         \/ \E h \in Hilos : PartirRespuesta(h) \/ RecibirPartida(h)
<1>1. Clientes \subseteq Hilos
  BY DEF Clientes
<1>2. EmpezarJournal => "journal" \in Hilos
  BY DEF EmpezarJournal
<1>3. Caido => UNCHANGED vars
  BY DEF Caido
<1> QED BY <1>1, <1>2, <1>3 DEF Next

\* Who reads an answer in pieces keeps its mutexes.
LEMMA PartirMutexInv ==
  ASSUME Tipos, MutexInv, NEW h \in Hilos, PartirRespuesta(h) \/ RecibirPartida(h)
  PROVE  MutexInv'
<1>1. ASSUME NEW x \in Hilos PROVE TieneLosSuyos(x)'
  <2>1. TieneLosSuyos(x) /\ mutex' = mutex
    BY PartirDeja DEF MutexInv, TieneLosSuyos, Tipos
  <2>2. \/ est'[x] = est[x]
        \/ est[x].pc = "espera" /\ est'[x] = [est[x] EXCEPT !.pc = "partida"]
    BY PartirDeja DEF Tipos
  <2>3. est'[x].op = est[x].op
    BY <2>2 DEF Tipos, HilosTipados, EstadosDeHilo
  <2>4. MutexDe(x)' = MutexDe(x)
    BY <2>3, MutexDeIgual
  <2>5. \/ est'[x] = est[x]
        \/ Sirviendo(x) /\ est'[x].pc = "partida"
    BY <2>2 DEF Tipos, HilosTipados, EstadosDeHilo, Sirviendo
  <2> QED BY <2>1, <2>4, <2>5 DEF TieneLosSuyos, Sirviendo
<1> QED BY <1>1 DEF MutexInv, TieneLosSuyos

LEMMA NextMutexInv ==
  ASSUME Tipos, MutexInv, [Next]_vars
  PROVE  MutexInv'
<1>1. ASSUME NEW h \in Hilos, Avanzar(h) PROVE MutexInv'
  BY <1>1, AvanzarProsigue, ProsigueMutexInv, SoltarMutexInv
<1>2. CaerLFS \/ LevantarLFS \/ UNCHANGED vars => MutexInv'
  BY IgualMutexInv DEF CaerLFS, LevantarLFS, vars
<1>3. ASSUME NEW h \in Hilos, PartirRespuesta(h) \/ RecibirPartida(h) PROVE MutexInv'
  BY <1>3, PartirMutexInv
<1> QED BY <1>1, <1>2, <1>3, PasosDeNext, EmpezarMutexInv, TomarMutexInv

\* While a JOURNAL is served nobody else is.
LEMMA JournalSoloPorInv ==
  ASSUME MutexInv, NEW x \in Hilos, est[x].op = "JOURNAL", Sirviendo(x),
         NEW h \in Hilos, Sirviendo(h)
  PROVE  h = x
<1>1. mutex["kernel"] = x /\ mutex["consola"] = x /\ mutex["journal"] = x
  <2>1. MutexDe(x) = <<"kernel", "consola", "journal">>
    BY DEF MutexDe
  <2>2. Len(MutexDe(x)) = 3 /\ \A j \in 1..3 : mutex[MutexDe(x)[j]] = x
    BY <2>1 DEF MutexInv
  <2> QED BY <2>1, <2>2
<1>2. CASE est[h].op = "JOURNAL"
  <2>1. MutexDe(h) = <<"kernel", "consola", "journal">>
    BY <1>2 DEF MutexDe
  <2>2. Len(MutexDe(h)) = 3 /\ \A j \in 1..3 : mutex[MutexDe(h)[j]] = h
    BY <2>1 DEF MutexInv
  <2>3. mutex["kernel"] = h
    BY <2>1, <2>2
  <2> QED BY <1>1, <2>3
<1>3. CASE est[h].op # "JOURNAL"
  <2>1. MutexDe(h) = <<h>>
    BY <1>3 DEF MutexDe
  <2>2. Len(MutexDe(h)) = 1 /\ \A j \in 1..1 : mutex[MutexDe(h)[j]] = h
    BY <2>1 DEF MutexInv
  <2>3. mutex[h] = h
    BY <2>1, <2>2
  <2> QED BY <1>1, <2>3, HilosAssumption
<1> QED BY <1>2, <1>3

\* Whatever the threads do and however their requests interleave, a JOURNAL has
\* the memory to itself.
THEOREM ElJournalExcluye == Spec => []ElJournalSirveSolo
<1> DEFINE Inv == Tipos /\ MutexInv
<1>1. Init => Inv
  BY InitTipos, InitMutexInv
<1>2. Inv /\ [Next]_vars => Inv'
  BY NextTipos, NextMutexInv
<1>3. Inv => ElJournalSirveSolo
  BY JournalSoloPorInv DEF ElJournalSirveSolo
<1> QED BY <1>1, <1>2, <1>3, PTL DEF Spec

------------------------------------------------------------------------------
(* What a journal has visited has arrived.                                 *)

\* An INSERT only makes the records of the file system newer.
LEMMA InsertRenueva ==
  ASSUME FSTipado, NEW m \in Mensajes, m.op = "INSERT", enLFS' = LFSDespuesDe(m)
  PROVE  /\ \A t \in Tablas, k \in Claves :
              /\ enLFS'[t].existe = enLFS[t].existe
              /\ enLFS[t].datos[k].ts \in Horas /\ enLFS'[t].datos[k].ts \in Horas
              /\ enLFS'[t].datos[k].ts >= enLFS[t].datos[k].ts
         /\ enLFS[m.tabla].existe => enLFS'[m.tabla].datos[m.key].ts >= m.ts
<1>1. /\ m.tabla \in Tablas /\ m.key \in Claves /\ m.ts \in Horas
      /\ enLFS \in [Tablas -> DatosDeTabla] /\ enLFS' \in [Tablas -> DatosDeTabla]
  BY DatoTipado, LFSTipado DEF FSTipado
<1>2. \A t \in Tablas, k \in Claves :
        enLFS[t].datos[k].ts \in Horas /\ enLFS'[t].datos[k].ts \in Horas
  BY <1>1 DEF DatosDeTabla
<1>3. Horas \subseteq Int /\ \A x, y \in Horas : x >= y \/ y >= x
  BY DEF Horas
<1>4. CASE enLFS' = enLFS /\ (enLFS[m.tabla].existe => enLFS[m.tabla].datos[m.key].ts >= m.ts)
  BY <1>1, <1>2, <1>3, <1>4
<1>5. CASE /\ m.ts >= enLFS[m.tabla].datos[m.key].ts
           /\ enLFS' = [enLFS EXCEPT ![m.tabla].datos[m.key] = [valor |-> m.valor, ts |-> m.ts]]
  <2> DEFINE r == [valor |-> m.valor, ts |-> m.ts]
             d == [enLFS[m.tabla] EXCEPT !.datos[m.key] = r]
  <2>1. r.ts = m.ts
    OBVIOUS
  <2> HIDE DEF r
  <2>2. /\ d.existe = enLFS[m.tabla].existe
        /\ d.datos[m.key].ts = m.ts
        /\ \A k \in Claves \ {m.key} : d.datos[k] = enLFS[m.tabla].datos[k]
    BY <1>1, <2>1 DEF DatosDeTabla
  <2>3. enLFS' = [enLFS EXCEPT ![m.tabla] = d]
    BY <1>1, <1>5 DEF r
  <2> HIDE DEF d
  <2>4. enLFS'[m.tabla] = d /\ \A t \in Tablas \ {m.tabla} : enLFS'[t] = enLFS[t]
    BY <1>1, <2>3
  <2> QED BY <1>1, <1>2, <1>3, <1>5, <2>2, <2>4
<1>6. \/ enLFS' = enLFS /\ (enLFS[m.tabla].existe => enLFS[m.tabla].datos[m.key].ts >= m.ts)
      \/ /\ m.ts >= enLFS[m.tabla].datos[m.key].ts
         /\ enLFS' = [enLFS EXCEPT ![m.tabla].datos[m.key] = [valor |-> m.valor, ts |-> m.ts]]
  <2>1. CASE CodigoDeLFS(m) # "SUCCESS"
    <3>1. enLFS' = enLFS
      BY <2>1 DEF LFSDespuesDe
    <3>2. ~enLFS[m.tabla].existe
      BY <2>1 DEF CodigoDeLFS
    <3> QED BY <3>1, <3>2
  <2>2. CASE CodigoDeLFS(m) = "SUCCESS" /\ m.ts >= enLFS[m.tabla].datos[m.key].ts
    BY <2>2 DEF LFSDespuesDe
  <2>3. CASE CodigoDeLFS(m) = "SUCCESS" /\ ~(m.ts >= enLFS[m.tabla].datos[m.key].ts)
    <3>1. enLFS' = enLFS
      BY <2>3 DEF LFSDespuesDe
    <3>2. enLFS[m.tabla].datos[m.key].ts >= m.ts
      BY <1>1, <1>2, <1>3, <2>3
    <3> QED BY <3>1, <3>2
  <2> QED BY <2>1, <2>2, <2>3
<1> QED BY <1>4, <1>5, <1>6

\* The cache and the file system of a page.
LEMMA PaginaEnLFS ==
  ASSUME CacheTipada, NEW p \in paginas
  PROVE  /\ TablaDelSegmento(p.seg) \in Tablas
         /\ marcos[p.marco].key \in Claves /\ marcos[p.marco].timestamp \in Horas
<1>1. p \in TipoDePagina /\ p.seg \in EnUso
  BY DEF CacheTipada
<1>2. marcos[p.marco] \in [key : Claves, valor : Valores, timestamp : Horas]
  BY <1>1 DEF CacheTipada, TipoDePagina
<1> QED BY <1>1, <1>2, TablaDelSegmentoTipada

LEMMA LlegoIgual ==
  ASSUME UNCHANGED cache, NEW p
  PROVE  /\ TablaDelSegmento(p.seg)' = TablaDelSegmento(p.seg)
         /\ enLFS' = enLFS => Llego(p)' = Llego(p)
         /\ \A h : est'[h] = est[h] => EsLaQueEnvia(h, p)' = EsLaQueEnvia(h, p)
BY DEF cache, Llego, TablaDelSegmento, EsLaQueEnvia

\* A JOURNAL waits alone: nobody reads a part of its answers.
LEMMA PartirSinJournal ==
  ASSUME Tipos, MutexInv, NEW h \in Hilos, PartirRespuesta(h) \/ RecibirPartida(h),
         NEW x \in Hilos, est[x].op = "JOURNAL"
  PROVE  est'[x] = est[x]
<1>1. CASE PartirRespuesta(h)
  <2>1. PICK y \in Hilos \ {h} :
          /\ est[y].pc = "espera"
          /\ est' = [est EXCEPT ![h].pc = "partida", ![y].pc = "partida"]
    BY <1>1 DEF PartirRespuesta
  <2>2. Sirviendo(h) /\ Sirviendo(y)
    BY <1>1, <2>1 DEF PartirRespuesta, Sirviendo
  <2>3. x # h /\ x # y
    BY <2>1, <2>2, JournalSoloPorInv
  <2> QED BY <2>1, <2>3 DEF Tipos, HilosTipados
<1>2. CASE RecibirPartida(h)
  BY <1>2 DEF RecibirPartida, Invalido
<1> QED BY <1>1, <1>2

LEMMA InitJournalInv == Init => JournalInv
BY DEF Init, NadieSirve, Ocioso, JournalInv, JournalDeHilo

\* The file system is up, with every connection, until it falls.
LEMMA NextSinCaidas ==
  ASSUME Tipos, caidas = 0 => rotas = {} /\ lfs, [Next]_vars
  PROVE  caidas' = 0 => rotas' = {} /\ lfs'
<1>1. caidas \in Nat
  BY CotasAssumption DEF Tipos, RestoTipado
<1>2. ASSUME NEW h \in Hilos,
             \/ \E op \in Operaciones, t \in Tablas, k \in Claves : Recibir(h, op, t, k)
             \/ h = "journal" /\ EmpezarJournal
             \/ Tomar(h) \/ Avanzar(h)
      PROVE  UNCHANGED <<rotas, lfs, caidas>>
  <2>1. Avanzar(h) => UNCHANGED <<rotas, lfs, caidas>>
    <3>1. Soltar(h) => UNCHANGED <<rotas, lfs, caidas>>
      BY DEF Soltar, fs, historia
    <3> QED BY <3>1, AvanzarProsigue DEF Prosigue
  <2> QED BY <1>2, <2>1, EmpezarSigue, TomarSigue DEF fs
<1>3. CaerLFS => caidas' # 0
  BY <1>1 DEF CaerLFS
<1>4. LevantarLFS => UNCHANGED <<rotas, caidas>> /\ lfs'
  BY DEF LevantarLFS, historia
<1>5. UNCHANGED vars => UNCHANGED <<rotas, lfs, caidas>>
  BY DEF vars, fs, historia
<1>6. ASSUME NEW h \in Hilos, PartirRespuesta(h) \/ RecibirPartida(h)
      PROVE  UNCHANGED <<rotas, lfs, caidas>>
  BY <1>6, PartirDeja DEF Tipos, historia
<1> QED BY <1>2, <1>3, <1>4, <1>5, <1>6, PasosDeNext

\* A thread that does not move, while the cache and the file system are kept.
LEMMA QuietoJournal ==
  ASSUME JournalInv, NEW x \in Hilos, est'[x] = est[x], UNCHANGED <<cache, enLFS>>,
         caidas' = 0 => caidas = 0
  PROVE  JournalDeHilo(x)'
<1>1. \A p : Llego(p)' = Llego(p) /\ EsLaQueEnvia(x, p)' = EsLaQueEnvia(x, p)
  BY LlegoIgual
<1>2. JournalDeHilo(x)
  BY DEF JournalInv
<1>3. paginas' = paginas
  BY DEF cache
<1> QED BY <1>1, <1>2, <1>3 DEF JournalDeHilo

\* A thread that does not move, while another serves a request.
LEMMA OtroSirveJournal ==
  ASSUME MutexInv, JournalInv, NEW x \in Hilos, est'[x] = est[x],
         NEW h \in Hilos, h # x, Sirviendo(h)
  PROVE  JournalDeHilo(x)'
<1>1. est[x].op = "JOURNAL" => ~Sirviendo(x)
  BY JournalSoloPorInv
<1>2. JournalDeHilo(x)
  BY DEF JournalInv
<1> QED BY <1>1, <1>2 DEF JournalDeHilo, Sirviendo

\* The thread that moves, when its request is not a JOURNAL.
LEMMA OtraCosaJournal ==
  ASSUME Tipos, NEW h \in Hilos, est[h].op # "JOURNAL", Avanzar(h)
  PROVE  JournalDeHilo(h)'
<1>1. CASE Prosigue(h)
  BY <1>1 DEF Prosigue, JournalDeHilo
<1>2. CASE Soltar(h)
  <2>1. est'[h].op # "JOURNAL" /\ est'[h].pc # "recorre"
    BY <1>2 DEF Soltar, Tipos, HilosTipados, Ocioso
  <2> QED BY <2>1 DEF JournalDeHilo
<1> QED BY <1>1, <1>2, AvanzarProsigue

\* The INSERT of a visited page arrives with the request.
LEMMA LlegaLoVisitado ==
  ASSUME Tipos, JournalInv, NEW h \in Hilos, est[h].op = "JOURNAL", est[h].pc = "envia",
         caidas = 0, NEW fd, LlegaALFS(h, fd, Mensaje(est[h])), UNCHANGED cache,
         NEW p \in est[h].visitadas
  PROVE  Llego(p)'
<1> DEFINE m == Mensaje(est[h])
           t == TablaDelSegmento(p.seg)
           k == marcos[p.marco].key
           ts == marcos[p.marco].timestamp
<1>1. EstadoTipado(est[h]) /\ CacheTipada /\ FSTipado
  BY DEF Tipos, HilosTipados
<1>2. m \in Mensajes /\ m.op = "INSERT" /\ m.tabla = est[h].tabla /\ m.key = est[h].key /\ m.ts = est[h].ts
  BY <1>1, MensajeTipado DEF Mensaje
<1>3. p \in paginas /\ (Llego(p) \/ EsLaQueEnvia(h, p))
  BY DEF JournalInv, JournalDeHilo
<1>4. t \in Tablas /\ k \in Claves /\ ts \in Horas
  BY <1>1, <1>3, PaginaEnLFS
<1>5. enLFS' = LFSDespuesDe(m)
  BY DEF LlegaALFS
<1> HIDE DEF m
<1>6. /\ enLFS'[t].existe = enLFS[t].existe
      /\ enLFS[t].datos[k].ts \in Horas /\ enLFS'[t].datos[k].ts \in Horas
      /\ enLFS'[t].datos[k].ts >= enLFS[t].datos[k].ts
      /\ enLFS[m.tabla].existe => enLFS'[m.tabla].datos[m.key].ts >= m.ts
  BY <1>1, <1>2, <1>4, <1>5, InsertRenueva
<1>7. Llego(p)' <=> (enLFS'[t].existe => enLFS'[t].datos[k].ts >= ts)
  BY LlegoIgual DEF Llego, cache
<1>8. CASE Llego(p)
  <2>1. enLFS[t].existe => enLFS[t].datos[k].ts >= ts
    BY <1>8 DEF Llego
  <2> HIDE DEF t, k, ts
  <2>2. \A x, y, z \in Horas : x >= y /\ y >= z => x >= z
    BY DEF Horas
  <2> QED BY <1>4, <1>6, <1>7, <2>1, <2>2
<1>9. CASE EsLaQueEnvia(h, p)
  <2>1. m.tabla = t /\ m.key = k /\ m.ts = ts
    BY <1>2, <1>9 DEF EsLaQueEnvia
  <2> HIDE DEF t, k, ts
  <2> QED BY <1>6, <1>7, <2>1
<1> QED BY <1>3, <1>8, <1>9

\* The thread that moves, when it is serving a JOURNAL.
LEMMA MueveJournal ==
  ASSUME Tipos, JournalInv, NEW h \in Hilos, est[h].op = "JOURNAL", Avanzar(h)
  PROVE  JournalDeHilo(h)'
<1>1. /\ est[h].pc \in {"recorre", "envia", "espera", "responde", "suelta"}
      /\ est[h].pc \in {"recorre", "envia", "espera"} =>
            /\ est[h].visitadas \subseteq paginas
            /\ caidas = 0 => \A p \in est[h].visitadas : Llego(p) \/ EsLaQueEnvia(h, p)
  BY AvanzarProsigue DEF JournalInv, JournalDeHilo, Sirviendo
<1>2. caidas = 0 => rotas = {} /\ lfs
  BY DEF JournalInv
<1>3. RechazarValor(h) \/ Intercambiar(h) \/ Journal(h) \/ Responder(h) \/ Soltar(h)
  BY <1>1, BuscarProsigue, ConseguirMarcoProsigue, GuardarPaginaProsigue, CrearYEliminarProsigue
     DEF Avanzar
<1>4. CASE Soltar(h)
  <2>1. est'[h].op # "JOURNAL" /\ est'[h].pc # "recorre"
    BY <1>4 DEF Soltar, Tipos, HilosTipados, Ocioso
  <2> QED BY <2>1 DEF JournalDeHilo
<1>5. CASE RechazarValor(h) \/ Responder(h)
  BY <1>5, RequestProsigue DEF JournalDeHilo, Prosigue
<1>6. CASE Limpiar(h)
  <2>1. Prosigue(h) /\ est'[h].pc = "responde"
    <3>1. PICK cod \in Codigos : Responde(h, cod, est[h])
      BY <1>6 DEF Limpiar, Codigos
    <3>2. HilosTipados /\ EstadoTipado(est[h])
      BY DEF Tipos, HilosTipados
    <3> QED BY <1>6, <3>1, <3>2, RespondeProsigue, JournalProsigue DEF Journal
  <2> QED BY <2>1 DEF JournalDeHilo, Prosigue
<1>7. CASE TomarPagina(h)
  <2>1. PICK p \in PorEnviar(h) :
          /\ est'[h].op = est[h].op /\ est'[h].pc = "envia"
          /\ est'[h].visitadas = est[h].visitadas \cup {p}
          /\ est'[h].tabla = TablaDelSegmento(p.seg)
          /\ est'[h].key = marcos[p.marco].key /\ est'[h].ts = marcos[p.marco].timestamp
    BY <1>7, TomarPaginaSigue
  <2>2. UNCHANGED <<cache, enLFS, caidas>> /\ est[h].pc = "recorre"
    BY <1>7 DEF TomarPagina, fs, historia
  <2>3. paginas' = paginas /\ p \in paginas /\ marcos' = marcos
    BY <2>2 DEF cache, PorEnviar
  <2>4. EsLaQueEnvia(h, p)'
    BY <2>1, <2>2, <2>3, LlegoIgual DEF EsLaQueEnvia
  <2>5. caidas = 0 => \A q \in est[h].visitadas : Llego(q)'
    BY <1>1, <2>2, LlegoIgual DEF EsLaQueEnvia
  <2> QED BY <1>1, <2>1, <2>2, <2>3, <2>4, <2>5 DEF JournalDeHilo
<1>8. CASE Intercambiar(h)
  <2>1. /\ est'[h].op = "JOURNAL" /\ est'[h].pc \in {"espera", "recorre"}
        /\ est'[h].visitadas = est[h].visitadas /\ caidas' = caidas
        /\ est[h].pc \in {"envia", "espera"}
    BY <1>8, IntercambiarProsigue DEF Prosigue
  <2>2. UNCHANGED cache
    BY <1>8 DEF Intercambiar, Enviar, EnviarReconectando, EnviarEnVano, FallarEnvio,
                RecibirDeLFS, RecibirCaida
  <2>3. est'[h].visitadas \subseteq paginas'
    BY <1>1, <2>1, <2>2 DEF cache
  <2>4. ASSUME caidas = 0, NEW p \in est[h].visitadas PROVE Llego(p)'
    <3>1. CASE Enviar(h)
      BY <2>2, <2>4, <3>1, LlegaLoVisitado DEF Enviar
    <3>2. CASE EnviarReconectando(h)
      BY <2>2, <2>4, <3>2, LlegaLoVisitado DEF EnviarReconectando
    <3>3. CASE EnviarEnVano(h) \/ FallarEnvio(h) \/ RecibirCaida(h)
      BY <1>2, <2>4, <3>3 DEF EnviarEnVano, FallarEnvio, RecibirCaida
    <3>4. CASE RecibirDeLFS(h)
      <4>1. est[h].pc = "espera" /\ enLFS' = enLFS
        BY <3>4 DEF RecibirDeLFS
      <4>2. Llego(p)
        BY <1>1, <2>4, <4>1 DEF EsLaQueEnvia
      <4> QED BY <2>2, <4>1, <4>2, LlegoIgual
    <3> QED BY <1>8, <3>1, <3>2, <3>3, <3>4 DEF Intercambiar
  <2> QED BY <2>1, <2>3, <2>4 DEF JournalDeHilo
<1> QED BY <1>3, <1>4, <1>5, <1>6, <1>7, <1>8 DEF Journal

\* The thread that moves, when its request arrives or it takes a mutex.
LEMMA EmpiezaJournal ==
  ASSUME Tipos, JournalInv, NEW h \in Hilos,
         \/ \E op \in Operaciones, t \in Tablas, k \in Claves : Recibir(h, op, t, k)
         \/ h = "journal" /\ EmpezarJournal
         \/ Tomar(h)
  PROVE  JournalDeHilo(h)'
<1>1. CASE Tomar(h)
  <2>1. /\ est[h].pc = "toma" /\ est'[h].op = est[h].op
        /\ est'[h].visitadas = est[h].visitadas
        /\ est'[h].pc = "toma" \/ est'[h].pc = Primero(est[h].op)
    BY <1>1, TomarSigue
  <2>2. est[h].op = "JOURNAL" => est[h].visitadas = {}
    BY <2>1 DEF JournalInv, JournalDeHilo
  <2>3. /\ est[h].op # "JOURNAL" => Primero(est[h].op) # "recorre"
        /\ est[h].op = "JOURNAL" => Primero(est[h].op) = "recorre"
    BY DEF Primero
  <2> QED BY <2>1, <2>2, <2>3 DEF JournalDeHilo
<1>2. CASE ~Tomar(h)
  <2>1. est'[h].pc = "toma" /\ est'[h].visitadas = {}
    BY <1>2, EmpezarSigue
  <2> QED BY <2>1 DEF JournalDeHilo
<1> QED BY <1>1, <1>2

LEMMA NextJournalInv ==
  ASSUME Tipos, MutexInv, JournalInv, [Next]_vars
  PROVE  JournalInv'
<1>1. caidas' = 0 => rotas' = {} /\ lfs'
  BY NextSinCaidas DEF JournalInv
<1>2. ASSUME NEW x \in Hilos PROVE JournalDeHilo(x)'
  <2>1. ASSUME NEW h \in Hilos,
               \/ \E op \in Operaciones, t \in Tablas, k \in Claves : Recibir(h, op, t, k)
               \/ h = "journal" /\ EmpezarJournal
               \/ Tomar(h)
        PROVE  JournalDeHilo(x)'
    <3>1. CASE x = h
      BY <2>1, <3>1, EmpiezaJournal
    <3>2. CASE x # h
      <4>1. est'[x] = est[x] /\ UNCHANGED <<cache, fs, caidas>>
        BY <2>1, <3>2, EmpezarSigue, TomarSigue
      <4> QED BY <4>1, QuietoJournal DEF fs
    <3> QED BY <3>1, <3>2
  <2>2. ASSUME NEW h \in Hilos, Avanzar(h) PROVE JournalDeHilo(x)'
    <3>1. CASE x = h
      BY <2>2, <3>1, OtraCosaJournal, MueveJournal
    <3>2. CASE x # h
      <4>1. est'[x] = est[x]
        <5>1. Soltar(h) => est'[x] = est[x]
          BY <3>2 DEF Soltar, Tipos, HilosTipados
        <5> QED BY <2>2, <3>2, <5>1, AvanzarProsigue DEF Prosigue
      <4> QED BY <2>2, <3>2, <4>1, AvanzarProsigue, OtroSirveJournal
    <3> QED BY <3>1, <3>2
  <2>3. CASE CaerLFS
    <3>1. est'[x] = est[x] /\ UNCHANGED <<cache, enLFS>> /\ caidas' # 0
      BY <2>3, CotasAssumption DEF CaerLFS, Tipos, RestoTipado
    <3> QED BY <3>1, QuietoJournal
  <2>4. CASE LevantarLFS \/ UNCHANGED vars
    <3>1. est'[x] = est[x] /\ UNCHANGED <<cache, enLFS, caidas>>
      BY <2>4 DEF LevantarLFS, vars, fs, historia
    <3> QED BY <3>1, QuietoJournal
  <2>5. ASSUME NEW h \in Hilos, PartirRespuesta(h) \/ RecibirPartida(h) PROVE JournalDeHilo(x)'
    <3>1. CASE est[x].op = "JOURNAL"
      <4>1. est'[x] = est[x] /\ UNCHANGED <<cache, enLFS, caidas>>
        BY <2>5, <3>1, PartirSinJournal, PartirDeja DEF Tipos, historia
      <4> QED BY <4>1, QuietoJournal
    <3>2. CASE est[x].op # "JOURNAL"
      <4>1. \/ est'[x] = est[x]
            \/ est'[x] = [est[x] EXCEPT !.pc = "partida"]
        BY <2>5, PartirDeja DEF Tipos
      <4>2. est[x].pc # "recorre"
        BY <3>2 DEF JournalInv, JournalDeHilo
      <4>3. est'[x].op # "JOURNAL" /\ est'[x].pc # "recorre"
        BY <3>2, <4>1, <4>2 DEF Tipos, HilosTipados, EstadosDeHilo
      <4> QED BY <4>3 DEF JournalDeHilo
    <3> QED BY <3>1, <3>2
  <2> QED BY <2>1, <2>2, <2>3, <2>4, <2>5, PasosDeNext
<1> QED BY <1>1, <1>2 DEF JournalInv

\* Who clears the cache is a journal that has nothing else to send.
LEMMA QuienLimpia ==
  ASSUME Tipos, MutexInv, JournalInv, [Next]_vars, Limpia, caidas = 0, NEW p \in paginas, p.modificado
  PROVE  Llego(p)
<1>1. PICK h \in Hilos : est[h].pc = "recorre" /\ est'[h].pc = "responde"
  BY DEF Limpia
<1>2. est[h].op = "JOURNAL"
  BY <1>1 DEF JournalInv, JournalDeHilo
<1>3. Limpiar(h)
  <2>1. ~(CaerLFS \/ LevantarLFS \/ UNCHANGED vars)
    BY <1>1 DEF CaerLFS, LevantarLFS, vars
  <2>7. ASSUME NEW x \in Hilos PROVE ~(PartirRespuesta(x) \/ RecibirPartida(x))
    <3>1. PartirRespuesta(x) \/ RecibirPartida(x) => est'[h] = est[h]
      BY <1>2, PartirSinJournal
    <3> QED BY <1>1, <3>1
  <2>2. PICK x \in Hilos : \/ \E op \in Operaciones, t \in Tablas, k \in Claves : Recibir(x, op, t, k)
                           \/ x = "journal" /\ EmpezarJournal
                           \/ Tomar(x) \/ Avanzar(x)
    BY <2>1, <2>7, PasosDeNext
  <2>3. ~Tomar(x) /\ Avanzar(x)
    BY <1>1, <2>2, EmpezarSigue, TomarSigue
  <2>4. x = h
    <3>1. Sirviendo(h) /\ Sirviendo(x)
      BY <1>1, <2>3, AvanzarProsigue DEF Sirviendo
    <3> QED BY <1>2, <3>1, JournalSoloPorInv
  <2>5. Journal(h)
    BY <1>1, <2>3, <2>4, BuscarProsigue, ConseguirMarcoProsigue, GuardarPaginaProsigue,
       IntercambiarProsigue, CrearYEliminarProsigue, RequestProsigue DEF Avanzar, Soltar
  <2>6. ~TomarPagina(h)
    BY <1>1, TomarPaginaSigue
  <2> QED BY <2>5, <2>6 DEF Journal
<1>4. p \in est[h].visitadas
  BY <1>3 DEF Limpiar, PorEnviar
<1> QED BY <1>1, <1>2, <1>4 DEF JournalInv, JournalDeHilo, EsLaQueEnvia

\* Whatever the kernels, the console and the automatic journal do, a journal
\* that clears the cache leaves in the file system each modified page, or a
\* newer record of its key, unless the file system fell.
THEOREM JournalNoPierde == Spec => JournalCompleto
<1> DEFINE Inv == Tipos /\ MutexInv /\ JournalInv
           Paso == Limpia /\ caidas = 0 => \A p \in paginas : p.modificado => Llego(p)
<1>1. Init => Inv
  BY InitTipos, InitMutexInv, InitJournalInv
<1>2. Inv /\ [Next]_vars => Inv'
  BY NextTipos, NextMutexInv, NextJournalInv
<1>3. Inv /\ [Next]_vars => [Paso]_vars
  BY QuienLimpia
<1>4. JournalCompleto <=> [][Paso]_vars
  BY DEF JournalCompleto
<1> HIDE DEF Inv, Paso
<1> QED BY <1>1, <1>2, <1>3, <1>4, PTL DEF Spec

------------------------------------------------------------------------------
(* A single client: frames, segments and keys.                             *)

\* The fields of the thread that goes on.
LEMMA SigueCampos ==
  ASSUME Tipos, NEW h \in Hilos, NEW pc \in Pcs, NEW e, EstadoTipado(e), Sigue(h, pc, e)
  PROVE  /\ est'[h].pc = pc /\ est'[h].op = e.op /\ est'[h].cod = e.cod
         /\ est'[h].tabla = e.tabla /\ est'[h].key = e.key
         /\ est'[h].seg = e.seg /\ est'[h].victima = e.victima /\ est'[h].marco = e.marco
         /\ est'[h].fd = e.fd
         /\ \A x \in Hilos \ {h} : est'[x] = est[x]
<1>1. /\ est'[h] = [e EXCEPT !.pc = pc]
      /\ \A x \in Hilos \ {h} : est'[x] = est[x]
  BY SigueTipado DEF Tipos
<1> QED BY <1>1 DEF EstadoTipado, EstadosDeHilo

LEMMA RespondeCampos ==
  ASSUME Tipos, NEW h \in Hilos, NEW cod \in Codigos, NEW e, EstadoTipado(e), Responde(h, cod, e)
  PROVE  /\ est'[h].pc = "responde" /\ est'[h].op = e.op /\ est'[h].cod = cod
         /\ \A x \in Hilos \ {h} : est'[x] = est[x]
<1> DEFINE f == [e EXCEPT !.cod = cod]
<1>1. EstadoTipado(f) /\ f.op = e.op /\ f.cod = cod
  BY DEF EstadoTipado, EstadosDeHilo
<1>2. "responde" \in Pcs /\ Sigue(h, "responde", f)
  BY DEF Pcs, Responde
<1> HIDE DEF f
<1> QED BY <1>1, <1>2, SigueCampos

\* With one client, one request is served at a time.
LEMMA UnoSirve ==
  ASSUME UnCliente, MutexInv, \A x \in Hilos : Lleva(x, est[x]),
         NEW x \in Hilos, Sirviendo(x), NEW h \in Hilos, Sirviendo(h)
  PROVE  x = h
<1>1. CASE est[x].op = "JOURNAL" \/ est[h].op = "JOURNAL"
  BY <1>1, JournalSoloPorInv
<1>2. CASE est[x].op # "JOURNAL" /\ est[h].op # "JOURNAL"
  <2>1. x # "journal" /\ h # "journal"
    BY <1>2 DEF Lleva, Sirviendo
  <2> QED BY <2>1 DEF UnCliente, Clientes
<1> QED BY <1>1, <1>2

\* The frame of a victim that a request has taken and not stored yet.
EnManoDe(e) == IF e.pc = "guarda" /\ e.victima # 0 THEN {e.marco} ELSE {}

NadieMas(h) == \A x \in Hilos \ {h} : ~Sirviendo(x)

\* Of the states s of the threads.
LEMMA LoQueHayEnMano ==
  ASSUME NEW s, NEW h \in Hilos, \A x \in Hilos \ {h} : s[x].pc # "guarda"
  PROVE  {s[x].marco : x \in {y \in Hilos : s[y].pc = "guarda" /\ s[y].victima # 0}}
           = EnManoDe(s[h])
<1>1. CASE s[h].pc = "guarda" /\ s[h].victima # 0
  <2>1. {x \in Hilos : s[x].pc = "guarda" /\ s[x].victima # 0} = {h}
    BY <1>1
  <2> QED BY <1>1, <2>1 DEF EnManoDe
<1>2. CASE ~(s[h].pc = "guarda" /\ s[h].victima # 0)
  <2>1. {x \in Hilos : s[x].pc = "guarda" /\ s[x].victima # 0} = {}
    BY <1>2
  <2> QED BY <1>2, <2>1 DEF EnManoDe
<1> QED BY <1>1, <1>2

\* No answer is on its way while the request served is not waiting for one.
LEMMA NadaEnCamino ==
  ASSUME Tipos, RespuestaEsperada, NEW h \in Hilos, NadieMas(h), est[h].pc # "espera"
  PROVE  deLFS = <<>>
<1>1. \A x \in Hilos : est[x].pc # "espera"
  BY DEF NadieMas, Sirviendo
<1>2. deLFS \in Seq(Respuestas) /\ DOMAIN deLFS = {}
  BY <1>1 DEF RespuestaEsperada, Tipos, FSTipado
<1> QED BY <1>2

\* What the others know is of a request they do not serve yet.
LEMMA LosDemas ==
  ASSUME NEW x \in Hilos, ~Sirviendo(x), est'[x] = est[x], Sabe(est[x]), Lleva(x, est[x])
  PROVE  Sabe(est[x])' /\ Lleva(x, est[x])'
BY DEF Sirviendo, Sabe, LeFaltaPagina, Lleva

MarcosUnicos == \A p, q \in paginas : p.marco = q.marco => p = q

\* A step of the request that is served: what has to be seen of it.
LEMMA PasoDeUno ==
  ASSUME UnoInv, NEW h \in Hilos, NadieMas(h), \A x \in Hilos \ {h} : est'[x] = est[x],
         Sabe(est[h])', Lleva(h, est[h])', RespuestaEsperada', IdsUnicos', ClavesUnicas',
         MarcosUnicos', bits' = {p.marco : p \in paginas'} \cup EnManoDe(est[h])'
  PROVE  UnoInv'
<1>1. \A x \in Hilos \ {h} : est'[x].pc # "guarda"
  BY DEF NadieMas, Sirviendo
<1>2. EnMano' = EnManoDe(est[h])'
  <2>1. EnMano' = {est'[x].marco : x \in {y \in Hilos : est'[y].pc = "guarda" /\ est'[y].victima # 0}}
    BY DEF EnMano
  <2>2. EnManoDe(est[h])' = EnManoDe(est'[h])
    BY DEF EnManoDe
  <2> QED BY <1>1, <2>1, <2>2, LoQueHayEnMano
<1>3. MarcosExactos'
  BY <1>2 DEF MarcosExactos, MarcosUnicos
<1>4. \A x \in Hilos : Sabe(est[x])' /\ Lleva(x, est[x])'
  BY LosDemas DEF UnoInv, NadieMas
<1> QED BY <1>3, <1>4 DEF UnoInv

\* What is known of the frames while h is served.
LEMMA MarcosDeUno ==
  ASSUME UnoInv, NEW h \in Hilos, NadieMas(h)
  PROVE  MarcosUnicos /\ bits = {p.marco : p \in paginas} \cup EnManoDe(est[h])
<1>1. \A x \in Hilos \ {h} : est[x].pc # "guarda"
  BY DEF NadieMas, Sirviendo
<1>2. EnMano = EnManoDe(est[h])
  <2>1. EnMano = {est[x].marco : x \in {y \in Hilos : est[y].pc = "guarda" /\ est[y].victima # 0}}
    BY DEF EnMano
  <2> QED BY <1>1, <2>1, LoQueHayEnMano
<1> QED BY <1>2 DEF UnoInv, MarcosExactos, MarcosUnicos

LEMMA CacheQuieta ==
  ASSUME UNCHANGED cache
  PROVE  /\ \A t : Segmento(t)' = Segmento(t)
         /\ \A s, k : PaginasDe(s, k)' = PaginasDe(s, k)
         /\ \A m : PaginasDelMarco(m)' = PaginasDelMarco(m)
         /\ IdsUnicos' = IdsUnicos /\ ClavesUnicas' = ClavesUnicas /\ MarcosUnicos' = MarcosUnicos
         /\ EnUso' = EnUso
BY DEF cache, Segmento, Indices, PaginasDe, PaginasDelMarco, IdsUnicos, ClavesUnicas, MarcosUnicos, EnUso

\* A step of the request that is served, that leaves the cache alone.
LEMMA PasoSinCache ==
  ASSUME Tipos, UnoInv, NEW h \in Hilos, NadieMas(h), UNCHANGED cache,
         \A x \in Hilos \ {h} : est'[x] = est[x],
         Sabe(est'[h]), Lleva(h, est[h])', RespuestaEsperada',
         EnManoDe(est'[h]) = EnManoDe(est[h])
  PROVE  UnoInv'
<1>1. Sabe(est[h])'
  BY CacheQuieta DEF Sabe, SinPagina, LeFaltaPagina, cache
<1>2. EnManoDe(est[h])' = EnManoDe(est'[h])
  BY DEF EnManoDe
<1>3. MarcosUnicos /\ bits = {p.marco : p \in paginas} \cup EnManoDe(est[h])
  BY MarcosDeUno
<1>4. IdsUnicos' /\ ClavesUnicas' /\ MarcosUnicos'
  BY <1>3, CacheQuieta DEF UnoInv
<1>5. paginas' = paginas /\ bits' = bits
  BY DEF cache
<1>6. bits' = {p.marco : p \in paginas'} \cup EnManoDe(est[h])'
  BY <1>2, <1>3, <1>5
<1> QED BY <1>1, <1>4, <1>6, PasoDeUno

\* Before the answer of the file system and after it there is none.
LEMMA SigueSinRespuestas ==
  ASSUME Tipos, UnoInv, NEW h \in Hilos, NadieMas(h), est[h].pc # "espera", deLFS' = deLFS
  PROVE  RespuestaEsperada'
<1>1. deLFS' = <<>>
  BY NadaEnCamino DEF UnoInv
<1> QED BY <1>1 DEF RespuestaEsperada

\* Ends and rejections.
LEMMA RequestUno ==
  ASSUME Tipos, UnoInv, NEW h \in Hilos, NadieMas(h), RechazarValor(h) \/ Responder(h) \/ Soltar(h)
  PROVE  UnoInv'
<1>1. EstadoTipado(est[h]) /\ Lleva(h, est[h]) /\ est \in [Hilos -> EstadosDeHilo]
  BY DEF Tipos, HilosTipados, UnoInv
<1>2. UNCHANGED <<cache, deLFS>> /\ est[h].pc \in {"busca", "responde", "suelta"}
  BY DEF RechazarValor, Responder, Soltar, fs
<1>3. RespuestaEsperada'
  BY <1>2, SigueSinRespuestas
<1>4. CASE RechazarValor(h)
  <2>1. Responde(h, "VALUE_INVALIDO", est[h]) /\ "VALUE_INVALIDO" \in Codigos
    BY <1>4 DEF RechazarValor, Codigos
  <2>2. /\ est'[h].pc = "responde" /\ est'[h].op = est[h].op /\ est'[h].cod = "VALUE_INVALIDO"
        /\ \A x \in Hilos \ {h} : est'[x] = est[x]
    BY <1>1, <2>1, RespondeCampos
  <2>3. Sabe(est'[h]) /\ Lleva(h, est[h])' /\ EnManoDe(est'[h]) = EnManoDe(est[h])
    BY <1>1, <1>2, <1>4, <2>2 DEF Sabe, LeFaltaPagina, Lleva, EnManoDe, RechazarValor
  <2> QED BY <1>2, <1>3, <2>2, <2>3, PasoSinCache
<1>5. CASE Responder(h)
  <2> DEFINE e == [Ocioso EXCEPT !.op = est[h].op]
  <2>1. EstadoTipado(e) /\ e.op = est[h].op /\ e.seg = 0 /\ e.victima = 0
    BY <1>1, ElOcioso DEF EstadoTipado, EstadosDeHilo, Ocioso
  <2>2. Sigue(h, "suelta", e) /\ "suelta" \in Pcs /\ est[h].pc = "responde"
    BY <1>5 DEF Responder, Pcs
  <2> HIDE DEF e
  <2>3. /\ est'[h].pc = "suelta" /\ est'[h].op = est[h].op /\ est'[h].victima = 0
        /\ \A x \in Hilos \ {h} : est'[x] = est[x]
    BY <2>1, <2>2, SigueCampos
  <2>4. Sabe(est'[h]) /\ Lleva(h, est[h])' /\ EnManoDe(est'[h]) = EnManoDe(est[h])
    BY <1>1, <2>2, <2>3 DEF Sabe, LeFaltaPagina, Lleva, EnManoDe
  <2> QED BY <1>2, <1>3, <2>3, <2>4, PasoSinCache
<1>6. CASE Soltar(h)
  <2>1. /\ est'[h] = Ocioso /\ est[h].pc = "suelta"
        /\ \A x \in Hilos \ {h} : est'[x] = est[x]
    BY <1>1, <1>6 DEF Soltar
  <2>2. Ocioso.pc = "ocioso" /\ Ocioso.seg = 0 /\ Ocioso.victima = 0
    BY DEF Ocioso
  <2>3. Sabe(est'[h]) /\ Lleva(h, est[h])' /\ EnManoDe(est'[h]) = EnManoDe(est[h])
    BY <2>1, <2>2 DEF Sabe, LeFaltaPagina, Lleva, EnManoDe
  <2> QED BY <1>2, <1>3, <2>1, <2>3, PasoSinCache
<1> QED BY <1>4, <1>5, <1>6

\* The segments and their pages, by name.
LEMMA PaginasDelInexistente ==
  ASSUME CacheTipada, NEW k
  PROVE  PaginasDe(0, k) = {}
BY DEF CacheTipada, TipoDePagina, PaginasDe

\* The search of estaEnMemoria.
LEMMA BuscarSegmentoUno ==
  ASSUME Tipos, UnoInv, NEW h \in Hilos, NadieMas(h), BuscarSegmento(h) \/ FaltaPagina(h)
  PROVE  UnoInv'
<1> DEFINE e == est[h]
           s == Segmento(e.tabla)
<1>1. EstadoTipado(e) /\ Lleva(h, e) /\ Sabe(e) /\ CacheTipada
  BY DEF Tipos, HilosTipados, UnoInv
<1>2. UNCHANGED <<cache, deLFS>> /\ est[h].pc \in {"busca", "buscaPagina"}
  BY DEF BuscarSegmento, FaltaPagina, fs
<1>3. RespuestaEsperada'
  BY <1>2, SigueSinRespuestas
<1>4. CASE BuscarSegmento(h) /\ s # 0
  <2> DEFINE f == [e EXCEPT !.seg = s]
  <2>1. s \in Nat
    BY <1>1, SegmentoTipado
  <2>2. EstadoTipado(f) /\ f.op = e.op /\ f.tabla = e.tabla /\ f.seg = s /\ f.victima = e.victima
    BY <1>1, <2>1 DEF EstadoTipado, EstadosDeHilo
  <2>3. Sigue(h, "buscaPagina", f) /\ "buscaPagina" \in Pcs /\ e.pc = "busca"
    BY <1>4 DEF BuscarSegmento, Pcs
  <2> HIDE DEF f
  <2>4. /\ est'[h].pc = "buscaPagina" /\ est'[h].op = e.op /\ est'[h].tabla = e.tabla
        /\ est'[h].seg = s /\ est'[h].victima = e.victima
        /\ \A x \in Hilos \ {h} : est'[x] = est[x]
    BY <2>2, <2>3, SigueCampos
  <2>5. Sabe(est'[h]) /\ Lleva(h, est[h])' /\ EnManoDe(est'[h]) = EnManoDe(est[h])
    BY <1>1, <2>3, <2>4 DEF Sabe, LeFaltaPagina, Lleva, EnManoDe
  <2> QED BY <1>2, <1>3, <2>4, <2>5, PasoSinCache
<1>5. CASE (BuscarSegmento(h) /\ s = 0) \/ FaltaPagina(h)
  <2>1. DespuesDeBuscar(h, e)
    BY <1>5 DEF BuscarSegmento, FaltaPagina
  <2>2. PICK pc \in {"envia", "pideMarco"} : Sigue(h, pc, e)
    BY <2>1 DEF DespuesDeBuscar
  <2>3. pc \in Pcs
    BY DEF Pcs
  <2>4. /\ est'[h].pc = pc /\ est'[h].op = e.op /\ est'[h].tabla = e.tabla
        /\ est'[h].key = e.key /\ est'[h].seg = e.seg /\ est'[h].victima = e.victima
        /\ \A x \in Hilos \ {h} : est'[x] = est[x]
    BY <1>1, <2>2, <2>3, SigueCampos
  <2>5. SinPagina(e)
    <3>1. CASE BuscarSegmento(h) /\ s = 0
      BY <1>1, <3>1, PaginasDelInexistente DEF BuscarSegmento, Lleva, SinPagina
    <3>2. CASE FaltaPagina(h)
      BY <1>1, <3>2 DEF FaltaPagina, Sabe, SinPagina
    <3> QED BY <1>5, <3>1, <3>2
  <2>6. Sabe(est'[h])
    BY <2>4, <2>5 DEF Sabe, SinPagina
  <2>7. Lleva(h, est[h])' /\ EnManoDe(est'[h]) = EnManoDe(est[h])
    BY <1>1, <1>2, <2>4 DEF Lleva, EnManoDe
  <2> QED BY <1>2, <1>3, <2>4, <2>6, <2>7, PasoSinCache
<1> QED BY <1>4, <1>5

\* ConseguirMarco, until the victim is out of its segment.
LEMMA PedirMarcoUno ==
  ASSUME Tipos, UnoInv, NEW h \in Hilos, NadieMas(h), PedirMarco(h)
  PROVE  UnoInv'
<1> DEFINE e == [est[h] EXCEPT !.ts = IF est[h].op = "INSERT" THEN hora + 1 ELSE @]
<1>1. EstadoTipado(est[h]) /\ Lleva(h, est[h]) /\ Sabe(est[h]) /\ est[h].pc = "pideMarco"
  BY DEF Tipos, HilosTipados, UnoInv, PedirMarco
<1>2. UNCHANGED <<cache, deLFS>>
  BY DEF PedirMarco, fs
<1>3. RespuestaEsperada'
  BY <1>1, <1>2, SigueSinRespuestas
<1>4. /\ EstadoTipado(e) /\ e.op = est[h].op /\ e.tabla = est[h].tabla /\ e.key = est[h].key
      /\ e.seg = est[h].seg /\ e.victima = est[h].victima
  <2>1. hora + 1 \in Horas
    BY DEF Tipos, RestoTipado, Horas
  <2> QED BY <1>1, <2>1 DEF EstadoTipado, EstadosDeHilo
<1>5. bits # Marcos => Min(Marcos \ bits) \in Marcos \ bits
  <2>1. Marcos \ bits \subseteq Nat /\ bits \subseteq Marcos
    BY MarcosAssumption DEF Marcos, Tipos, CacheTipada
  <2> QED BY <2>1, HayMinimo
<1>6. \/ bits # Marcos /\ Sigue(h, "guarda", [e EXCEPT !.marco = Min(Marcos \ bits)])
      \/ bits = Marcos /\ Sigue(h, "eligeVictima", e)
  BY HayLibres DEF PedirMarco, MarcosLibres, Tipos
<1> HIDE DEF e
<1>7. /\ est'[h].op = est[h].op /\ est'[h].tabla = est[h].tabla /\ est'[h].key = est[h].key
      /\ est'[h].seg = est[h].seg /\ est'[h].victima = est[h].victima
      /\ \/ est'[h].pc = "guarda" /\ est'[h].marco \notin bits
         \/ est'[h].pc = "eligeVictima" /\ bits = Marcos
      /\ \A x \in Hilos \ {h} : est'[x] = est[x]
  <2>1. CASE bits # Marcos /\ Sigue(h, "guarda", [e EXCEPT !.marco = Min(Marcos \ bits)])
    <3> DEFINE f == [e EXCEPT !.marco = Min(Marcos \ bits)]
    <3>1. EstadoTipado(f) /\ "guarda" \in Pcs
      BY <1>4, <1>5, <2>1 DEF EstadoTipado, EstadosDeHilo, Pcs
    <3>2. /\ f.op = e.op /\ f.tabla = e.tabla /\ f.key = e.key /\ f.seg = e.seg
          /\ f.victima = e.victima /\ f.marco = Min(Marcos \ bits)
      BY <1>4 DEF EstadoTipado, EstadosDeHilo
    <3>3. Sigue(h, "guarda", f)
      BY <2>1
    <3> HIDE DEF f
    <3> QED BY <1>4, <1>5, <2>1, <3>1, <3>2, <3>3, SigueCampos
  <2>2. CASE bits = Marcos /\ Sigue(h, "eligeVictima", e)
    <3>1. "eligeVictima" \in Pcs
      BY DEF Pcs
    <3> QED BY <1>4, <2>2, <3>1, SigueCampos
  <2> QED BY <1>6, <2>1, <2>2
<1>8. SinPagina(est[h]) /\ est[h].victima = 0
  BY <1>1 DEF Sabe, LeFaltaPagina, Lleva
<1>9. Sabe(est'[h])
  BY <1>7, <1>8 DEF Sabe, SinPagina
<1>10. Lleva(h, est[h])' /\ EnManoDe(est'[h]) = EnManoDe(est[h])
  BY <1>1, <1>7, <1>8 DEF Lleva, EnManoDe
<1> QED BY <1>2, <1>3, <1>7, <1>9, <1>10, PasoSinCache

LEMMA ElegirVictimaUno ==
  ASSUME Tipos, UnoInv, NEW h \in Hilos, NadieMas(h), ElegirVictima(h)
  PROVE  UnoInv'
<1> DEFINE e == est[h]
<1>1. EstadoTipado(e) /\ Lleva(h, e) /\ Sabe(e) /\ e.pc = "eligeVictima"
  BY DEF Tipos, HilosTipados, UnoInv, ElegirVictima
<1>2. UNCHANGED <<cache, deLFS>>
  BY DEF ElegirVictima, fs
<1>3. RespuestaEsperada'
  BY <1>1, <1>2, SigueSinRespuestas
<1>4. PICK p \in paginas : Sigue(h, "desvincula", [e EXCEPT !.victima = p.seg, !.marco = p.marco])
  BY DEF ElegirVictima, Victimas, SinModificar
<1>5. p.seg \in Nat \ {0} /\ p.marco \in Marcos
  BY DEF Tipos, CacheTipada, TipoDePagina
<1> DEFINE f == [e EXCEPT !.victima = p.seg, !.marco = p.marco]
<1>6. /\ EstadoTipado(f) /\ f.op = e.op /\ f.tabla = e.tabla /\ f.key = e.key /\ f.seg = e.seg
      /\ f.victima # 0
  BY <1>1, <1>5 DEF EstadoTipado, EstadosDeHilo
<1>7. Sigue(h, "desvincula", f) /\ "desvincula" \in Pcs
  BY <1>4 DEF Pcs
<1> HIDE DEF f
<1>8. /\ est'[h].pc = "desvincula" /\ est'[h].op = e.op /\ est'[h].tabla = e.tabla
      /\ est'[h].key = e.key /\ est'[h].seg = e.seg /\ est'[h].victima # 0
      /\ \A x \in Hilos \ {h} : est'[x] = est[x]
  BY <1>6, <1>7, SigueCampos
<1>9. SinPagina(e) /\ bits = Marcos
  BY <1>1 DEF Sabe, LeFaltaPagina
<1>10. Sabe(est'[h])
  BY <1>8, <1>9 DEF Sabe, SinPagina
<1>11. Lleva(h, est[h])' /\ EnManoDe(est'[h]) = EnManoDe(est[h])
  BY <1>1, <1>8 DEF Lleva, EnManoDe
<1> QED BY <1>2, <1>3, <1>8, <1>10, <1>11, PasoSinCache

\* LRU finds a page if there is one that is not modified.
LEMMA HayVictima ==
  ASSUME CacheTipada, SinModificar # {}
  PROVE  Victimas # {}
<1> DEFINE ts(p) == marcos[p.marco].timestamp
           T == {ts(p) + 1 : p \in SinModificar}
<1>1. \A p \in SinModificar : ts(p) \in Horas
  BY DEF CacheTipada, TipoDePagina, SinModificar
<1>2. \A p \in SinModificar : ts(p) + 1 \in Nat /\ ts(p) \in Int
  BY <1>1 DEF Horas
<1>3. T \subseteq Nat /\ T # {}
  BY <1>2
<1>4. Min(T) \in T /\ \A x \in T : Min(T) <= x
  BY <1>3, HayMinimo
<1>5. PICK p \in SinModificar : Min(T) = ts(p) + 1
  BY <1>4
<1>6. \A q \in SinModificar : ts(p) + 1 <= ts(q) + 1
  BY <1>4, <1>5
<1>7. \A q \in SinModificar : ts(p) <= ts(q)
  BY <1>2, <1>6
<1> QED BY <1>7 DEF Victimas

LEMMA MemoriaFullUno ==
  ASSUME Tipos, UnoInv, NEW h \in Hilos, NadieMas(h), MemoriaFull(h)
  PROVE  UnoInv'
<1>1. EstadoTipado(est[h]) /\ Lleva(h, est[h]) /\ Sabe(est[h]) /\ est[h].pc = "eligeVictima"
  BY DEF Tipos, HilosTipados, UnoInv, MemoriaFull
<1>2. UNCHANGED <<cache, deLFS>>
  BY DEF MemoriaFull, fs
<1>3. RespuestaEsperada'
  BY <1>1, <1>2, SigueSinRespuestas
<1>4. Responde(h, "MEMORIA_FULL", est[h]) /\ "MEMORIA_FULL" \in Codigos
  BY DEF MemoriaFull, Codigos
<1>5. /\ est'[h].pc = "responde" /\ est'[h].op = est[h].op
      /\ \A x \in Hilos \ {h} : est'[x] = est[x]
  BY <1>1, <1>4, RespondeCampos
<1>6. {p.marco : p \in {q \in paginas : q.modificado}} = Marcos
  <2>1. {p.marco : p \in paginas} = Marcos
    BY <1>1, MarcosDeUno DEF Sabe, EnManoDe
  <2>2. SinModificar = {}
    BY HayVictima DEF MemoriaFull, Tipos
  <2>3. {q \in paginas : q.modificado} = paginas
    BY <2>2 DEF SinModificar
  <2> QED BY <2>1, <2>3
<1>7. Sabe(est'[h])
  BY <1>5, <1>6 DEF Sabe, LeFaltaPagina
<1>8. Lleva(h, est[h])' /\ EnManoDe(est'[h]) = EnManoDe(est[h])
  BY <1>1, <1>5 DEF Lleva, EnManoDe
<1> QED BY <1>2, <1>3, <1>5, <1>7, <1>8, PasoSinCache

\* An access to what a DROP freed: nothing else changes.
LEMMA InvalidoUno ==
  ASSUME Tipos, UnoInv, NEW h \in Hilos, NadieMas(h), Invalido
  PROVE  UnoInv'
<1>1. UNCHANGED <<cache, deLFS, est>>
  BY DEF Invalido, fs
<1>2. Sabe(est'[h]) /\ Lleva(h, est[h])' /\ EnManoDe(est'[h]) = EnManoDe(est[h])
  BY <1>1 DEF UnoInv, Lleva
<1>3. RespuestaEsperada'
  BY <1>1 DEF UnoInv, RespuestaEsperada
<1> QED BY <1>1, <1>2, <1>3, PasoSinCache

LEMMA DesvincularUno ==
  ASSUME Tipos, UnoInv, NEW h \in Hilos, NadieMas(h), Desvincular(h)
  PROVE  UnoInv'
<1> DEFINE e == est[h]
           m == e.marco
<1>1. EstadoTipado(e) /\ Lleva(h, e) /\ Sabe(e) /\ e.pc = "desvincula"
  BY DEF Tipos, HilosTipados, UnoInv, Desvincular
<1>2. UNCHANGED <<segmentos, marcos, bits, deLFS>> /\ Sigue(h, "guarda", e) /\ "guarda" \in Pcs
  BY DEF Desvincular, fs, Pcs
<1>3. RespuestaEsperada'
  BY <1>1, <1>2, SigueSinRespuestas
<1>4. PICK quitadas \in SUBSET PaginasDelMarco(m) :
        /\ \A p \in PaginasDelMarco(m) : \E q \in quitadas : q.seg = p.seg
        /\ paginas' = paginas \ quitadas
  BY DEF Desvincular
<1>5. MarcosUnicos /\ bits = {p.marco : p \in paginas} /\ bits = Marcos /\ e.victima # 0
  BY <1>1, MarcosDeUno DEF EnManoDe, Sabe, Lleva
<1>6. quitadas = PaginasDelMarco(m)
  BY <1>4, <1>5 DEF PaginasDelMarco, MarcosUnicos
<1>7. paginas' = {p \in paginas : p.marco # m}
  BY <1>4, <1>6 DEF PaginasDelMarco
<1>8. /\ est'[h].pc = "guarda" /\ est'[h].op = e.op /\ est'[h].tabla = e.tabla
      /\ est'[h].key = e.key /\ est'[h].seg = e.seg /\ est'[h].victima = e.victima
      /\ est'[h].marco = m
      /\ \A x \in Hilos \ {h} : est'[x] = est[x]
  BY <1>1, <1>2, SigueCampos
<1>9. Sabe(est[h])'
  <2>1. SinPagina(e)
    BY <1>1 DEF Sabe, LeFaltaPagina
  <2>2. Segmento(est[h].tabla)' = Segmento(e.tabla)
    BY <1>2, <1>8 DEF Segmento, Indices
  <2>3. PaginasDe(est[h].seg, est[h].key)' = {}
    BY <1>2, <1>7, <1>8, <2>1 DEF PaginasDe, SinPagina
  <2>4. PaginasDelMarco(est[h].marco)' = {}
    BY <1>7, <1>8 DEF PaginasDelMarco
  <2> QED BY <1>5, <1>8, <2>1, <2>2, <2>3, <2>4 DEF Sabe, SinPagina
<1>10. Lleva(h, est[h])'
  BY <1>1, <1>8 DEF Lleva
<1>11. IdsUnicos' /\ ClavesUnicas' /\ MarcosUnicos'
  BY <1>2, <1>5, <1>7 DEF UnoInv, IdsUnicos, ClavesUnicas, MarcosUnicos
<1>12. bits' = {p.marco : p \in paginas'} \cup EnManoDe(est[h])'
  <2>1. EnManoDe(est[h])' = {m}
    BY <1>5, <1>8 DEF EnManoDe
  <2>2. m \in Marcos
    BY <1>1 DEF EstadoTipado, EstadosDeHilo
  <2> QED BY <1>2, <1>5, <1>7, <2>1, <2>2
<1> QED BY <1>3, <1>8, <1>9, <1>10, <1>11, <1>12, PasoDeUno

LEMMA ConseguirMarcoUno ==
  ASSUME Tipos, UnoInv, NEW h \in Hilos, NadieMas(h), ConseguirMarco(h)
  PROVE  UnoInv'
BY PedirMarcoUno, ElegirVictimaUno, MemoriaFullUno, DesvincularUno, InvalidoUno
   DEF ConseguirMarco, VictimaLiberada

\* A page of the cache is read or written where it is.
LEMMA UsarPaginaUno ==
  ASSUME Tipos, UnoInv, NEW h \in Hilos, NadieMas(h), LeerPagina(h) \/ ActualizarPagina(h)
  PROVE  UnoInv'
<1> DEFINE e == est[h]
<1>1. EstadoTipado(e) /\ Lleva(h, e) /\ Sabe(e) /\ e.pc = "buscaPagina" /\ CacheTipada
  BY DEF Tipos, HilosTipados, UnoInv, LeerPagina, ActualizarPagina
<1>2. UNCHANGED <<segmentos, bits, deLFS>>
  BY DEF LeerPagina, ActualizarPagina, fs
<1>3. RespuestaEsperada'
  BY <1>1, <1>2, SigueSinRespuestas
<1>4. /\ est'[h].pc = "responde" /\ est'[h].op = e.op /\ est'[h].cod = "SUCCESS"
      /\ \A x \in Hilos \ {h} : est'[x] = est[x]
  <2>1. "SUCCESS" \in Codigos
    BY DEF Codigos
  <2>2. CASE LeerPagina(h)
    <3>1. PICK p \in paginas : Responde(h, "SUCCESS", [e EXCEPT !.valor = marcos[p.marco].valor])
      BY <2>2 DEF LeerPagina, PaginasDe
    <3> DEFINE f == [e EXCEPT !.valor = marcos[p.marco].valor]
    <3>2. marcos[p.marco].valor \in Valores
      BY <1>1 DEF CacheTipada, TipoDePagina
    <3>3. EstadoTipado(f) /\ f.op = e.op
      BY <1>1, <3>2 DEF EstadoTipado, EstadosDeHilo
    <3> HIDE DEF f
    <3> QED BY <2>1, <3>1, <3>3, RespondeCampos DEF f
  <2>3. CASE ActualizarPagina(h)
    BY <1>1, <2>1, <2>3, RespondeCampos DEF ActualizarPagina
  <2> QED BY <2>2, <2>3
<1>5. PICK p \in paginas :
        /\ marcos' \in [Marcos -> [key : Claves, valor : Valores, timestamp : Horas]]
        /\ \A m \in Marcos : marcos'[m].key = marcos[m].key
        /\ \/ paginas' = paginas
           \/ paginas' = (paginas \ {p}) \cup {[p EXCEPT !.modificado = TRUE]}
  <2>1. hora + 1 \in Horas
    BY DEF Tipos, RestoTipado, Horas
  <2>2. CASE LeerPagina(h)
    <3>1. PICK p \in PaginasDe(e.seg, e.key) :
            marcos' = [marcos EXCEPT ![p.marco].timestamp = hora + 1]
      BY <2>2 DEF LeerPagina
    <3>2. p \in paginas /\ p.marco \in Marcos
      BY <1>1 DEF PaginasDe, CacheTipada, TipoDePagina
    <3>3. /\ marcos' \in [Marcos -> [key : Claves, valor : Valores, timestamp : Horas]]
          /\ \A m \in Marcos : marcos'[m].key = marcos[m].key
      BY <1>1, <2>1, <3>1, <3>2 DEF CacheTipada
    <3> QED BY <2>2, <3>2, <3>3 DEF LeerPagina
  <2>3. CASE ActualizarPagina(h)
    <3>1. PICK p \in PaginasDe(e.seg, e.key) :
            /\ marcos' = [marcos EXCEPT ![p.marco] =
                 [key |-> e.key, valor |-> e.valor, timestamp |-> hora + 1]]
            /\ paginas' = (paginas \ {p}) \cup {[p EXCEPT !.modificado = TRUE]}
      BY <2>3 DEF ActualizarPagina
    <3>2. p \in paginas /\ p.marco \in Marcos /\ marcos[p.marco].key = e.key
      BY <1>1 DEF PaginasDe, CacheTipada, TipoDePagina
    <3>3. [key |-> e.key, valor |-> e.valor, timestamp |-> hora + 1]
            \in [key : Claves, valor : Valores, timestamp : Horas]
      BY <1>1, <2>1 DEF EstadoTipado, EstadosDeHilo
    <3>4. /\ marcos' \in [Marcos -> [key : Claves, valor : Valores, timestamp : Horas]]
          /\ \A m \in Marcos : marcos'[m].key = marcos[m].key
      BY <1>1, <3>1, <3>2, <3>3 DEF CacheTipada
    <3> QED BY <3>1, <3>2, <3>4
  <2> QED BY <2>2, <2>3
<1>6. Sabe(est[h])' /\ Lleva(h, est[h])' /\ EnManoDe(est[h])' = {}
  BY <1>1, <1>4 DEF Sabe, LeFaltaPagina, Lleva, EnManoDe
<1>7. MarcosUnicos /\ bits = {q.marco : q \in paginas}
  BY <1>1, MarcosDeUno DEF EnManoDe
<1> DEFINE r == [p EXCEPT !.modificado = TRUE]
<1>8. r.marco = p.marco /\ r.seg = p.seg /\ \A q \in paginas : q.marco \in Marcos
  BY <1>1 DEF CacheTipada, TipoDePagina
<1> HIDE DEF r
\* The page that changes stands for itself.
<1>9. \A q \in paginas' : \E o \in paginas :
        /\ q.marco = o.marco /\ q.seg = o.seg
        /\ q = IF paginas' # paginas /\ o = p THEN r ELSE o
  BY <1>5, <1>8 DEF r
<1>10. {q.marco : q \in paginas'} = {q.marco : q \in paginas}
  <2>1. \A o \in paginas : \E q \in paginas' : q.marco = o.marco
    BY <1>5, <1>8 DEF r
  <2> QED BY <1>9, <2>1
<1>11. MarcosUnicos'
  BY <1>7, <1>9 DEF MarcosUnicos
<1>12. IdsUnicos'
  BY <1>2 DEF UnoInv, IdsUnicos
<1>13. ClavesUnicas'
  <2>1. \A q, o \in paginas : q.seg = o.seg /\ marcos[q.marco].key = marcos[o.marco].key => q = o
    BY DEF UnoInv, ClavesUnicas
  <2>2. \A q, o \in paginas' : q.seg = o.seg /\ marcos'[q.marco].key = marcos'[o.marco].key => q = o
    BY <1>5, <1>8, <1>9, <2>1
  <2> QED BY <1>2, <2>2 DEF UnoInv, ClavesUnicas
<1> QED BY <1>2, <1>3, <1>4, <1>6, <1>7, <1>10, <1>11, <1>12, <1>13, PasoDeUno

LEMMA BuscarUno ==
  ASSUME Tipos, UnoInv, NEW h \in Hilos, NadieMas(h), Buscar(h)
  PROVE  UnoInv'
BY BuscarSegmentoUno, UsarPaginaUno, InvalidoUno DEF Buscar, SegmentoLiberado

TablasUnicas ==
  \A i, j \in DOMAIN segmentos : segmentos[i].tabla = segmentos[j].tabla => i = j

\* A table without a segment gets one.
LEMMA SegmentoUnico ==
  ASSUME Tipos, UnoInv, NEW t, Segmento(t) = 0,
         segmentos' = Append(segmentos, [id |-> IdLibre, tabla |-> t])
  PROVE  IdsUnicos' /\ TablasUnicas'
<1> DEFINE x == [id |-> IdLibre, tabla |-> t]
           n == Len(segmentos)
<1>1. x.id = IdLibre /\ x.tabla = t
  OBVIOUS
<1> HIDE DEF x
<1>2. /\ DOMAIN segmentos = 1..n /\ DOMAIN segmentos' = 1..(n + 1) /\ n \in Nat
      /\ \A i \in 1..n : segmentos'[i] = segmentos[i]
      /\ segmentos'[n + 1] = x
  BY DEF Tipos, CacheTipada, x
<1>3. \A i \in 1..n : segmentos[i].id \in EnUso /\ segmentos[i].id # 0
  <2>1. \A i \in 1..n : segmentos[i] \in TipoDeSegmento
    BY <1>2 DEF Tipos, CacheTipada
  <2> QED BY <1>2, <2>1 DEF EnUso, TipoDeSegmento
<1>4. \A i \in 1..n : segmentos[i].id # x.id
  BY <1>1, <1>3, TiposEsTypeOK, SegmentoNuevo
<1>5. \A i \in 1..n : segmentos[i].tabla # x.tabla
  <2>1. Indices(t) = {}
    BY <1>2, <1>3, SegmentoTipado DEF Tipos
  <2> QED BY <1>1, <1>2, <2>1 DEF Indices
<1>6. /\ \A i, j \in 1..n : segmentos[i].id = segmentos[j].id => i = j
      /\ \A i, j \in 1..n : segmentos[i].tabla = segmentos[j].tabla => i = j
  BY <1>2 DEF UnoInv, IdsUnicos, ClavesUnicas
<1>7. \A i, j \in 1..(n + 1) : segmentos'[i].id = segmentos'[j].id => i = j
  BY <1>2, <1>4, <1>6
<1>8. \A i, j \in 1..(n + 1) : segmentos'[i].tabla = segmentos'[j].tabla => i = j
  BY <1>2, <1>5, <1>6
<1> QED BY <1>2, <1>7, <1>8 DEF IdsUnicos, TablasUnicas

\* A request is over when it has to be answered.
LEMMA Respondido ==
  ASSUME NEW h \in Hilos, Lleva(h, est[h]), est[h].pc # "ocioso",
         est'[h].pc = "responde", est'[h].op = est[h].op, est'[h].cod # "MEMORIA_FULL"
  PROVE  Sabe(est[h])' /\ Lleva(h, est[h])' /\ EnManoDe(est[h])' = {}
BY DEF Sabe, LeFaltaPagina, Lleva, EnManoDe

\* A page enters the cache, in the frame that the request has, and no page of
\* its segment has the key that the frame is left with.
LEMMA EntraPagina ==
  ASSUME Tipos, UnoInv, NEW h \in Hilos, NadieMas(h), est[h].pc = "guarda",
         NEW s \in Nat \ {0}, NEW b \in BOOLEAN,
         paginas' = paginas \cup {Pagina(s, est[h], b)},
         bits' = bits \cup {est[h].marco},
         \A m \in Marcos \ {est[h].marco} : marcos'[m] = marcos[m],
         \A p \in paginas : p.seg = s => marcos[p.marco].key # marcos'[est[h].marco].key,
         Responde(h, "SUCCESS", est[h]), UNCHANGED fs, IdsUnicos', TablasUnicas'
  PROVE  UnoInv'
<1> DEFINE e == est[h]
           m == e.marco
           q == Pagina(s, e, b)
<1>1. EstadoTipado(e) /\ Lleva(h, e) /\ Sabe(e) /\ CacheTipada
  BY DEF Tipos, HilosTipados, UnoInv
<1>2. q.seg = s /\ q.marco = m /\ q \in TipoDePagina
  BY <1>1, PaginaTipada DEF Pagina
<1>3. /\ est'[h].pc = "responde" /\ est'[h].op = e.op /\ est'[h].cod = "SUCCESS"
      /\ \A x \in Hilos \ {h} : est'[x] = est[x]
  BY <1>1, RespondeCampos DEF Codigos
<1>4. RespuestaEsperada'
  BY SigueSinRespuestas DEF fs
<1>5. Sabe(est[h])' /\ Lleva(h, est[h])' /\ EnManoDe(est[h])' = {}
  BY <1>1, <1>3, Respondido
<1>6. MarcosUnicos /\ bits = {p.marco : p \in paginas} \cup EnManoDe(e)
  BY MarcosDeUno
<1>7. \A p \in paginas : p.marco # m /\ p.marco \in Marcos
  <2>1. \A p \in paginas : p.marco \in Marcos
    BY <1>1 DEF CacheTipada, TipoDePagina
  <2>2. CASE e.victima = 0
    BY <1>1, <1>6, <2>1, <2>2 DEF Sabe
  <2>3. CASE e.victima # 0
    BY <1>1, <2>1, <2>3 DEF Sabe, PaginasDelMarco
  <2> QED BY <2>2, <2>3
<1> HIDE DEF q
<1>8. paginas' = paginas \cup {q}
  BY DEF q
<1>9. bits' = {p.marco : p \in paginas'} \cup EnManoDe(est[h])'
  <2>1. EnManoDe(e) \subseteq {m}
    BY DEF EnManoDe
  <2>2. {p.marco : p \in paginas'} = {p.marco : p \in paginas} \cup {m}
    BY <1>2, <1>8
  <2> HIDE DEF m
  <2>3. bits' = bits \cup {m}
    BY DEF m
  <2> QED BY <1>5, <1>6, <2>1, <2>2, <2>3
<1>10. MarcosUnicos'
  BY <1>2, <1>6, <1>7, <1>8 DEF MarcosUnicos
<1>11. ClavesUnicas'
  <2>1. \A p, o \in paginas : p.seg = o.seg /\ marcos[p.marco].key = marcos[o.marco].key => p = o
    BY DEF UnoInv, ClavesUnicas
  <2>2. \A p \in paginas : marcos'[p.marco] = marcos[p.marco]
    BY <1>7
  <2>3. \A p \in paginas : p.seg = s => marcos'[p.marco].key # marcos'[m].key
    BY <2>2
  <2>4. \A p, o \in paginas' : p.seg = o.seg /\ marcos'[p.marco].key = marcos'[o.marco].key => p = o
    BY <1>2, <1>8, <2>1, <2>2, <2>3
  <2> QED BY <2>4 DEF ClavesUnicas, TablasUnicas
<1> QED BY <1>3, <1>4, <1>5, <1>9, <1>10, <1>11, PasoDeUno

LEMMA GuardarPaginaUno ==
  ASSUME Tipos, UnoInv, NEW h \in Hilos, NadieMas(h), GuardarPagina(h)
  PROVE  UnoInv'
<1> DEFINE e == est[h]
<1>1. EstadoTipado(e) /\ Sabe(e) /\ CacheTipada /\ e.pc = "guarda" /\ e.marco \in Marcos
  BY DEF Tipos, HilosTipados, UnoInv, GuardarPagina, GuardarEnSegmento, GuardarSinSegmento,
         GuardarEnNuevo, GuardarVictimaIntacta, EstadoTipado, EstadosDeHilo
<1>2. e.seg = Segmento(e.tabla) /\ PaginasDe(e.seg, e.key) = {}
  BY <1>1 DEF Sabe, LeFaltaPagina, SinPagina
<1>3. IdLibre \in Nat \ {0} /\ \A p \in paginas : p.seg # IdLibre
  BY TiposEsTypeOK, SegmentoNuevo DEF Tipos, CacheTipada
<1>4. \A s : Escribe(h, s, e) =>
        /\ paginas' = paginas \cup {Pagina(s, e, e.op = "INSERT")}
        /\ bits' = bits \cup {e.marco}
        /\ marcos'[e.marco].key = e.key
        /\ \A m \in Marcos \ {e.marco} : marcos'[m] = marcos[m]
        /\ Responde(h, "SUCCESS", e) /\ UNCHANGED fs
  BY <1>1 DEF Escribe, Contenido, CacheTipada
<1>5. (e.op = "INSERT") \in BOOLEAN
  OBVIOUS
<1>6. CASE GuardarEnSegmento(h)
  <2>1. Escribe(h, e.seg, e) /\ e.seg \in Nat \ {0} /\ UNCHANGED segmentos
    BY <1>1, <1>2, <1>6, SegmentoTipado DEF GuardarEnSegmento
  <2>2. IdsUnicos' /\ TablasUnicas'
    BY <2>1 DEF UnoInv, IdsUnicos, ClavesUnicas, TablasUnicas
  <2>3. \A p \in paginas : p.seg = e.seg => marcos[p.marco].key # e.key
    BY <1>2 DEF PaginasDe
  <2>4. /\ paginas' = paginas \cup {Pagina(e.seg, e, e.op = "INSERT")}
        /\ bits' = bits \cup {e.marco}
        /\ \A m \in Marcos \ {e.marco} : marcos'[m] = marcos[m]
        /\ \A p \in paginas : p.seg = e.seg => marcos[p.marco].key # marcos'[e.marco].key
        /\ Responde(h, "SUCCESS", e) /\ UNCHANGED fs
    BY <1>4, <2>1, <2>3
  <2> QED BY <1>1, <1>5, <2>1, <2>2, <2>4, EntraPagina
<1>7. ~GuardarSinSegmento(h)
  BY <1>2 DEF GuardarSinSegmento
<1>8. CASE GuardarEnNuevo(h)
  <2>1. /\ Escribe(h, IdLibre, e) /\ e.seg = 0
        /\ segmentos' = Append(segmentos, [id |-> IdLibre, tabla |-> e.tabla])
    BY <1>8 DEF GuardarEnNuevo
  <2>2. IdsUnicos' /\ TablasUnicas'
    BY <1>2, <2>1, SegmentoUnico
  <2> QED BY <1>1, <1>3, <1>4, <1>5, <2>1, <2>2, EntraPagina
<1>9. CASE GuardarVictimaIntacta(h)
  <2>1. /\ e.seg = 0 /\ e.victima # 0
        /\ segmentos' = Append(segmentos, [id |-> IdLibre, tabla |-> e.tabla])
        /\ paginas' = paginas \cup {Pagina(IdLibre, e, FALSE)}
        /\ Responde(h, "SUCCESS", e)
        /\ UNCHANGED <<marcos, bits, fs>>
    BY <1>9 DEF GuardarVictimaIntacta
  <2>2. IdsUnicos' /\ TablasUnicas'
    BY <1>2, <2>1, SegmentoUnico
  <2>3. e.marco \in bits
    BY <1>1, <2>1, MarcosDeUno DEF EnManoDe
  <2>4. bits' = bits \cup {e.marco}
    BY <2>1, <2>3
  <2> QED BY <1>1, <1>3, <2>1, <2>2, <2>4, EntraPagina
<1> QED BY <1>6, <1>7, <1>8, <1>9 DEF GuardarPagina

\* Segments are freed, with their pages and the frames of these.
LEMMA EliminarUno ==
  ASSUME Tipos, UnoInv, NEW h \in Hilos, NadieMas(h), est[h].pc \in {"elimina", "recorre"},
         NEW s, Eliminar(s), NEW cod \in Codigos, cod # "MEMORIA_FULL",
         Responde(h, cod, est[h]), UNCHANGED fs, IdsUnicos', TablasUnicas'
  PROVE  UnoInv'
<1> DEFINE e == est[h]
           suyas == {p \in paginas : p.seg \in s}
           liberados == {p.marco : p \in suyas}
<1>1. EstadoTipado(e) /\ Lleva(h, e) /\ CacheTipada
  BY DEF Tipos, HilosTipados, UnoInv
<1>2. /\ est'[h].pc = "responde" /\ est'[h].op = e.op /\ est'[h].cod = cod
      /\ \A x \in Hilos \ {h} : est'[x] = est[x]
  BY <1>1, RespondeCampos
<1>3. RespuestaEsperada'
  BY SigueSinRespuestas DEF fs
<1>4. Sabe(est[h])' /\ Lleva(h, est[h])' /\ EnManoDe(est[h])' = {}
  BY <1>1, <1>2, Respondido
<1>5. MarcosUnicos /\ bits = {p.marco : p \in paginas}
  BY MarcosDeUno DEF EnManoDe
<1>6. paginas' = paginas \ suyas /\ bits' = bits \ liberados
  BY DEF Eliminar
<1>7. \A m \in Marcos : marcos'[m].key = marcos[m].key
  <2>1. marcos' = [m \in Marcos |-> IF m \in liberados
                                      THEN [marcos[m] EXCEPT !.valor = SIN_VALOR]
                                      ELSE marcos[m]]
    BY DEF Eliminar
  <2>2. \A m \in Marcos : [marcos[m] EXCEPT !.valor = SIN_VALOR].key = marcos[m].key
    BY <1>1 DEF CacheTipada
  <2> HIDE DEF liberados
  <2> QED BY <2>1, <2>2
<1>8. \A p \in paginas : p.marco \in Marcos
  BY <1>1 DEF CacheTipada, TipoDePagina
<1>9. bits' = {p.marco : p \in paginas'}
  <2>1. {p.marco : p \in paginas \ suyas} = {p.marco : p \in paginas} \ liberados
    BY <1>5 DEF MarcosUnicos
  <2> QED BY <1>5, <1>6, <2>1
<1>10. MarcosUnicos'
  BY <1>5, <1>6 DEF MarcosUnicos
<1>11. ClavesUnicas'
  <2>1. \A p, o \in paginas : p.seg = o.seg /\ marcos[p.marco].key = marcos[o.marco].key => p = o
    BY DEF UnoInv, ClavesUnicas
  <2>2. \A p, o \in paginas' : p.seg = o.seg /\ marcos'[p.marco].key = marcos'[o.marco].key => p = o
    BY <1>6, <1>7, <1>8, <2>1
  <2> QED BY <2>2 DEF ClavesUnicas, TablasUnicas
<1> QED BY <1>2, <1>3, <1>4, <1>9, <1>10, <1>11, PasoDeUno

LEMMA CrearYEliminarUno ==
  ASSUME Tipos, UnoInv, NEW h \in Hilos, NadieMas(h), CrearYEliminar(h)
  PROVE  UnoInv'
<1> DEFINE e == est[h]
<1>1. EstadoTipado(e) /\ Sabe(e) /\ Lleva(h, e) /\ CacheTipada /\ e.cod \in Codigos
  BY DEF Tipos, HilosTipados, UnoInv, EstadoTipado, EstadosDeHilo
<1>2. "creaSegmento" \in Pcs /\ "SUCCESS" \in Codigos
  BY DEF Pcs, Codigos
<1>3. UNCHANGED fs /\ e.pc \in {"crea", "creaSegmento", "elimina"}
  BY DEF CrearYEliminar, BuscarAntesDeCrear, CrearSegmento, EliminarSegmento
<1>4. RespuestaEsperada'
  BY <1>3, SigueSinRespuestas DEF fs
<1>5. CASE BuscarAntesDeCrear(h)
  <2>1. UNCHANGED cache /\ e.pc = "crea"
    BY <1>5 DEF BuscarAntesDeCrear
  <2>2. CASE Segmento(e.tabla) = 0
    <3>1. Sigue(h, "creaSegmento", e)
      BY <1>5, <2>2 DEF BuscarAntesDeCrear
    <3>2. /\ est'[h].pc = "creaSegmento" /\ est'[h].op = e.op /\ est'[h].tabla = e.tabla
          /\ est'[h].victima = e.victima
          /\ \A x \in Hilos \ {h} : est'[x] = est[x]
      BY <1>1, <1>2, <3>1, SigueCampos
    <3>3. Sabe(est'[h]) /\ Lleva(h, est[h])' /\ EnManoDe(est'[h]) = EnManoDe(est[h])
      BY <1>1, <2>1, <2>2, <3>2 DEF Sabe, LeFaltaPagina, Lleva, EnManoDe
    <3> QED BY <1>4, <2>1, <3>2, <3>3, PasoSinCache
  <2>3. CASE Segmento(e.tabla) # 0
    <3>1. Responde(h, "SUCCESS", e)
      BY <1>5, <2>3 DEF BuscarAntesDeCrear
    <3>2. /\ est'[h].pc = "responde" /\ est'[h].op = e.op /\ est'[h].cod = "SUCCESS"
          /\ \A x \in Hilos \ {h} : est'[x] = est[x]
      BY <1>1, <1>2, <3>1, RespondeCampos
    <3>3. Sabe(est'[h]) /\ Lleva(h, est[h])' /\ EnManoDe(est'[h]) = EnManoDe(est[h])
      BY <1>1, <2>1, <3>2 DEF Sabe, LeFaltaPagina, Lleva, EnManoDe
    <3> QED BY <1>4, <2>1, <3>2, <3>3, PasoSinCache
  <2> QED BY <2>2, <2>3
<1>6. CASE CrearSegmento(h)
  <2>1. /\ segmentos' = Append(segmentos, [id |-> IdLibre, tabla |-> e.tabla])
        /\ Responde(h, "SUCCESS", e) /\ UNCHANGED <<paginas, marcos, bits>>
        /\ e.pc = "creaSegmento"
    BY <1>6 DEF CrearSegmento
  <2>2. IdsUnicos' /\ TablasUnicas'
    BY <1>1, <2>1, SegmentoUnico DEF Sabe
  <2>3. /\ est'[h].pc = "responde" /\ est'[h].op = e.op /\ est'[h].cod = "SUCCESS"
        /\ \A x \in Hilos \ {h} : est'[x] = est[x]
    BY <1>1, <1>2, <2>1, RespondeCampos
  <2>4. Sabe(est[h])' /\ Lleva(h, est[h])' /\ EnManoDe(est[h])' = {}
    BY <1>1, <2>1, <2>3, Respondido
  <2>5. MarcosUnicos /\ bits = {p.marco : p \in paginas}
    BY <2>1, MarcosDeUno DEF EnManoDe
  <2>6. MarcosUnicos' /\ bits' = {p.marco : p \in paginas'} /\ ClavesUnicas'
    BY <2>1, <2>2, <2>5 DEF MarcosUnicos, UnoInv, ClavesUnicas, TablasUnicas
  <2> QED BY <1>4, <2>2, <2>3, <2>4, <2>6, PasoDeUno
<1>7. CASE EliminarSegmento(h)
  <2> DEFINE t == Indices(e.tabla)
             i == Min(t)
             n == Len(segmentos)
  <2>1. /\ segmentos' = IF t = {} THEN segmentos ELSE RemoveAt(segmentos, i)
        /\ Eliminar({Segmento(e.tabla)}) /\ Responde(h, e.cod, e) /\ e.pc = "elimina"
    BY <1>7 DEF EliminarSegmento
  <2>2. /\ \A j, k \in DOMAIN segmentos : segmentos[j].id = segmentos[k].id => j = k
        /\ \A j, k \in DOMAIN segmentos : segmentos[j].tabla = segmentos[k].tabla => j = k
    BY DEF UnoInv, IdsUnicos, ClavesUnicas
  <2>3. IdsUnicos' /\ TablasUnicas'
    <3>1. CASE t = {}
      BY <2>1, <2>2, <3>1 DEF IdsUnicos, TablasUnicas
    <3>2. CASE t # {}
      <4>1. segmentos' = RemoveAt(segmentos, i) /\ i \in DOMAIN segmentos
        BY <1>1, <2>1, <3>2, SegmentoTipado
      <4> HIDE DEF i
      <4>2. segmentos \in Seq(TipoDeSegmento) /\ n \in Nat /\ DOMAIN segmentos = 1..n
        BY <1>1 DEF CacheTipada
      <4>3. /\ segmentos' \in Seq(TipoDeSegmento) /\ Len(segmentos') = n - 1
            /\ \A j \in 1..(n - 1) :
                 segmentos'[j] = IF j < i THEN segmentos[j] ELSE segmentos[j + 1]
        BY <4>1, <4>2, ElementosDeRemoveAt
      <4>4. DOMAIN segmentos' = 1..(n - 1)
        BY <4>3
      <4> HIDE DEF n
      \* Where each segment that stays was.
      <4> DEFINE a(j) == IF j < i THEN j ELSE j + 1
      <4>5. \A j \in 1..(n - 1) : a(j) \in 1..n /\ segmentos'[j] = segmentos[a(j)]
        BY <4>1, <4>2, <4>3
      <4>6. \A j, k \in 1..(n - 1) : a(j) = a(k) => j = k
        BY <4>1, <4>2
      <4> HIDE DEF a
      <4> QED BY <2>2, <4>2, <4>4, <4>5, <4>6 DEF IdsUnicos, TablasUnicas
    <3> QED BY <3>1, <3>2
  <2>4. e.cod # "MEMORIA_FULL"
    BY <1>1, <2>1 DEF Lleva
  <2> QED BY <1>1, <1>3, <2>1, <2>3, <2>4, EliminarUno
<1> QED BY <1>5, <1>6, <1>7 DEF CrearYEliminar

LEMMA JournalUno ==
  ASSUME Tipos, UnoInv, JournalInv, NEW h \in Hilos, NadieMas(h), Journal(h)
  PROVE  UnoInv'
<1> DEFINE e == est[h]
<1>1. EstadoTipado(e) /\ Sabe(e) /\ Lleva(h, e) /\ CacheTipada
  BY DEF Tipos, HilosTipados, UnoInv
<1>2. e.pc = "recorre" /\ e.op = "JOURNAL" /\ UNCHANGED fs
  BY DEF Journal, TomarPagina, Limpiar, JournalInv, JournalDeHilo
<1>3. CASE TomarPagina(h)
  <2>1. PICK p \in PorEnviar(h) :
          Sigue(h, "envia",
            [e EXCEPT !.tabla = TablaDelSegmento(p.seg), !.key = marcos[p.marco].key,
                      !.valor = marcos[p.marco].valor, !.ts = marcos[p.marco].timestamp,
                      !.visitadas = @ \cup {p}])
    BY <1>3 DEF TomarPagina
  <2> DEFINE t == TablaDelSegmento(p.seg)
             m == marcos[p.marco]
             v == e.visitadas \cup {p}
             f == [e EXCEPT !.tabla = t, !.key = m.key, !.valor = m.valor, !.ts = m.timestamp,
                            !.visitadas = v]
  <2>2. p \in TipoDePagina /\ p.seg \in EnUso
    BY <1>1 DEF PorEnviar, CacheTipada
  <2>3. t \in Tablas
    BY <1>1, <2>2, TablaDelSegmentoTipada
  <2>4. m \in [key : Claves, valor : Valores, timestamp : Horas]
    BY <1>1, <2>2 DEF CacheTipada, TipoDePagina
  <2>5. v \in SUBSET TipoDePagina
    BY <1>1, <2>2 DEF EstadoTipado, EstadosDeHilo
  <2>6. Sigue(h, "envia", f) /\ "envia" \in Pcs
    BY <2>1 DEF Pcs
  <2> HIDE DEF t, m, v
  <2>7. EstadoTipado(f) /\ f.op = e.op /\ f.victima = e.victima
    BY <1>1, <2>3, <2>4, <2>5 DEF EstadoTipado, EstadosDeHilo
  <2> HIDE DEF f
  <2>8. /\ est'[h].pc = "envia" /\ est'[h].op = e.op /\ est'[h].victima = e.victima
        /\ \A x \in Hilos \ {h} : est'[x] = est[x]
    BY <2>6, <2>7, SigueCampos
  <2>9. Sabe(est'[h]) /\ Lleva(h, est[h])' /\ EnManoDe(est'[h]) = EnManoDe(est[h])
    BY <1>1, <1>2, <2>8 DEF Sabe, LeFaltaPagina, Lleva, EnManoDe
  <2>10. RespuestaEsperada'
    BY <1>2, SigueSinRespuestas DEF fs
  <2> QED BY <1>3, <2>8, <2>9, <2>10, PasoSinCache DEF TomarPagina
<1>4. CASE Limpiar(h)
  <2>1. segmentos' = <<>> /\ Eliminar(EnUso)
    BY <1>4 DEF Limpiar
  <2>2. PICK cod \in {"SUCCESS", "FAILURE"} : Responde(h, cod, e)
    BY <1>4 DEF Limpiar
  <2>3. cod \in Codigos /\ cod # "MEMORIA_FULL"
    BY DEF Codigos
  <2>4. IdsUnicos' /\ TablasUnicas'
    BY <2>1 DEF IdsUnicos, TablasUnicas
  <2> QED BY <1>2, <2>1, <2>2, <2>3, <2>4, EliminarUno
<1> QED BY <1>3, <1>4 DEF Journal

------------------------------------------------------------------------------
(* A single client: the exchange with the file system.                     *)

\* What the file system answers is for the request that was sent.
LEMMA EnviadoUno ==
  ASSUME Tipos, UnoInv, NEW h \in Hilos, NadieMas(h), est[h].pc = "envia", UNCHANGED cache,
         NEW e, EstadoTipado(e), e.op = est[h].op, e.tabla = est[h].tabla, e.key = est[h].key,
         e.seg = est[h].seg, e.victima = est[h].victima, Sigue(h, "espera", e),
         \/ LlegaALFS(h, e.fd, Mensaje(est[h]))
         \/ deLFS' = deLFS
  PROVE  UnoInv'
<1>1. EstadoTipado(est[h]) /\ Sabe(est[h]) /\ Lleva(h, est[h])
  BY DEF Tipos, HilosTipados, UnoInv
<1>2. /\ est'[h].pc = "espera" /\ est'[h].op = e.op /\ est'[h].tabla = e.tabla
      /\ est'[h].key = e.key /\ est'[h].seg = e.seg /\ est'[h].victima = e.victima
      /\ est'[h].fd = e.fd
      /\ \A x \in Hilos \ {h} : est'[x] = est[x]
  BY SigueCampos DEF Pcs
<1>3. Sabe(est'[h])
  BY <1>1, <1>2 DEF Sabe, LeFaltaPagina, SinPagina
<1>4. Lleva(h, est[h])' /\ EnManoDe(est'[h]) = EnManoDe(est[h])
  BY <1>1, <1>2 DEF Lleva, EnManoDe
<1>5. deLFS = <<>>
  BY NadaEnCamino DEF UnoInv
<1>6. RespuestaEsperada'
  <2>1. CASE deLFS' = deLFS
    BY <1>5, <2>1 DEF RespuestaEsperada
  <2>2. CASE LlegaALFS(h, e.fd, Mensaje(est[h]))
    <3> DEFINE m == Mensaje(est[h])
    <3>1. LlegaALFS(h, e.fd, m)
      BY <2>2
    <3> DEFINE r == Respuesta(h, e.fd, m)
    <3>2. m.tabla = est[h].tabla /\ m.key = est[h].key
      BY DEF Mensaje
    <3> HIDE DEF m
    <3>3. /\ r.tabla = est[h].tabla /\ r.key = est[h].key /\ r.cod # "MEMORIA_FULL"
          /\ r.fd = e.fd
      BY <3>2 DEF Respuesta, CodigoDeLFS
    <3>4. deLFS' = <<r>>
      BY <1>5, <3>1 DEF LlegaALFS
    <3> HIDE DEF r
    <3>5. Len(deLFS') = 1 /\ DOMAIN deLFS' = {1} /\ deLFS'[1] = r
      BY <3>4
    <3> QED BY <1>2, <3>3, <3>5 DEF RespuestaEsperada
  <2> QED BY <2>1, <2>2
<1> QED BY <1>2, <1>3, <1>4, <1>6, PasoSinCache

\* The request that the file system does not answer.
LEMMA FracasoUno ==
  ASSUME Tipos, UnoInv, NEW h \in Hilos, NadieMas(h), est[h].pc \in {"envia", "espera"},
         UNCHANGED cache, deLFS' = <<>>, NEW e, EstadoTipado(e), e.op = est[h].op,
         e.victima = est[h].victima, Fracaso(h, e)
  PROVE  UnoInv'
<1>1. Lleva(h, est[h])
  BY DEF UnoInv
<1>2. /\ est'[h].op = e.op
      /\ \/ est'[h].pc = "recorre" /\ e.op = "JOURNAL" /\ est'[h].victima = e.victima
         \/ est'[h].pc = "responde" /\ est'[h].cod = "LFS_CAIDO"
      /\ \A x \in Hilos \ {h} : est'[x] = est[x]
  <2>1. CASE e.op = "JOURNAL"
    <3> DEFINE f == [e EXCEPT !.cod = "NUESTRO_ERROR"]
    <3>1. EstadoTipado(f) /\ f.op = e.op /\ f.victima = e.victima
      BY DEF EstadoTipado, EstadosDeHilo, Codigos
    <3>2. Sigue(h, "recorre", f) /\ "recorre" \in Pcs
      BY <2>1 DEF Fracaso, Pcs
    <3> HIDE DEF f
    <3> QED BY <2>1, <3>1, <3>2, SigueCampos
  <2>2. CASE e.op # "JOURNAL"
    <3>1. Responde(h, "LFS_CAIDO", e) /\ "LFS_CAIDO" \in Codigos
      BY <2>2 DEF Fracaso, Codigos
    <3> QED BY <3>1, RespondeCampos
  <2> QED BY <2>1, <2>2
<1>3. Sabe(est'[h]) /\ Lleva(h, est[h])' /\ EnManoDe(est'[h]) = EnManoDe(est[h])
  BY <1>1, <1>2 DEF Sabe, LeFaltaPagina, Lleva, EnManoDe
<1>4. RespuestaEsperada'
  BY DEF RespuestaEsperada
<1> QED BY <1>2, <1>3, <1>4, PasoSinCache

\* The answer is attended: it names the table and the key that were asked.
LEMMA AtiendeUno ==
  ASSUME Tipos, UnoInv, NEW h \in Hilos, NadieMas(h), est[h].pc = "espera",
         UNCHANGED cache, deLFS' = <<>>, NEW e, EstadoTipado(e), e.op = est[h].op,
         e.tabla = est[h].tabla, e.key = est[h].key, e.seg = est[h].seg,
         e.victima = est[h].victima,
         NEW d \in Respuestas, d.tabla = e.tabla, d.key = e.key, d.cod # "MEMORIA_FULL",
         Atiende(h, d, e)
  PROVE  UnoInv'
<1>1. Lleva(h, est[h]) /\ Sabe(est[h])
  BY DEF UnoInv
<1>2. /\ d.cod \in Codigos /\ d.tabla \in Tablas /\ d.key \in Claves
      /\ d.valor \in Valores /\ d.ts \in Horas
  BY DEF Respuestas
<1>3. {"recorre", "pideMarco", "crea", "elimina"} \subseteq Pcs
  BY DEF Pcs
<1>4. /\ est'[h].op = e.op
      /\ \/ est'[h].pc \in {"recorre", "crea"} /\ est'[h].victima = e.victima
         \/ /\ est'[h].pc = "pideMarco" /\ e.op = "SELECT" /\ est'[h].tabla = e.tabla
            /\ est'[h].key = e.key /\ est'[h].seg = e.seg /\ est'[h].victima = e.victima
         \/ est'[h].pc = "elimina" /\ est'[h].cod = d.cod /\ est'[h].victima = e.victima
         \/ est'[h].pc = "responde" /\ est'[h].cod = d.cod
      /\ \A x \in Hilos \ {h} : est'[x] = est[x]
  <2>1. CASE e.op = "JOURNAL"
    <3> DEFINE c == IF d.cod \in {"SUCCESS", "TABLA_NO_EXISTE"} THEN "SUCCESS" ELSE "NUESTRO_ERROR"
               f == [e EXCEPT !.cod = c]
    <3>1. c \in Codigos
      BY DEF Codigos
    <3>2. Sigue(h, "recorre", f)
      BY <2>1 DEF Atiende
    <3> HIDE DEF c
    <3>3. EstadoTipado(f) /\ f.op = e.op /\ f.victima = e.victima
      BY <3>1 DEF EstadoTipado, EstadosDeHilo
    <3> HIDE DEF f
    <3> QED BY <1>3, <3>2, <3>3, SigueCampos
  <2>2. CASE e.op = "SELECT" /\ d.cod = "SUCCESS"
    <3> DEFINE f == [e EXCEPT !.tabla = d.tabla, !.key = d.key, !.valor = d.valor, !.ts = d.ts]
    <3>1. Sigue(h, "pideMarco", f)
      BY <2>2 DEF Atiende
    <3>2. /\ EstadoTipado(f) /\ f.op = e.op /\ f.tabla = d.tabla /\ f.key = d.key
          /\ f.seg = e.seg /\ f.victima = e.victima
      BY <1>2 DEF EstadoTipado, EstadosDeHilo
    <3> HIDE DEF f
    <3> QED BY <1>3, <2>2, <3>1, <3>2, SigueCampos
  <2>3. CASE e.op = "CREATE"
    <3>1. Sigue(h, "crea", e)
      BY <2>3 DEF Atiende
    <3> QED BY <1>3, <3>1, SigueCampos
  <2>4. CASE e.op = "DROP" /\ e.ec
    <3> DEFINE f == [e EXCEPT !.cod = d.cod]
    <3>1. Sigue(h, "elimina", f)
      BY <2>4 DEF Atiende
    <3>2. EstadoTipado(f) /\ f.op = e.op /\ f.victima = e.victima /\ f.cod = d.cod
      BY <1>2 DEF EstadoTipado, EstadosDeHilo
    <3> HIDE DEF f
    <3> QED BY <1>3, <3>1, <3>2, SigueCampos
  <2>5. CASE /\ e.op # "JOURNAL" /\ ~(e.op = "SELECT" /\ d.cod = "SUCCESS")
             /\ e.op # "CREATE" /\ ~(e.op = "DROP" /\ e.ec)
    <3>1. Responde(h, d.cod, e)
      BY <2>5, Zenon DEF Atiende
    <3> QED BY <1>2, <3>1, RespondeCampos
  <2> QED BY <2>1, <2>2, <2>3, <2>4, <2>5
<1>5. Sabe(est'[h])
  BY <1>1, <1>4 DEF Sabe, LeFaltaPagina, SinPagina
<1>6. Lleva(h, est[h])' /\ EnManoDe(est'[h]) = EnManoDe(est[h])
  BY <1>1, <1>4 DEF Lleva, EnManoDe
<1>7. RespuestaEsperada'
  BY DEF RespuestaEsperada
<1> QED BY <1>4, <1>5, <1>6, <1>7, PasoSinCache

LEMMA IntercambiarUno ==
  ASSUME Tipos, UnoInv, NEW h \in Hilos, NadieMas(h), Intercambiar(h)
  PROVE  UnoInv'
<1> DEFINE e == est[h]
<1>1. EstadoTipado(e) /\ FSTipado /\ RespuestaEsperada
  BY DEF Tipos, HilosTipados, UnoInv
<1>2. FdLibre \in Nat
  BY TiposEsTypeOK, ConexionNueva
<1> DEFINE conFd(fd) == [e EXCEPT !.fd = fd]
           conSuFd(fd) == [e EXCEPT !.fd = fd, !.propia = TRUE]
           sinFd == [e EXCEPT !.fd = 0, !.propia = FALSE]
<1>3. ASSUME NEW fd \in Nat
      PROVE  /\ EstadoTipado(conFd(fd)) /\ conFd(fd).op = e.op /\ conFd(fd).tabla = e.tabla
             /\ conFd(fd).key = e.key /\ conFd(fd).seg = e.seg /\ conFd(fd).victima = e.victima
             /\ conFd(fd).fd = fd /\ conSuFd(fd).fd = fd
             /\ EstadoTipado(conSuFd(fd)) /\ conSuFd(fd).op = e.op /\ conSuFd(fd).tabla = e.tabla
             /\ conSuFd(fd).key = e.key /\ conSuFd(fd).seg = e.seg
             /\ conSuFd(fd).victima = e.victima
  BY <1>1 DEF EstadoTipado, EstadosDeHilo
<1>4. EstadoTipado(sinFd) /\ sinFd.op = e.op /\ sinFd.victima = e.victima
  BY <1>1 DEF EstadoTipado, EstadosDeHilo
<1> HIDE DEF conFd, conSuFd, sinFd
<1>5. e.pc = "envia" => deLFS = <<>>
  BY NadaEnCamino DEF UnoInv
<1>6. CASE Enviar(h)
  <2>1. /\ conexion \in Nat /\ e.pc = "envia" /\ UNCHANGED cache
        /\ LlegaALFS(h, conexion, Mensaje(e)) /\ Sigue(h, "espera", conFd(conexion))
    BY <1>1, <1>6 DEF Enviar, FSTipado, conFd
  <2> QED BY <1>3, <2>1, EnviadoUno
<1>7. CASE EnviarReconectando(h)
  <2>1. /\ e.pc = "envia" /\ UNCHANGED cache
        /\ LlegaALFS(h, FdLibre, Mensaje(e)) /\ Sigue(h, "espera", conSuFd(FdLibre))
    BY <1>7 DEF EnviarReconectando, conSuFd
  <2> QED BY <1>2, <1>3, <2>1, EnviadoUno
<1>8. CASE EnviarEnVano(h)
  <2>1. /\ conexion \in Nat /\ e.pc = "envia" /\ UNCHANGED cache
        /\ deLFS' = deLFS /\ Sigue(h, "espera", conFd(conexion))
    BY <1>1, <1>8 DEF EnviarEnVano, FSTipado, conFd, fs
  <2> QED BY <1>3, <2>1, EnviadoUno
<1>9. CASE FallarEnvio(h)
  <2>1. e.pc = "envia" /\ UNCHANGED cache /\ deLFS' = deLFS /\ Fracaso(h, e)
    BY <1>9 DEF FallarEnvio
  <2> QED BY <1>1, <1>5, <2>1, FracasoUno
<1>10. CASE RecibirDeLFS(h)
  <2> DEFINE i == PrimeraDe(e.fd)
             d == deLFS[i]
             ajena == (d.para # h)
             f == [e EXCEPT !.fd = 0, !.propia = FALSE, !.ajena = ajena]
  <2>1. /\ e.pc = "espera" /\ i <= Len(deLFS) /\ deLFS' = RemoveAt(deLFS, i)
        /\ UNCHANGED cache /\ Atiende(h, d, f)
    BY <1>10 DEF RecibirDeLFS
  <2>2. i \in 1..Len(deLFS)
    BY <1>1, <2>1, PrimeraEnCola
  <2>3. ajena \in BOOLEAN
    OBVIOUS
  <2> HIDE DEF i, ajena
  <2>4. d \in Respuestas /\ deLFS' \in Seq(Respuestas) /\ Len(deLFS') = Len(deLFS) - 1
    BY <1>1, <2>1, <2>2, ElementosDeRemoveAt DEF FSTipado
  <2>5. deLFS' = <<>>
    <3>1. Len(deLFS) \in Nat /\ Len(deLFS) <= 1
      BY <1>1 DEF FSTipado, RespuestaEsperada
    <3>2. Len(deLFS') \in Nat
      BY <2>4
    <3>3. Len(deLFS') = 0
      BY <2>4, <3>1, <3>2
    <3> QED BY <2>4, <3>3
  <2>6. d.tabla = e.tabla /\ d.key = e.key /\ d.cod # "MEMORIA_FULL"
    <3>1. i \in DOMAIN deLFS
      BY <1>1, <2>2 DEF FSTipado
    <3>2. \A x \in Hilos : est[x].pc = "espera" => x = h
      BY DEF NadieMas, Sirviendo
    <3> QED BY <1>1, <3>1, <3>2 DEF RespuestaEsperada
  <2>7. /\ EstadoTipado(f) /\ f.op = e.op /\ f.tabla = e.tabla /\ f.key = e.key
        /\ f.seg = e.seg /\ f.victima = e.victima
    BY <1>1, <2>3 DEF EstadoTipado, EstadosDeHilo
  <2> HIDE DEF d, f
  <2> QED BY <2>1, <2>4, <2>5, <2>6, <2>7, AtiendeUno
<1>11. CASE RecibirCaida(h)
  <2>1. /\ e.pc = "espera" /\ UNCHANGED cache /\ deLFS' = deLFS /\ Fracaso(h, sinFd)
        /\ PrimeraDe(e.fd) > Len(deLFS)
    BY <1>11 DEF RecibirCaida, sinFd
  <2>2. deLFS = <<>>
    <3> DEFINE S == {i \in DOMAIN deLFS : deLFS[i].fd = e.fd} \cup {Len(deLFS) + 1}
    <3>1. DOMAIN deLFS = 1..Len(deLFS) /\ Len(deLFS) \in Nat
      BY <1>1 DEF FSTipado
    <3>2. PrimeraDe(e.fd) = Min(S) /\ S \subseteq Nat /\ S # {}
      BY <3>1 DEF PrimeraDe
    <3>3. \A i \in DOMAIN deLFS : deLFS[i].fd = e.fd
      BY <1>1 DEF RespuestaEsperada, NadieMas, Sirviendo
    <3>4. \A i \in DOMAIN deLFS : i \in S /\ i <= Len(deLFS)
      BY <3>1, <3>3
    <3> HIDE DEF S
    <3>5. Min(S) \in Nat /\ \A x \in S : Min(S) <= x
      BY <3>2, HayMinimo
    <3>6. DOMAIN deLFS = {}
      BY <2>1, <3>1, <3>2, <3>4, <3>5
    <3> QED BY <1>1, <3>6 DEF FSTipado
  <2> QED BY <1>4, <2>1, <2>2, FracasoUno
<1> QED BY <1>6, <1>7, <1>8, <1>9, <1>10, <1>11 DEF Intercambiar

------------------------------------------------------------------------------
(* A single client: requests that start, and the rest.                     *)

\* A thread that is not served yet moves, whoever is.
LEMMA EsperaSuTurno ==
  ASSUME UnoInv, NEW h \in Hilos, UNCHANGED <<cache, deLFS>>, ~Sirviendo(h),
         \A x \in Hilos \ {h} : est'[x] = est[x],
         est'[h].pc \in {"toma", "busca", "recorre", "envia"},
         Sabe(est'[h]), Lleva(h, est[h])'
  PROVE  UnoInv'
<1>1. Sabe(est[h])'
  BY CacheQuieta DEF Sabe, SinPagina, LeFaltaPagina, cache
<1>2. ASSUME NEW x \in Hilos \ {h} PROVE Sabe(est[x])' /\ Lleva(x, est[x])'
  <2>1. Sabe(est'[x]) /\ Lleva(x, est'[x])
    BY DEF UnoInv
  <2>2. Sabe(est[x])'
    BY <2>1, CacheQuieta DEF Sabe, SinPagina, LeFaltaPagina, cache
  <2>3. Lleva(x, est[x])'
    BY <2>1 DEF Lleva
  <2> QED BY <2>2, <2>3
<1>3. EnMano' = EnMano
  <2> DEFINE T(s) == {x \in Hilos : s[x].pc = "guarda" /\ s[x].victima # 0}
  <2>1. est[h].pc # "guarda" /\ est'[h].pc # "guarda"
    BY DEF Sirviendo
  <2>2. T(est') = T(est) /\ \A x \in T(est) : est'[x].marco = est[x].marco
    BY <2>1
  <2>3. EnMano = {est[x].marco : x \in T(est)} /\ EnMano' = {est'[x].marco : x \in T(est')}
    BY DEF EnMano
  <2> HIDE DEF T
  <2> QED BY <2>2, <2>3
<1>4. RespuestaEsperada'
  <2>1. \A x \in Hilos : est[x].pc = "espera" => x # h /\ est'[x] = est[x]
    BY DEF Sirviendo
  <2> QED BY <2>1 DEF UnoInv, RespuestaEsperada
<1>5. IdsUnicos' /\ ClavesUnicas'
  BY CacheQuieta DEF UnoInv
<1>6. MarcosExactos'
  BY <1>3 DEF UnoInv, MarcosExactos, cache
<1> QED BY <1>1, <1>2, <1>4, <1>5, <1>6 DEF UnoInv

LEMMA EmpezarUno ==
  ASSUME Tipos, UnoInv, NEW h \in Hilos,
         \/ h # "journal" /\ \E op \in Operaciones, t \in Tablas, k \in Claves : Recibir(h, op, t, k)
         \/ h = "journal" /\ EmpezarJournal
  PROVE  UnoInv'
<1>1. Ocioso.seg = 0 /\ Ocioso.victima = 0 /\ EstadoTipado(Ocioso) /\ Ocioso.i = 1
  BY ElOcioso DEF Ocioso
<1>2. /\ est'[h].pc = "toma" /\ est'[h].seg = 0 /\ est'[h].victima = 0
      /\ h = "journal" => est'[h].op = "JOURNAL"
  <2>1. CASE h # "journal" /\ \E op \in Operaciones, t \in Tablas, k \in Claves : Recibir(h, op, t, k)
    <3>6. PICK op \in Operaciones, t \in Tablas, k \in Claves : Recibir(h, op, t, k)
      BY <2>1
    <3>1. PICK ec \in BOOLEAN :
            Sigue(h, "toma", [Ocioso EXCEPT !.op = op, !.tabla = t, !.key = k, !.ec = ec,
                                            !.valor = pedidos + 1])
      BY <3>6 DEF Recibir
    <3> DEFINE e == [Ocioso EXCEPT !.op = op, !.tabla = t, !.key = k, !.ec = ec,
                                   !.valor = pedidos + 1]
    <3>2. pedidos + 1 \in Valores /\ op \in Operacion
      BY CotasAssumption DEF Tipos, RestoTipado, Valores, Operacion
    <3>3. EstadoTipado(e)
      BY <1>1, <3>2, PedidoTipado
    <3>4. e.seg = 0 /\ e.victima = 0
      BY DEF Ocioso
    <3>5. Sigue(h, "toma", e) /\ "toma" \in Pcs
      BY <3>1 DEF Pcs
    <3> HIDE DEF e
    <3> QED BY <2>1, <3>3, <3>4, <3>5, SigueCampos
  <2>2. CASE h = "journal" /\ EmpezarJournal
    <3> DEFINE e == [Ocioso EXCEPT !.op = "JOURNAL"]
    <3>1. EstadoTipado(e) /\ e.seg = 0 /\ e.victima = 0 /\ e.op = "JOURNAL"
      BY <1>1 DEF EstadoTipado, EstadosDeHilo, Operacion, Ocioso
    <3>2. Sigue(h, "toma", e) /\ "toma" \in Pcs
      BY <2>2 DEF EmpezarJournal, Pcs
    <3> HIDE DEF e
    <3> QED BY <3>1, <3>2, SigueCampos
  <2> QED BY <2>1, <2>2
<1>3. /\ UNCHANGED <<cache, fs>> /\ est[h].pc = "ocioso"
      /\ \A x \in Hilos \ {h} : est'[x] = est[x]
  BY EmpezarSigue
<1>4. Sabe(est'[h]) /\ Lleva(h, est[h])' /\ ~Sirviendo(h)
  BY <1>2, <1>3 DEF Sabe, LeFaltaPagina, Lleva, Sirviendo
<1> QED BY <1>2, <1>3, <1>4, EsperaSuTurno DEF fs

LEMMA TomarUno ==
  ASSUME Tipos, UnoInv, NEW h \in Hilos, Tomar(h)
  PROVE  UnoInv'
<1> DEFINE e == est[h]
<1>1. /\ EstadoTipado(e) /\ e.pc = "toma" /\ e.seg = 0 /\ e.victima = 0
      /\ h = "journal" => e.op = "JOURNAL"
  BY DEF Tipos, HilosTipados, Tomar, UnoInv, Lleva
<1>2. PICK i \in 1..3, pc \in {"toma", Primero(e.op)} : Sigue(h, pc, [e EXCEPT !.i = i])
  <2>1. CASE e.i = Len(MutexDe(h))
    BY <2>1 DEF Tomar
  <2>2. CASE e.i # Len(MutexDe(h))
    <3>1. e.i + 1 \in 1..3
      <4>1. e.i # (IF e.op = "JOURNAL" THEN 3 ELSE 1)
        BY <2>2, CuantosMutex
      <4>2. e.i \in 1..3 /\ (e.op # "JOURNAL" => e.i = 1)
        BY <1>1 DEF EstadoTipado, EstadosDeHilo
      <4> QED BY <4>1, <4>2
    <3>2. Sigue(h, "toma", [e EXCEPT !.i = e.i + 1])
      BY <2>2 DEF Tomar
    <3> QED BY <3>1, <3>2
  <2> QED BY <2>1, <2>2
<1> DEFINE f == [e EXCEPT !.i = i]
<1>3. /\ pc \in Pcs /\ pc \in {"toma", "busca", "recorre", "envia"}
      /\ pc = "envia" => e.op # "SELECT"
  BY <1>2 DEF Primero, Pcs
<1>4. Sigue(h, pc, f)
  BY <1>2
<1> HIDE DEF f
<1>5. /\ est'[h].pc = pc /\ est'[h].op = e.op /\ est'[h].seg = 0 /\ est'[h].victima = 0
      /\ \A x \in Hilos \ {h} : est'[x] = est[x]
  <2>1. est' = [est EXCEPT ![h] = [f EXCEPT !.pc = pc]]
    BY <1>4 DEF Sigue
  <2>2. [f EXCEPT !.pc = pc] = [e EXCEPT !.i = i, !.pc = pc]
    BY <1>1 DEF f, EstadoTipado, EstadosDeHilo
  <2>3. est'[h] = [e EXCEPT !.i = i, !.pc = pc] /\ \A x \in Hilos \ {h} : est'[x] = est[x]
    BY <2>1, <2>2 DEF Tipos, HilosTipados
  <2> QED BY <1>1, <2>3 DEF EstadoTipado, EstadosDeHilo
<1>6. UNCHANGED <<cache, deLFS>> /\ ~Sirviendo(h)
  BY <1>1 DEF Tomar, fs, Sirviendo
<1>7. Sabe(est'[h]) /\ Lleva(h, est[h])'
  BY <1>1, <1>3, <1>5 DEF Sabe, LeFaltaPagina, Lleva
<1> QED BY <1>3, <1>5, <1>6, <1>7, EsperaSuTurno

\* The file system falls with at most the one answer.
LEMMA CaerUno ==
  ASSUME Tipos, UnoInv, CaerLFS
  PROVE  UnoInv'
<1>1. UNCHANGED <<cache, est>>
  BY DEF CaerLFS
<1>2. PICK n \in 0..Len(deLFS) : deLFS' = SubSeq(deLFS, 1, n)
  BY DEF CaerLFS
<1>3. deLFS \in Seq(Respuestas) /\ Len(deLFS) \in Nat
  BY DEF Tipos, FSTipado
<1>4. /\ Len(deLFS') = n /\ DOMAIN deLFS' = 1..n /\ DOMAIN deLFS = 1..Len(deLFS)
      /\ \A i \in 1..n : deLFS'[i] = deLFS[i]
  BY <1>2, <1>3
<1>5. RespuestaEsperada'
  BY <1>1, <1>3, <1>4 DEF UnoInv, RespuestaEsperada
<1>6. ASSUME NEW x \in Hilos PROVE Sabe(est[x])' /\ Lleva(x, est[x])'
  <2>1. Sabe(est'[x]) /\ Lleva(x, est'[x])
    BY <1>1 DEF UnoInv
  <2>2. Sabe(est[x])'
    BY <1>1, <2>1, CacheQuieta DEF Sabe, SinPagina, LeFaltaPagina, cache
  <2>3. Lleva(x, est[x])'
    BY <2>1 DEF Lleva
  <2> QED BY <2>2, <2>3
<1>7. IdsUnicos' /\ ClavesUnicas' /\ MarcosExactos'
  BY <1>1, CacheQuieta DEF UnoInv, MarcosExactos, EnMano, cache
<1> QED BY <1>5, <1>6, <1>7 DEF UnoInv

LEMMA IgualUno ==
  ASSUME UnoInv, UNCHANGED <<cache, est, deLFS>>
  PROVE  UnoInv'
<1>1. ASSUME NEW x \in Hilos PROVE Sabe(est[x])' /\ Lleva(x, est[x])'
  <2>1. Sabe(est'[x]) /\ Lleva(x, est'[x])
    BY DEF UnoInv
  <2>2. Sabe(est[x])'
    BY <2>1, CacheQuieta DEF Sabe, SinPagina, LeFaltaPagina, cache
  <2>3. Lleva(x, est[x])'
    BY <2>1 DEF Lleva
  <2> QED BY <2>2, <2>3
<1>2. IdsUnicos' /\ ClavesUnicas' /\ MarcosExactos' /\ RespuestaEsperada'
  BY CacheQuieta DEF UnoInv, MarcosExactos, EnMano, cache, RespuestaEsperada
<1> QED BY <1>1, <1>2 DEF UnoInv

LEMMA InitUno == Init => UnoInv
<1> SUFFICES ASSUME Init PROVE UnoInv
  OBVIOUS
<1>1. /\ est = [h \in Hilos |-> Ocioso] /\ segmentos = <<>> /\ paginas = {} /\ bits = {}
      /\ deLFS = <<>>
  BY DEF Init, CacheVacia, NadieSirve
<1>2. Ocioso.pc = "ocioso" /\ Ocioso.victima = 0
  BY DEF Ocioso
<1>3. \A h \in Hilos : Sabe(est[h]) /\ Lleva(h, est[h])
  BY <1>1, <1>2 DEF Sabe, LeFaltaPagina, Lleva
<1>4. EnMano = {}
  BY <1>1, <1>2 DEF EnMano
<1>5. MarcosExactos /\ ClavesUnicas /\ IdsUnicos /\ RespuestaEsperada
  BY <1>1, <1>4 DEF MarcosExactos, ClavesUnicas, IdsUnicos, RespuestaEsperada
<1> QED BY <1>3, <1>5 DEF UnoInv

\* One client waits alone: nobody reads a part of its answer.
LEMMA UnoNoParte ==
  ASSUME UnCliente, MutexInv, UnoInv, NEW h \in Hilos
  PROVE  ~PartirRespuesta(h)
<1> SUFFICES ASSUME PartirRespuesta(h) PROVE FALSE
  OBVIOUS
<1>1. PICK x \in Hilos \ {h} : est[x].pc = "espera"
  BY DEF PartirRespuesta
<1>2. Sirviendo(h) /\ Sirviendo(x)
  BY <1>1 DEF PartirRespuesta, Sirviendo
<1> QED BY <1>1, <1>2, UnoSirve DEF UnoInv

LEMMA NextUno ==
  ASSUME UnCliente, Tipos, MutexInv, JournalInv, UnoInv, [Next]_vars
  PROVE  UnoInv'
<1>1. ASSUME NEW h \in Hilos, Avanzar(h) PROVE UnoInv'
  <2>1. Sirviendo(h)
    BY <1>1, AvanzarProsigue
  <2>2. NadieMas(h)
    BY <2>1, UnoSirve DEF NadieMas, UnoInv
  <2> QED BY <1>1, <2>2, RequestUno, BuscarUno, ConseguirMarcoUno, GuardarPaginaUno,
             IntercambiarUno, CrearYEliminarUno, JournalUno DEF Avanzar
<1>2. ASSUME NEW h \in Clientes, NEW op \in Operaciones, NEW t \in Tablas, NEW k \in Claves,
             Recibir(h, op, t, k)
      PROVE  UnoInv'
  BY <1>2, EmpezarUno DEF Clientes
<1>3. EmpezarJournal => UnoInv'
  BY EmpezarUno DEF EmpezarJournal
<1>4. LevantarLFS \/ Caido \/ UNCHANGED vars => UnoInv'
  BY IgualUno DEF LevantarLFS, Caido, vars, fs
<1>5. ASSUME NEW h \in Hilos, PartirRespuesta(h) \/ RecibirPartida(h) PROVE UnoInv'
  BY <1>5, UnoNoParte, IgualUno DEF RecibirPartida, Invalido, fs
<1> QED BY <1>1, <1>2, <1>3, <1>4, <1>5, TomarUno, CaerUno DEF Next

\* Everything that is known of a memory with one client.
LEMMA UnoSiempre ==
  ASSUME UnCliente
  PROVE  Spec => []UnoInv
<1> DEFINE Inv == Tipos /\ MutexInv /\ JournalInv /\ UnoInv
<1>1. Init => Inv
  BY InitTipos, InitMutexInv, InitJournalInv, InitUno
<1>2. Inv /\ [Next]_vars => Inv'
  BY NextTipos, NextMutexInv, NextJournalInv, NextUno
<1>3. Inv => UnoInv
  OBVIOUS
<1> QED BY <1>1, <1>2, <1>3, PTL DEF Spec

\* With one client beside the automatic journal, whatever their requests and
\* the falls of the file system: a frame is marked exactly when a page is in
\* it, or a request is about to reuse it, and never holds two pages.
THEOREM LosMarcosSonExactos == ASSUME UnCliente PROVE Spec => []MarcosExactos
<1>1. UnoInv => MarcosExactos
  BY DEF UnoInv
<1> QED BY <1>1, UnoSiempre, PTL

\* With one client, a table has one segment and a key one page in it: the
\* search of estaEnMemoria and what it finds later are the same.
THEOREM LasClavesSonUnicas == ASSUME UnCliente PROVE Spec => []ClavesUnicas
<1>1. UnoInv => ClavesUnicas
  BY DEF UnoInv
<1> QED BY <1>1, UnoSiempre, PTL

\* With one client, MEMORIA_FULL is answered only when every frame has a
\* modified page, so that the journal it asks for is necessary.
THEOREM LlenaSoloSiLlena == ASSUME UnCliente PROVE Spec => []LlenaDeVerdad
<1>1. UnoInv => LlenaDeVerdad
  BY DEF UnoInv, Sabe, LlenaDeVerdad, Clientes
<1> QED BY <1>1, UnoSiempre, PTL
------------------------------------------------------------------------------
(* A single client: the values.                                            *)

Sanos == HorasInv /\ CacheInv /\ \A h \in Hilos : Trae(est[h]) /\ Entrega(h)

\* Every field that the invariant names, of the thread that goes on.
LEMMA SigueTodo ==
  ASSUME Tipos, NEW h \in Hilos, NEW pc \in Pcs, NEW e, EstadoTipado(e), Sigue(h, pc, e)
  PROVE  /\ est'[h].pc = pc /\ est'[h].op = e.op /\ est'[h].cod = e.cod
         /\ est'[h].tabla = e.tabla /\ est'[h].key = e.key
         /\ est'[h].valor = e.valor /\ est'[h].ts = e.ts /\ est'[h].marco = e.marco
         /\ est'[h].visitadas = e.visitadas
         /\ \A x \in Hilos \ {h} : est'[x] = est[x]
<1>1. /\ est'[h] = [e EXCEPT !.pc = pc]
      /\ \A x \in Hilos \ {h} : est'[x] = est[x]
  BY SigueTipado DEF Tipos
<1> QED BY <1>1 DEF EstadoTipado, EstadosDeHilo

LEMMA RespondeTodo ==
  ASSUME Tipos, NEW h \in Hilos, NEW cod \in Codigos, NEW e, EstadoTipado(e), Responde(h, cod, e)
  PROVE  /\ est'[h].pc = "responde" /\ est'[h].op = e.op /\ est'[h].cod = cod
         /\ est'[h].tabla = e.tabla /\ est'[h].key = e.key
         /\ est'[h].valor = e.valor /\ est'[h].ts = e.ts
         /\ \A x \in Hilos \ {h} : est'[x] = est[x]
<1> DEFINE f == [e EXCEPT !.cod = cod]
<1>1. /\ EstadoTipado(f) /\ f.op = e.op /\ f.cod = cod /\ f.tabla = e.tabla /\ f.key = e.key
      /\ f.valor = e.valor /\ f.ts = e.ts
  BY DEF EstadoTipado, EstadosDeHilo
<1>2. "responde" \in Pcs /\ Sigue(h, "responde", f)
  BY DEF Pcs, Responde
<1> HIDE DEF f
<1> QED BY <1>1, <1>2, SigueTodo

\* Times are integers, and the clock is after every one of them.
LEMMA HorasTipadas ==
  ASSUME Tipos
  PROVE  /\ hora \in Nat /\ Horas \subseteq Int
         /\ \A m \in Marcos : marcos[m].timestamp \in Horas
         /\ \A t \in Tablas, k \in Claves : enLFS[t].datos[k].ts \in Horas
         /\ \A h \in Hilos : est[h].ts \in Horas
<1>1. hora \in Nat /\ Horas \subseteq Int
  BY DEF Tipos, RestoTipado, Horas
<1>2. \A m \in Marcos : marcos[m].timestamp \in Horas
  BY DEF Tipos, CacheTipada
<1>3. \A t \in Tablas, k \in Claves : enLFS[t].datos[k].ts \in Horas
  <2>1. \A t \in Tablas : enLFS[t] \in DatosDeTabla
    BY DEF Tipos, FSTipado
  <2> QED BY <2>1 DEF DatosDeTabla
<1>4. \A h \in Hilos : est[h].ts \in Horas
  BY DEF Tipos, HilosTipados, EstadosDeHilo
<1> QED BY <1>1, <1>2, <1>3, <1>4

LEMMA CacheInvIgual ==
  ASSUME CacheInv, UNCHANGED <<cache, enLFS, vigente>>
  PROVE  CacheInv'
<1>1. \A s : TablaDelSegmento(s)' = TablaDelSegmento(s)
  BY DEF cache, TablaDelSegmento
<1>2. marcos' = marcos /\ paginas' = paginas
  BY DEF cache
<1>3. \A p : /\ TablaDe(p)' = TablaDe(p) /\ ClaveDe(p)' = ClaveDe(p)
             /\ Dato(p)' = Dato(p) /\ Vigente(p)' = Vigente(p)
  BY <1>1, <1>2 DEF TablaDe, ClaveDe, Dato, Vigente
<1>4. \A t, k : EnCache(t, k)' = EnCache(t, k)
  BY <1>1, <1>2 DEF EnCache
<1> QED BY <1>2, <1>3, <1>4 DEF CacheInv

\* The threads that are not served carry nothing.
LEMMA OtrosTraen ==
  ASSUME Sanos, NEW x \in Hilos, ~Sirviendo(x), est'[x] = est[x]
  PROVE  Trae(est[x])' /\ Entrega(x)'
BY DEF Sirviendo, Trae, Entrega

\* A step of the request that is served that changes no page and no record.
LEMMA PasoSinDatos ==
  ASSUME Tipos, Sanos, NEW h \in Hilos, NadieMas(h), UNCHANGED <<cache, enLFS, vigente>>,
         hora' \in {hora, hora + 1}, \A x \in Hilos \ {h} : est'[x] = est[x],
         est'[h].ts \in Horas, est'[h].ts <= hora', Trae(est[h])', Entrega(h)'
  PROVE  Sanos'
<1>1. HorasInv'
  <2>1. marcos' = marcos /\ enLFS' = enLFS
    BY DEF cache
  <2> QED BY <2>1, HorasTipadas DEF Sanos, HorasInv
<1>2. \A x \in Hilos : Trae(est[x])' /\ Entrega(x)'
  BY OtrosTraen DEF NadieMas
<1> QED BY <1>1, <1>2, CacheInvIgual DEF Sanos

\* Ends and rejections.
LEMMA RequestSanos ==
  ASSUME Tipos, Sanos, NEW h \in Hilos, NadieMas(h), RechazarValor(h) \/ Responder(h) \/ Soltar(h)
  PROVE  Sanos'
<1>1. EstadoTipado(est[h]) /\ est \in [Hilos -> EstadosDeHilo] /\ est[h].ts \in Horas
  BY HorasTipadas DEF Tipos, HilosTipados
<1>2. UNCHANGED <<cache, enLFS, vigente>> /\ hora' = hora
  BY DEF RechazarValor, Responder, Soltar, fs, historia
<1>3. est[h].ts <= hora /\ 0 <= hora /\ 0 \in Horas
  BY HorasTipadas DEF Sanos, HorasInv, Horas
<1>4. CASE RechazarValor(h)
  <2>1. Responde(h, "VALUE_INVALIDO", est[h]) /\ "VALUE_INVALIDO" \in Codigos /\ est[h].op = "INSERT"
    BY <1>4 DEF RechazarValor, Codigos
  <2>2. /\ est'[h].pc = "responde" /\ est'[h].op = "INSERT" /\ est'[h].ts = est[h].ts
        /\ \A x \in Hilos \ {h} : est'[x] = est[x]
    BY <1>1, <2>1, RespondeTodo
  <2>3. Trae(est[h])' /\ Entrega(h)'
    BY <2>2 DEF Trae, Entrega
  <2> QED BY <1>1, <1>2, <1>3, <2>2, <2>3, PasoSinDatos
<1>5. CASE Responder(h)
  <2> DEFINE e == [Ocioso EXCEPT !.op = est[h].op]
  <2>1. EstadoTipado(e) /\ e.ts = 0
    BY <1>1, ElOcioso DEF EstadoTipado, EstadosDeHilo, Ocioso
  <2>2. Sigue(h, "suelta", e) /\ "suelta" \in Pcs
    BY <1>5 DEF Responder, Pcs
  <2> HIDE DEF e
  <2>3. /\ est'[h].pc = "suelta" /\ est'[h].ts = 0
        /\ \A x \in Hilos \ {h} : est'[x] = est[x]
    BY <2>1, <2>2, SigueTodo
  <2>4. Trae(est[h])' /\ Entrega(h)'
    BY <2>3 DEF Trae, Entrega
  <2> QED BY <1>2, <1>3, <2>3, <2>4, PasoSinDatos
<1>6. CASE Soltar(h)
  <2>1. /\ est'[h].pc = "ocioso" /\ est'[h].ts = 0
        /\ \A x \in Hilos \ {h} : est'[x] = est[x]
    BY <1>1, <1>6 DEF Soltar, Ocioso
  <2>2. Trae(est[h])' /\ Entrega(h)'
    BY <2>1 DEF Trae, Entrega
  <2> QED BY <1>2, <1>3, <2>1, <2>2, PasoSinDatos
<1> QED BY <1>4, <1>5, <1>6

\* The search, and a frame for the page.
LEMMA BuscarSanos ==
  ASSUME Tipos, Sanos, NEW h \in Hilos, NadieMas(h), BuscarSegmento(h) \/ FaltaPagina(h)
  PROVE  Sanos'
<1> DEFINE e == est[h]
           s == Segmento(e.tabla)
<1>1. EstadoTipado(e) /\ Trae(e) /\ e.ts \in Horas /\ e.ts <= hora /\ s \in Nat
  BY HorasTipadas, SegmentoTipado DEF Tipos, HilosTipados, Sanos, HorasInv
<1>2. UNCHANGED <<cache, enLFS, vigente>> /\ hora' = hora /\ e.pc \in {"busca", "buscaPagina"}
  BY DEF BuscarSegmento, FaltaPagina, fs, historia
<1>3. e.op \in {"SELECT", "INSERT"}
  BY <1>1, <1>2 DEF Trae
<1>4. /\ est'[h].op = e.op /\ est'[h].ts = e.ts
      /\ est'[h].pc \in {"buscaPagina", IF e.op = "SELECT" THEN "envia" ELSE "pideMarco"}
      /\ \A x \in Hilos \ {h} : est'[x] = est[x]
  <2>1. CASE Sigue(h, "buscaPagina", [e EXCEPT !.seg = s])
    <3> DEFINE f == [e EXCEPT !.seg = s]
    <3> HIDE DEF s
    <3>1. EstadoTipado(f) /\ f.op = e.op /\ f.ts = e.ts /\ "buscaPagina" \in Pcs
      BY <1>1 DEF EstadoTipado, EstadosDeHilo, Pcs
    <3>2. Sigue(h, "buscaPagina", f)
      BY <2>1
    <3> HIDE DEF f
    <3> QED BY <3>1, <3>2, SigueTodo
  <2>2. CASE DespuesDeBuscar(h, e)
    <3> DEFINE pc == IF e.op = "SELECT" THEN "envia" ELSE "pideMarco"
    <3>1. Sigue(h, pc, e) /\ pc \in Pcs
      BY <2>2 DEF DespuesDeBuscar, Pcs
    <3> HIDE DEF pc
    <3>2. est'[h].pc = pc /\ est'[h].op = e.op /\ est'[h].ts = e.ts /\ \A x \in Hilos \ {h} : est'[x] = est[x]
      BY <1>1, <3>1, SigueTodo
    <3> QED BY <3>2 DEF pc
  <2> QED BY <2>1, <2>2 DEF BuscarSegmento, FaltaPagina
<1>5. Trae(est[h])' /\ Entrega(h)'
  BY <1>3, <1>4 DEF Trae, Entrega
<1> QED BY <1>1, <1>2, <1>4, <1>5, PasoSinDatos


LEMMA PedirMarcoSanos ==
  ASSUME Tipos, Sanos, NEW h \in Hilos, NadieMas(h), PedirMarco(h)
  PROVE  Sanos'
<1> DEFINE e == [est[h] EXCEPT !.ts = IF est[h].op = "INSERT" THEN hora + 1 ELSE @]
           ts == IF est[h].op = "INSERT" THEN hora + 1 ELSE est[h].ts
<1>1. /\ EstadoTipado(est[h]) /\ Trae(est[h]) /\ est[h].pc = "pideMarco"
      /\ est[h].ts \in Horas /\ est[h].ts <= hora
  BY HorasTipadas DEF Tipos, HilosTipados, Sanos, HorasInv, PedirMarco
<1>2. UNCHANGED <<cache, enLFS, vigente>>
  BY DEF PedirMarco, fs, historia
<1>3. ts \in Horas
  BY <1>1 DEF Tipos, RestoTipado, Horas
<1>4. /\ EstadoTipado(e) /\ e.op = est[h].op /\ e.tabla = est[h].tabla /\ e.key = est[h].key
      /\ e.valor = est[h].valor /\ e.ts = ts
  BY <1>1, <1>3 DEF EstadoTipado, EstadosDeHilo
<1>5. bits # Marcos => Min(Marcos \ bits) \in Marcos
  <2>1. Marcos \ bits \subseteq Nat /\ bits \subseteq Marcos
    BY MarcosAssumption DEF Marcos, Tipos, CacheTipada
  <2> QED BY <2>1, HayMinimo
<1>6. /\ \/ bits # Marcos /\ Sigue(h, "guarda", [e EXCEPT !.marco = Min(Marcos \ bits)])
         \/ bits = Marcos /\ Sigue(h, "eligeVictima", e)
      /\ hora' = IF est[h].op = "INSERT" THEN hora + 1 ELSE hora
  BY <1>4, HayLibres DEF PedirMarco, MarcosLibres, Tipos
<1> HIDE DEF e
<1>7. /\ est'[h].op = est[h].op /\ est'[h].tabla = est[h].tabla /\ est'[h].key = est[h].key
      /\ est'[h].valor = est[h].valor /\ est'[h].ts = ts
      /\ est'[h].pc \in {"guarda", "eligeVictima"}
      /\ \A x \in Hilos \ {h} : est'[x] = est[x]
  <2>1. CASE bits # Marcos /\ Sigue(h, "guarda", [e EXCEPT !.marco = Min(Marcos \ bits)])
    <3> DEFINE f == [e EXCEPT !.marco = Min(Marcos \ bits)]
    <3>1. EstadoTipado(f) /\ "guarda" \in Pcs
      BY <1>4, <1>5, <2>1 DEF EstadoTipado, EstadosDeHilo, Pcs
    <3>2. /\ f.op = e.op /\ f.tabla = e.tabla /\ f.key = e.key /\ f.valor = e.valor /\ f.ts = e.ts
      BY <1>4 DEF EstadoTipado, EstadosDeHilo
    <3>3. Sigue(h, "guarda", f)
      BY <2>1
    <3> HIDE DEF f, ts
    <3> QED BY <1>4, <3>1, <3>2, <3>3, SigueTodo
  <2>2. CASE bits = Marcos /\ Sigue(h, "eligeVictima", e)
    <3>1. "eligeVictima" \in Pcs
      BY DEF Pcs
    <3> HIDE DEF ts
    <3> QED BY <1>4, <2>2, <3>1, SigueTodo
  <2> QED BY <1>6, <2>1, <2>2
<1>8. est[h].op \in {"SELECT", "INSERT"}
  BY <1>1 DEF Trae
<1>9. hora' \in {hora, hora + 1} /\ ts <= hora'
  BY <1>1, <1>6, HorasTipadas
<1>10. enLFS[est[h].tabla].datos[est[h].key].ts <= ts
  <2>1. CASE est[h].op = "SELECT"
    BY <1>1, <2>1 DEF Trae
  <2>2. CASE est[h].op = "INSERT"
    <3>1. est[h].tabla \in Tablas /\ est[h].key \in Claves
      BY <1>1 DEF EstadoTipado, EstadosDeHilo
    <3>2. /\ enLFS[est[h].tabla].datos[est[h].key].ts \in Int /\ hora \in Int
          /\ enLFS[est[h].tabla].datos[est[h].key].ts <= hora
      BY <3>1, HorasTipadas DEF Sanos, HorasInv
    <3> QED BY <2>2, <3>2
  <2> QED BY <1>8, <2>1, <2>2
<1> HIDE DEF ts
<1>11. Trae(est[h])' /\ Entrega(h)'
  BY <1>1, <1>2, <1>7, <1>8, <1>10 DEF Trae, Entrega
<1> QED BY <1>2, <1>3, <1>7, <1>9, <1>11, PasoSinDatos

LEMMA ElegirVictimaSanos ==
  ASSUME Tipos, UnoInv, Sanos, NEW h \in Hilos, NadieMas(h), ElegirVictima(h)
  PROVE  Sanos'
<1> DEFINE e == est[h]
<1>1. /\ EstadoTipado(e) /\ Trae(e) /\ e.pc = "eligeVictima" /\ e.ts \in Horas /\ e.ts <= hora
  BY HorasTipadas DEF Tipos, HilosTipados, Sanos, HorasInv, ElegirVictima
<1>2. UNCHANGED <<cache, enLFS, vigente>> /\ hora' = hora
  BY DEF ElegirVictima, fs, historia
<1>3. PICK p \in paginas : /\ ~p.modificado
                           /\ Sigue(h, "desvincula", [e EXCEPT !.victima = p.seg, !.marco = p.marco])
  BY DEF ElegirVictima, Victimas, SinModificar
<1>4. p.seg \in Nat \ {0} /\ p.marco \in Marcos
  BY DEF Tipos, CacheTipada, TipoDePagina
<1> DEFINE f == [e EXCEPT !.victima = p.seg, !.marco = p.marco]
<1>5. /\ EstadoTipado(f) /\ f.op = e.op /\ f.tabla = e.tabla /\ f.key = e.key
      /\ f.valor = e.valor /\ f.ts = e.ts /\ f.marco = p.marco
  BY <1>1, <1>4 DEF EstadoTipado, EstadosDeHilo
<1>6. Sigue(h, "desvincula", f) /\ "desvincula" \in Pcs
  BY <1>3 DEF Pcs
<1> HIDE DEF f
<1>7. /\ est'[h].pc = "desvincula" /\ est'[h].op = e.op /\ est'[h].tabla = e.tabla
      /\ est'[h].key = e.key /\ est'[h].valor = e.valor /\ est'[h].ts = e.ts
      /\ est'[h].marco = p.marco
      /\ \A x \in Hilos \ {h} : est'[x] = est[x]
  BY <1>5, <1>6, SigueTodo
<1>8. PaginasDelMarco(est[h].marco)' = {p}
  <2>1. PaginasDelMarco(est[h].marco)' = {q \in paginas : q.marco = p.marco}
    BY <1>2, <1>7 DEF PaginasDelMarco, cache
  <2> QED BY <2>1, MarcosDeUno DEF MarcosUnicos
<1>9. Trae(est[h])'
  BY <1>1, <1>2, <1>3, <1>7, <1>8 DEF Trae
<1>10. Entrega(h)'
  BY <1>7 DEF Entrega
<1> QED BY <1>1, <1>2, <1>7, <1>9, <1>10, PasoSinDatos

LEMMA MemoriaFullSanos ==
  ASSUME Tipos, Sanos, NEW h \in Hilos, NadieMas(h), MemoriaFull(h)
  PROVE  Sanos'
<1>1. EstadoTipado(est[h]) /\ est[h].ts \in Horas /\ est[h].ts <= hora
  BY HorasTipadas DEF Tipos, HilosTipados, Sanos, HorasInv
<1>2. UNCHANGED <<cache, enLFS, vigente>> /\ hora' = hora
  BY DEF MemoriaFull, fs, historia
<1>3. Responde(h, "MEMORIA_FULL", est[h]) /\ "MEMORIA_FULL" \in Codigos
  BY DEF MemoriaFull, Codigos
<1>4. /\ est'[h].pc = "responde" /\ est'[h].cod = "MEMORIA_FULL" /\ est'[h].ts = est[h].ts
      /\ \A x \in Hilos \ {h} : est'[x] = est[x]
  BY <1>1, <1>3, RespondeTodo
<1>5. Trae(est[h])' /\ Entrega(h)'
  BY <1>4 DEF Trae, Entrega
<1> QED BY <1>1, <1>2, <1>4, <1>5, PasoSinDatos

LEMMA InvalidoSanos ==
  ASSUME Sanos, UNCHANGED <<cache, est, fs, hora, vigente>>
  PROVE  Sanos'
<1>1. HorasInv'
  BY DEF Sanos, HorasInv, cache, fs
<1>2. \A p : /\ Dato(p)' = Dato(p) /\ Vigente(p)' = Vigente(p)
             /\ \A h : LaEnvia(h, p)' = LaEnvia(h, p)
  BY LlegoIgual DEF TablaDe, ClaveDe, Dato, Vigente, LaEnvia, cache, fs
<1>3. \A m : PaginasDelMarco(m)' = PaginasDelMarco(m)
  BY CacheQuieta
<1>4. ASSUME NEW h \in Hilos PROVE Trae(est[h])' /\ Entrega(h)'
  <2>1. Trae(est'[h]) /\ Entrega(h)
    BY DEF Sanos
  <2>2. Trae(est[h])'
    BY <1>3, <2>1 DEF Trae, fs
  <2>3. Entrega(h)'
    BY <1>2, <2>1 DEF Entrega, cache
  <2> QED BY <2>2, <2>3
<1>5. CacheInv'
  BY CacheInvIgual DEF Sanos, fs
<1> QED BY <1>1, <1>4, <1>5 DEF Sanos

\* The answer of the file system.
LEMMA AtiendeSanos ==
  ASSUME Tipos, SinPerdidas, Sanos, NEW h \in Hilos, NadieMas(h), est[h].pc = "espera",
         UNCHANGED <<cache, enLFS, vigente, hora>>, NEW e, EstadoTipado(e), e.op = est[h].op,
         e.tabla = est[h].tabla, e.key = est[h].key, e.ts = est[h].ts,
         e.visitadas = est[h].visitadas,
         NEW d \in Respuestas, d.tabla = e.tabla, d.key = e.key,
         e.op = "SELECT" =>
           /\ d.cod = "SUCCESS" => /\ d.valor = vigente[e.tabla][e.key]
                                   /\ d.ts = enLFS[e.tabla].datos[e.key].ts
           /\ d.cod = "KEY_NO_EXISTE" => vigente[e.tabla][e.key] = SIN_VALOR,
         Atiende(h, d, e)
  PROVE  Sanos'
<1>1. /\ Trae(est[h]) /\ Entrega(h) /\ e.ts \in Horas /\ e.ts <= hora
      /\ e.tabla \in Tablas /\ e.key \in Claves /\ e.op # "DROP"
  <2>1. e.tabla \in Tablas /\ e.key \in Claves /\ e.op \in Operacion
    BY DEF EstadoTipado, EstadosDeHilo
  <2> QED BY <2>1, HorasTipadas DEF Sanos, HorasInv, SinPerdidas, Operacion
<1>2. /\ d.cod \in Codigos /\ d.tabla \in Tablas /\ d.key \in Claves
      /\ d.valor \in Valores /\ d.ts \in Horas
  BY DEF Respuestas
<1>3. {"recorre", "pideMarco", "crea"} \subseteq Pcs
  BY DEF Pcs
<1>4. /\ est'[h].op = e.op
      /\ \/ /\ est'[h].pc = "recorre" /\ e.op = "JOURNAL" /\ est'[h].ts = e.ts
            /\ est'[h].visitadas = e.visitadas
         \/ est'[h].pc = "crea" /\ e.op = "CREATE" /\ est'[h].ts = e.ts
         \/ /\ est'[h].pc = "pideMarco" /\ e.op = "SELECT" /\ d.cod = "SUCCESS"
            /\ est'[h].tabla = e.tabla /\ est'[h].key = e.key
            /\ est'[h].valor = d.valor /\ est'[h].ts = d.ts
         \/ /\ est'[h].pc = "responde" /\ est'[h].cod = d.cod /\ est'[h].ts = e.ts
            /\ est'[h].tabla = e.tabla /\ est'[h].key = e.key
            /\ e.op = "SELECT" => d.cod # "SUCCESS"
            /\ e.op # "JOURNAL"
      /\ \A x \in Hilos \ {h} : est'[x] = est[x]
  <2>1. CASE e.op = "JOURNAL"
    <3> DEFINE c == IF d.cod \in {"SUCCESS", "TABLA_NO_EXISTE"} THEN "SUCCESS" ELSE "NUESTRO_ERROR"
               f == [e EXCEPT !.cod = c]
    <3>1. c \in Codigos
      BY DEF Codigos
    <3>2. Sigue(h, "recorre", f)
      BY <2>1 DEF Atiende
    <3> HIDE DEF c
    <3>3. EstadoTipado(f) /\ f.op = e.op /\ f.ts = e.ts /\ f.visitadas = e.visitadas
      BY <3>1 DEF EstadoTipado, EstadosDeHilo
    <3> HIDE DEF f
    <3> QED BY <1>3, <2>1, <3>2, <3>3, SigueTodo
  <2>2. CASE e.op = "SELECT" /\ d.cod = "SUCCESS"
    <3> DEFINE f == [e EXCEPT !.tabla = d.tabla, !.key = d.key, !.valor = d.valor, !.ts = d.ts]
    <3>1. Sigue(h, "pideMarco", f)
      BY <2>2 DEF Atiende
    <3>2. /\ EstadoTipado(f) /\ f.op = e.op /\ f.tabla = d.tabla /\ f.key = d.key
          /\ f.valor = d.valor /\ f.ts = d.ts
      BY <1>2 DEF EstadoTipado, EstadosDeHilo
    <3> HIDE DEF f
    <3> QED BY <1>3, <2>2, <3>1, <3>2, SigueTodo
  <2>3. CASE e.op = "CREATE"
    <3>1. Sigue(h, "crea", e)
      BY <2>3 DEF Atiende
    <3> QED BY <1>3, <2>3, <3>1, SigueTodo
  <2>4. CASE e.op # "JOURNAL" /\ ~(e.op = "SELECT" /\ d.cod = "SUCCESS") /\ e.op # "CREATE"
    <3>1. Responde(h, d.cod, e)
      BY <1>1, <2>4, Zenon DEF Atiende
    <3> QED BY <1>2, <2>4, <3>1, RespondeTodo
  <2> QED BY <2>1, <2>2, <2>3, <2>4
<1>5. Trae(est[h])'
  <2>1. enLFS[e.tabla].datos[e.key].ts <= enLFS[e.tabla].datos[e.key].ts
    BY <1>1, HorasTipadas
  <2> QED BY <1>4, <2>1 DEF Trae
<1>6. Entrega(h)'
  <2>1. \A p : Dato(p)' = Dato(p) /\ Vigente(p)' = Vigente(p)
    BY LlegoIgual DEF TablaDe, ClaveDe, Dato, Vigente, cache
  <2>2. est[h].op = "JOURNAL" => \A p \in est[h].visitadas : Dato(p).valor = Vigente(p)
    BY <1>1 DEF Entrega, LaEnvia, EsLaQueEnvia
  <2> QED BY <1>4, <2>1, <2>2 DEF Entrega
<1>7. est'[h].ts \in Horas /\ est'[h].ts <= hora
  <2>1. enLFS[e.tabla].datos[e.key].ts <= hora
    BY <1>1 DEF Sanos, HorasInv
  <2> QED BY <1>1, <1>2, <1>4, <2>1
<1>8. hora' = hora
  OBVIOUS
<1> QED BY <1>4, <1>5, <1>6, <1>7, <1>8, PasoSinDatos

LEMMA RecibirSanos ==
  ASSUME Tipos, SinPerdidas, UnoInv, Sanos, NEW h \in Hilos, NadieMas(h), RecibirDeLFS(h)
  PROVE  Sanos'
<1> DEFINE e == est[h]
           i == PrimeraDe(e.fd)
           d == deLFS[i]
           ajena == (d.para # h)
           f == [e EXCEPT !.fd = 0, !.propia = FALSE, !.ajena = ajena]
<1>1. EstadoTipado(e) /\ FSTipado /\ RespuestaEsperada /\ Trae(e)
  BY DEF Tipos, HilosTipados, UnoInv, Sanos
<1>2. /\ e.pc = "espera" /\ i <= Len(deLFS) /\ Atiende(h, d, f)
      /\ UNCHANGED <<cache, enLFS, vigente, hora>>
  BY DEF RecibirDeLFS, historia
<1>3. i \in 1..Len(deLFS) /\ i \in DOMAIN deLFS
  BY <1>1, <1>2, PrimeraEnCola DEF FSTipado
<1>4. ajena \in BOOLEAN
  OBVIOUS
<1> HIDE DEF i, ajena
<1>5. d \in Respuestas
  BY <1>1, <1>3 DEF FSTipado
<1>6. d.tabla = e.tabla /\ d.key = e.key
  <2>1. \A x \in Hilos : est[x].pc = "espera" => x = h
    BY DEF NadieMas, Sirviendo
  <2> QED BY <1>1, <1>3, <2>1 DEF RespuestaEsperada
<1>7. e.op = "SELECT" =>
        /\ d.cod = "SUCCESS" => /\ d.valor = vigente[e.tabla][e.key]
                                /\ d.ts = enLFS[e.tabla].datos[e.key].ts
        /\ d.cod = "KEY_NO_EXISTE" => vigente[e.tabla][e.key] = SIN_VALOR
  BY <1>1, <1>2, <1>3 DEF Trae
<1>8. /\ EstadoTipado(f) /\ f.op = e.op /\ f.tabla = e.tabla /\ f.key = e.key /\ f.ts = e.ts
      /\ f.visitadas = e.visitadas
  BY <1>1, <1>4 DEF EstadoTipado, EstadosDeHilo
<1> HIDE DEF d, f
<1> QED BY <1>2, <1>5, <1>6, <1>7, <1>8, AtiendeSanos

\* The segment of a table, looked for by its address and by its name.
LEMMA SegmentoDe ==
  ASSUME Tipos, UnoInv, NEW s \in EnUso, NEW t
  PROVE  TablaDelSegmento(s) = t <=> Segmento(t) = s
<1> DEFINE j == CHOOSE i \in DOMAIN segmentos : segmentos[i].id = s
           m == Min(Indices(t))
<1>1. j \in DOMAIN segmentos /\ segmentos[j].id = s
  BY DEF EnUso
<1>2. TablaDelSegmento(s) = segmentos[j].tabla
  BY DEF TablaDelSegmento
<1> HIDE DEF j
<1>3. CacheTipada /\ s # 0
  <2>1. segmentos[j] \in TipoDeSegmento
    BY <1>1 DEF Tipos, CacheTipada
  <2> QED BY <1>1, <2>1 DEF Tipos, TipoDeSegmento
<1>4. Indices(t) # {} => m \in Indices(t) /\ Segmento(t) = segmentos[m].id
  <2>1. Indices(t) \subseteq Nat
    BY <1>3 DEF Indices, CacheTipada
  <2> QED BY <2>1, HayMinimo DEF Segmento
<1> HIDE DEF m
<1>5. m \in Indices(t) => m \in DOMAIN segmentos /\ segmentos[m].tabla = t
  BY DEF Indices
<1>6. segmentos[j].tabla = t => j \in Indices(t)
  BY <1>1 DEF Indices
<1>7. Indices(t) = {} => Segmento(t) = 0
  BY DEF Segmento
<1>8. /\ m \in DOMAIN segmentos /\ segmentos[m].id = segmentos[j].id => m = j
      /\ m \in DOMAIN segmentos /\ segmentos[m].tabla = segmentos[j].tabla => m = j
  BY <1>1 DEF UnoInv, IdsUnicos, ClavesUnicas
<1> QED BY <1>1, <1>2, <1>3, <1>4, <1>5, <1>6, <1>7, <1>8

\* A key has one page.
LEMMA UnaPorClave ==
  ASSUME Tipos, UnoInv, NEW p \in paginas, NEW q \in paginas,
         TablaDe(p) = TablaDe(q), ClaveDe(p) = ClaveDe(q)
  PROVE  p = q
<1>1. p.seg \in EnUso /\ q.seg \in EnUso
  BY DEF Tipos, CacheTipada
<1>2. p.seg = q.seg
  BY <1>1, SegmentoDe DEF TablaDe
<1> QED BY <1>2 DEF UnoInv, ClavesUnicas, ClaveDe

\* The pages that a search by segment finds are those of the table.
LEMMA LaEncontrada ==
  ASSUME Tipos, UnoInv, NEW t, NEW k
  PROVE  /\ \A p \in paginas : TablaDe(p) = t /\ ClaveDe(p) = k <=> p \in PaginasDe(Segmento(t), k)
         /\ EnCache(t, k) = PaginasDe(Segmento(t), k)
<1>1. \A p \in paginas : TablaDe(p) = t <=> p.seg = Segmento(t)
  <2>1. \A p \in paginas : p.seg \in EnUso
    BY DEF Tipos, CacheTipada
  <2> QED BY <2>1, SegmentoDe DEF TablaDe
<1> QED BY <1>1 DEF PaginasDe, EnCache, TablaDe, ClaveDe

\* A record of the file system that is not replaced by an older one.
LEMMA InsertaDato ==
  ASSUME Tipos, NEW m \in Mensajes, m.op = "INSERT", enLFS[m.tabla].existe,
         enLFS[m.tabla].datos[m.key].ts <= m.ts, enLFS' = LFSDespuesDe(m)
  PROVE  /\ \A t \in Tablas : enLFS'[t].existe = enLFS[t].existe
         /\ \A t \in Tablas, k \in Claves :
              ~(t = m.tabla /\ k = m.key) => enLFS'[t].datos[k] = enLFS[t].datos[k]
         /\ enLFS'[m.tabla].datos[m.key].valor = m.valor
         /\ enLFS'[m.tabla].datos[m.key].ts = m.ts
<1> DEFINE r == [valor |-> m.valor, ts |-> m.ts]
           d == [enLFS[m.tabla] EXCEPT !.datos[m.key] = r]
<1>1. /\ m.tabla \in Tablas /\ m.key \in Claves /\ m.ts \in Horas
      /\ enLFS \in [Tablas -> DatosDeTabla] /\ enLFS[m.tabla] \in DatosDeTabla
  BY DatoTipado DEF Tipos, FSTipado
<1>2. m.ts >= enLFS[m.tabla].datos[m.key].ts
  BY <1>1, HorasTipadas
<1>3. CodigoDeLFS(m) = "SUCCESS"
  BY DEF CodigoDeLFS
<1>4. enLFS' = [enLFS EXCEPT ![m.tabla].datos[m.key] = r]
  BY <1>2, <1>3 DEF LFSDespuesDe
<1>5. r.valor = m.valor /\ r.ts = m.ts
  OBVIOUS
<1> HIDE DEF r
<1>6. /\ d.existe = enLFS[m.tabla].existe /\ d.datos[m.key] = r
      /\ \A k \in Claves \ {m.key} : d.datos[k] = enLFS[m.tabla].datos[k]
  BY <1>1 DEF DatosDeTabla
<1>7. enLFS' = [enLFS EXCEPT ![m.tabla] = d]
  BY <1>1, <1>4
<1> HIDE DEF d
<1>8. enLFS'[m.tabla] = d /\ \A t \in Tablas \ {m.tabla} : enLFS'[t] = enLFS[t]
  BY <1>1, <1>7
<1> QED BY <1>1, <1>5, <1>6, <1>8

\* A request that asks: the file system answers with its record.
LEMMA PreguntaSanos ==
  ASSUME Tipos, SinPerdidas, UnoInv, Sanos, \A t \in Tablas : enLFS[t].existe,
         NEW h \in Hilos, NadieMas(h), est[h].pc = "envia", est[h].op # "JOURNAL",
         NEW fd, LlegaALFS(h, fd, Mensaje(est[h])), UNCHANGED <<cache, hora>>,
         NEW e, EstadoTipado(e), e.op = est[h].op, e.tabla = est[h].tabla, e.key = est[h].key,
         e.ts = est[h].ts, Sigue(h, "espera", e)
  PROVE  Sanos' /\ enLFS' = enLFS
<1> DEFINE m == Mensaje(est[h])
<1>1. /\ EstadoTipado(est[h]) /\ Trae(est[h]) /\ Sabe(est[h]) /\ e.ts \in Horas /\ e.ts <= hora
      /\ e.tabla \in Tablas /\ e.key \in Claves /\ e.op # "DROP"
  <2>1. e.tabla \in Tablas /\ e.key \in Claves /\ e.op \in Operacion
    BY DEF EstadoTipado, EstadosDeHilo
  <2>2. EstadoTipado(est[h]) /\ Sabe(est[h])
    BY DEF Tipos, HilosTipados, UnoInv
  <2> QED BY <2>1, <2>2, HorasTipadas DEF Sanos, HorasInv, SinPerdidas, Operacion
<1>2. m.op = e.op /\ m.tabla = e.tabla /\ m.key = e.key /\ m.op # "INSERT" /\ m.op # "DROP"
  BY <1>1 DEF Mensaje, Trae
<1> HIDE DEF m
<1>3. /\ deLFS' = Append(deLFS, Respuesta(h, fd, m)) /\ enLFS' = LFSDespuesDe(m)
      /\ vigente' = vigente
  BY <1>2 DEF LlegaALFS, m
<1>4. enLFS' = enLFS
  <2>1. m.op = "CREATE" => CodigoDeLFS(m) # "SUCCESS"
    BY <1>1, <1>2 DEF CodigoDeLFS
  <2> QED BY <1>2, <1>3, <2>1 DEF LFSDespuesDe
<1>5. /\ est'[h].pc = "espera" /\ est'[h].op = e.op /\ est'[h].tabla = e.tabla
      /\ est'[h].key = e.key /\ est'[h].ts = e.ts
      /\ \A x \in Hilos \ {h} : est'[x] = est[x]
  BY SigueTodo DEF Pcs
<1>6. DOMAIN deLFS' = {1} /\ deLFS'[1] = Respuesta(h, fd, m)
  <2>1. deLFS = <<>>
    BY NadaEnCamino DEF UnoInv
  <2> QED BY <1>3, <2>1
<1> DEFINE d == enLFS[e.tabla].datos[e.key]
<1>7. e.op = "SELECT" => d.valor = vigente[e.tabla][e.key]
  <2> SUFFICES ASSUME e.op = "SELECT" PROVE d.valor = vigente[e.tabla][e.key]
    OBVIOUS
  <2>1. SinPagina(est[h])
    BY <1>1 DEF Sabe, LeFaltaPagina
  <2>2. EnCache(e.tabla, e.key) = {}
    BY <2>1, LaEncontrada DEF SinPagina
  <2> QED BY <1>1, <2>2 DEF Sanos, CacheInv
<1>8. /\ Respuesta(h, fd, m).cod = CodigoDeLFS(m) /\ Respuesta(h, fd, m).valor = d.valor
      /\ Respuesta(h, fd, m).ts = d.ts
  BY <1>2 DEF Respuesta
<1>9. e.op = "SELECT" /\ CodigoDeLFS(m) = "KEY_NO_EXISTE" => d.valor = SIN_VALOR
  BY <1>2 DEF CodigoDeLFS
<1> HIDE DEF d
<1>10. Trae(est[h])' /\ Entrega(h)'
  <2>1. e.op = "SELECT" => \A i \in DOMAIN deLFS' :
           /\ deLFS'[i].cod = "SUCCESS" =>
                /\ deLFS'[i].valor = vigente'[e.tabla][e.key]
                /\ deLFS'[i].ts = enLFS'[e.tabla].datos[e.key].ts
           /\ deLFS'[i].cod = "KEY_NO_EXISTE" => vigente'[e.tabla][e.key] = SIN_VALOR
    BY <1>3, <1>4, <1>6, <1>7, <1>8, <1>9 DEF d
  <2> QED BY <1>2, <1>5, <2>1 DEF Trae, Entrega
<1>11. hora' = hora
  OBVIOUS
<1> QED BY <1>1, <1>3, <1>4, <1>5, <1>10, <1>11, PasoSinDatos

\* A journal sends a page: the file system takes it, and it is worth the last
\* value of its key.
LEMMA EntregaSanos ==
  ASSUME Tipos, UnoInv, JournalInv, Sanos, \A t \in Tablas : enLFS[t].existe,
         NEW h \in Hilos, NadieMas(h), est[h].pc = "envia", est[h].op = "JOURNAL",
         NEW fd, LlegaALFS(h, fd, Mensaje(est[h])), UNCHANGED <<cache, hora>>,
         NEW e, EstadoTipado(e), e.op = est[h].op, e.ts = est[h].ts,
         e.visitadas = est[h].visitadas, Sigue(h, "espera", e)
  PROVE  Sanos' /\ \A t \in Tablas : enLFS'[t].existe
<1> DEFINE m == Mensaje(est[h])
<1>1. EstadoTipado(est[h]) /\ CacheTipada /\ FSTipado /\ Entrega(h) /\ CacheInv /\ HorasInv
  BY DEF Tipos, HilosTipados, Sanos
<1>2. m \in Mensajes /\ m.op = "INSERT" /\ m.tabla = est[h].tabla /\ m.key = est[h].key
      /\ m.ts = est[h].ts /\ m.valor = est[h].valor
  BY <1>1, MensajeTipado DEF Mensaje
<1>3. PICK p \in est[h].visitadas : LaEnvia(h, p)
  BY <1>1 DEF Entrega
<1>4. est[h].visitadas \subseteq paginas /\ p \in paginas
  BY <1>3 DEF JournalInv, JournalDeHilo
<1> HIDE DEF m
<1>5. /\ m.tabla = TablaDe(p) /\ m.key = ClaveDe(p) /\ m.ts = marcos[p.marco].timestamp
      /\ m.valor = marcos[p.marco].valor
      /\ m.tabla \in Tablas /\ m.key \in Claves
  BY <1>1, <1>2, <1>3, <1>4, PaginaEnLFS DEF LaEnvia, EsLaQueEnvia, TablaDe, ClaveDe
<1>6. /\ enLFS[m.tabla].datos[m.key].ts <= m.ts
      /\ m.valor = vigente[m.tabla][m.key]
  BY <1>1, <1>4, <1>5 DEF CacheInv, Dato, Vigente
<1>7. enLFS' = LFSDespuesDe(m) /\ vigente' = vigente
  BY <1>2 DEF LlegaALFS, m
<1>8. /\ \A t \in Tablas : enLFS'[t].existe = enLFS[t].existe
      /\ \A t \in Tablas, k \in Claves :
           ~(t = m.tabla /\ k = m.key) => enLFS'[t].datos[k] = enLFS[t].datos[k]
      /\ enLFS'[m.tabla].datos[m.key].valor = m.valor
      /\ enLFS'[m.tabla].datos[m.key].ts = m.ts
  BY <1>2, <1>5, <1>6, <1>7, InsertaDato
<1>9. /\ est'[h].pc = "espera" /\ est'[h].op = "JOURNAL" /\ est'[h].ts = est[h].ts
      /\ est'[h].visitadas = est[h].visitadas
      /\ \A x \in Hilos \ {h} : est'[x] = est[x]
  BY SigueTodo DEF Pcs
<1>10. marcos' = marcos /\ paginas' = paginas /\ hora' = hora
  BY DEF cache
<1>11. \A q \in paginas : /\ TablaDe(q)' = TablaDe(q) /\ ClaveDe(q)' = ClaveDe(q)
                          /\ TablaDe(q) \in Tablas /\ ClaveDe(q) \in Claves
  BY <1>1, <1>10, LlegoIgual, PaginaEnLFS DEF TablaDe, ClaveDe
<1>12. \A q \in paginas : /\ Vigente(q)' = Vigente(q)
                          /\ Dato(q)' = enLFS'[TablaDe(q)].datos[ClaveDe(q)]
  BY <1>7, <1>11 DEF Vigente, Dato
<1>13. HorasInv'
  <2>1. m.ts <= hora
    BY <1>1, <1>2 DEF HorasInv
  <2>2. \A t \in Tablas, k \in Claves : enLFS'[t].datos[k].ts <= hora
    BY <1>1, <1>8, <2>1 DEF HorasInv
  <2>3. \A x \in Hilos : est'[x].ts <= hora
    BY <1>1, <1>9 DEF HorasInv
  <2> QED BY <1>1, <1>10, <2>2, <2>3 DEF HorasInv
<1>14. \A q \in paginas : TablaDe(q) = m.tabla /\ ClaveDe(q) = m.key => q = p
  BY <1>4, <1>5, UnaPorClave
<1>15. CacheInv'
  <2>1. \A q \in paginas : /\ marcos[q.marco].valor = Vigente(q)
                           /\ Dato(q).ts <= marcos[q.marco].timestamp
                           /\ ~q.modificado => Dato(q).valor = Vigente(q)
    BY <1>1 DEF CacheInv
  <2>2. marcos[p.marco].timestamp <= marcos[p.marco].timestamp
    BY <1>1, <1>4, PaginaEnLFS DEF Horas
  <2>3. ASSUME NEW q \in paginas
        PROVE  /\ enLFS'[TablaDe(q)].datos[ClaveDe(q)].ts <= marcos[q.marco].timestamp
               /\ ~q.modificado => enLFS'[TablaDe(q)].datos[ClaveDe(q)].valor = Vigente(q)
    <3>1. CASE q = p
      <4>1. enLFS'[TablaDe(q)].datos[ClaveDe(q)].ts = marcos[q.marco].timestamp
        BY <1>5, <1>8, <3>1
      <4>2. enLFS'[TablaDe(q)].datos[ClaveDe(q)].valor = Vigente(q)
        BY <1>5, <1>6, <1>8, <3>1 DEF Vigente
      <4> QED BY <2>2, <3>1, <4>1, <4>2
    <3>2. CASE q # p
      <4>1. enLFS'[TablaDe(q)].datos[ClaveDe(q)] = Dato(q)
        BY <1>8, <1>11, <1>14, <3>2 DEF Dato
      <4> QED BY <2>1, <4>1
    <3> QED BY <3>1, <3>2
  <2>4. \A q \in paginas' : /\ marcos'[q.marco].valor = Vigente(q)'
                            /\ Dato(q)'.ts <= marcos'[q.marco].timestamp
                            /\ ~q.modificado => Dato(q)'.valor = Vigente(q)'
    BY <1>10, <1>12, <2>1, <2>3
  <2>5. \A t, k : EnCache(t, k)' = EnCache(t, k)
    BY <1>10, LlegoIgual DEF EnCache
  <2>6. \A t \in Tablas, k \in Claves :
          EnCache(t, k)' = {} => enLFS'[t].datos[k].valor = vigente'[t][k]
    BY <1>1, <1>6, <1>7, <1>8, <2>5 DEF CacheInv
  <2> QED BY <2>4, <2>6 DEF CacheInv
<1>16. Trae(est[h])'
  BY <1>9 DEF Trae
<1>17. Entrega(h)'
  <2>1. ASSUME NEW q \in est[h].visitadas
        PROVE  enLFS'[TablaDe(q)].datos[ClaveDe(q)].valor = Vigente(q)
    <3>1. q \in paginas /\ (Dato(q).valor = Vigente(q) \/ LaEnvia(h, q))
      BY <1>1, <1>4 DEF Entrega
    <3>2. CASE TablaDe(q) = m.tabla /\ ClaveDe(q) = m.key
      BY <1>6, <1>8, <3>2 DEF Vigente
    <3>3. CASE ~(TablaDe(q) = m.tabla /\ ClaveDe(q) = m.key)
      <4>1. ~LaEnvia(h, q)
        BY <1>2, <3>3 DEF LaEnvia, EsLaQueEnvia, TablaDe, ClaveDe
      <4> QED BY <1>8, <1>11, <3>1, <3>3, <4>1 DEF Dato
    <3> QED BY <3>2, <3>3
  <2>2. \A q \in est'[h].visitadas : Dato(q)'.valor = Vigente(q)'
    BY <1>4, <1>9, <1>12, <2>1
  <2> QED BY <1>9, <2>2 DEF Entrega
<1>18. \A x \in Hilos : Trae(est[x])' /\ Entrega(x)'
  BY <1>9, <1>16, <1>17, OtrosTraen DEF NadieMas
<1> QED BY <1>8, <1>13, <1>15, <1>18 DEF Sanos

LEMMA IntercambiarSanos ==
  ASSUME Tipos, SinPerdidas, UnoInv, JournalInv, Sanos, \A t \in Tablas : enLFS[t].existe,
         NEW h \in Hilos, NadieMas(h), Intercambiar(h)
  PROVE  Sanos' /\ \A t \in Tablas : enLFS'[t].existe
<1> DEFINE e == est[h]
<1>1. EstadoTipado(e) /\ FSTipado
  BY DEF Tipos, HilosTipados
<1>2. FdLibre \in Nat
  BY TiposEsTypeOK, ConexionNueva
<1>3. rotas = {} /\ lfs
  <2>1. caidas = 0
    BY DEF SinPerdidas, Tipos, RestoTipado
  <2> QED BY <2>1 DEF JournalInv
<1> DEFINE conFd(fd) == [e EXCEPT !.fd = fd]
           conSuFd(fd) == [e EXCEPT !.fd = fd, !.propia = TRUE]
<1>4. ASSUME NEW fd \in Nat
      PROVE  /\ EstadoTipado(conFd(fd)) /\ conFd(fd).op = e.op /\ conFd(fd).tabla = e.tabla
             /\ conFd(fd).key = e.key /\ conFd(fd).ts = e.ts /\ conFd(fd).visitadas = e.visitadas
             /\ EstadoTipado(conSuFd(fd)) /\ conSuFd(fd).op = e.op /\ conSuFd(fd).tabla = e.tabla
             /\ conSuFd(fd).key = e.key /\ conSuFd(fd).ts = e.ts
             /\ conSuFd(fd).visitadas = e.visitadas
  BY <1>1 DEF EstadoTipado, EstadosDeHilo
<1> HIDE DEF conFd, conSuFd
<1>5. CASE Enviar(h)
  <2>1. /\ conexion \in Nat /\ e.pc = "envia" /\ UNCHANGED <<cache, hora>>
        /\ LlegaALFS(h, conexion, Mensaje(e)) /\ Sigue(h, "espera", conFd(conexion))
    BY <1>1, <1>5 DEF Enviar, FSTipado, conFd
  <2>2. CASE e.op = "JOURNAL"
    BY <1>4, <2>1, <2>2, EntregaSanos
  <2>3. CASE e.op # "JOURNAL"
    BY <1>4, <2>1, <2>3, PreguntaSanos
  <2> QED BY <2>2, <2>3
<1>6. CASE EnviarReconectando(h)
  <2>1. /\ e.pc = "envia" /\ UNCHANGED <<cache, hora>>
        /\ LlegaALFS(h, FdLibre, Mensaje(e)) /\ Sigue(h, "espera", conSuFd(FdLibre))
    BY <1>6 DEF EnviarReconectando, conSuFd
  <2>2. CASE e.op = "JOURNAL"
    BY <1>2, <1>4, <2>1, <2>2, EntregaSanos
  <2>3. CASE e.op # "JOURNAL"
    BY <1>2, <1>4, <2>1, <2>3, PreguntaSanos
  <2> QED BY <2>2, <2>3
<1>7. ~EnviarEnVano(h) /\ ~FallarEnvio(h) /\ ~RecibirCaida(h)
  BY <1>3 DEF EnviarEnVano, FallarEnvio, RecibirCaida
<1>8. CASE RecibirDeLFS(h)
  BY <1>8, RecibirSanos DEF RecibirDeLFS
<1> QED BY <1>5, <1>6, <1>7, <1>8 DEF Intercambiar

\* A step of the request that is served that changes pages.
LEMMA PasoDeDatos ==
  ASSUME Tipos, Sanos, NEW h \in Hilos, NadieMas(h), enLFS' = enLFS,
         hora' \in {hora, hora + 1}, \A x \in Hilos \ {h} : est'[x] = est[x],
         est'[h].ts = est[h].ts, \A m \in Marcos : marcos'[m].timestamp <= hora',
         CacheInv', Trae(est[h])', Entrega(h)'
  PROVE  Sanos'
<1>1. HorasInv'
  BY HorasTipadas DEF Sanos, HorasInv
<1>2. \A x \in Hilos : Trae(est[x])' /\ Entrega(x)'
  BY OtrosTraen DEF NadieMas
<1> QED BY <1>1, <1>2 DEF Sanos

LEMMA TablasQuietas ==
  ASSUME UNCHANGED segmentos
  PROVE  \A s : TablaDelSegmento(s)' = TablaDelSegmento(s)
BY DEF TablaDelSegmento

\* A journal takes a page to send, and clears the cache.
LEMMA TomarPaginaSanos ==
  ASSUME Tipos, JournalInv, Sanos, NEW h \in Hilos, NadieMas(h), TomarPagina(h)
  PROVE  Sanos'
<1> DEFINE e == est[h]
<1>1. EstadoTipado(e) /\ CacheTipada /\ Entrega(h) /\ HorasInv
  BY DEF Tipos, HilosTipados, Sanos
<1>2. e.pc = "recorre" /\ e.op = "JOURNAL" /\ UNCHANGED <<cache, enLFS, vigente, hora>>
  BY DEF TomarPagina, JournalInv, JournalDeHilo, fs, historia
<1>3. PICK p \in PorEnviar(h) :
        Sigue(h, "envia",
          [e EXCEPT !.tabla = TablaDelSegmento(p.seg), !.key = marcos[p.marco].key,
                    !.valor = marcos[p.marco].valor, !.ts = marcos[p.marco].timestamp,
                    !.visitadas = @ \cup {p}])
  BY DEF TomarPagina
<1> DEFINE t == TablaDelSegmento(p.seg)
           m == marcos[p.marco]
           v == e.visitadas \cup {p}
           f == [e EXCEPT !.tabla = t, !.key = m.key, !.valor = m.valor, !.ts = m.timestamp,
                          !.visitadas = v]
<1>4. p \in TipoDePagina /\ p.seg \in EnUso /\ p.marco \in Marcos
  BY <1>1 DEF PorEnviar, CacheTipada, TipoDePagina
<1>5. t \in Tablas
  BY <1>1, <1>4, TablaDelSegmentoTipada
<1>6. m \in [key : Claves, valor : Valores, timestamp : Horas]
  BY <1>1, <1>4 DEF CacheTipada
<1>7. v \in SUBSET TipoDePagina
  BY <1>1, <1>4 DEF EstadoTipado, EstadosDeHilo
<1>8. Sigue(h, "envia", f) /\ "envia" \in Pcs
  BY <1>3 DEF Pcs
<1>9. m.timestamp <= hora /\ m.timestamp \in Horas
  BY <1>1, <1>4, <1>6 DEF HorasInv
<1> HIDE DEF t, m, v
<1>10. EstadoTipado(f) /\ f.op = e.op /\ f.tabla = t /\ f.key = m.key /\ f.valor = m.valor
       /\ f.ts = m.timestamp /\ f.visitadas = v
  BY <1>1, <1>5, <1>6, <1>7 DEF EstadoTipado, EstadosDeHilo
<1> HIDE DEF f
<1>11. /\ est'[h].pc = "envia" /\ est'[h].op = e.op /\ est'[h].tabla = t /\ est'[h].key = m.key
       /\ est'[h].valor = m.valor /\ est'[h].ts = m.timestamp /\ est'[h].visitadas = v
       /\ \A x \in Hilos \ {h} : est'[x] = est[x]
  BY <1>8, <1>10, SigueTodo
<1>12. Trae(est[h])'
  BY <1>2, <1>11 DEF Trae
<1>13. Entrega(h)'
  <2>1. \A q : Dato(q)' = Dato(q) /\ Vigente(q)' = Vigente(q)
    BY <1>2, LlegoIgual DEF TablaDe, ClaveDe, Dato, Vigente, cache
  <2>2. \A q \in e.visitadas : Dato(q).valor = Vigente(q)
    BY <1>1, <1>2 DEF Entrega, LaEnvia, EsLaQueEnvia
  <2>3. LaEnvia(h, p)'
    BY <1>2, <1>11, LlegoIgual DEF LaEnvia, EsLaQueEnvia, t, m, cache
  <2>4. \A q \in v : q = p \/ q \in e.visitadas
    BY DEF v
  <2>5. p \in v
    BY DEF v
  <2> QED BY <1>11, <2>1, <2>2, <2>3, <2>4, <2>5 DEF Entrega
<1>14. hora' = hora
  BY <1>2
<1> QED BY <1>2, <1>9, <1>11, <1>12, <1>13, <1>14, PasoSinDatos

LEMMA LimpiarSanos ==
  ASSUME Tipos, JournalInv, Sanos, NEW h \in Hilos, NadieMas(h), Limpiar(h)
  PROVE  Sanos'
<1> DEFINE e == est[h]
<1>1. EstadoTipado(e) /\ CacheTipada /\ Entrega(h) /\ HorasInv /\ CacheInv
  BY DEF Tipos, HilosTipados, Sanos
<1>2. /\ e.pc = "recorre" /\ e.op = "JOURNAL" /\ UNCHANGED <<enLFS, vigente, hora>>
      /\ PorEnviar(h) = {} /\ Eliminar(EnUso)
  BY DEF Limpiar, JournalInv, JournalDeHilo, fs, historia
<1>3. PICK cod \in {"SUCCESS", "FAILURE"} : Responde(h, cod, e)
  BY DEF Limpiar
<1>4. /\ est'[h].pc = "responde" /\ est'[h].op = "JOURNAL" /\ est'[h].ts = e.ts
      /\ \A x \in Hilos \ {h} : est'[x] = est[x]
  BY <1>1, <1>2, <1>3, RespondeTodo DEF Codigos
<1>5. Trae(est[h])' /\ Entrega(h)'
  BY <1>4 DEF Trae, Entrega
<1>6. paginas' = {}
  BY <1>1, <1>2 DEF Eliminar, CacheTipada
<1>7. \A m \in Marcos : marcos'[m].timestamp = marcos[m].timestamp
  <2> DEFINE L == {p.marco : p \in {q \in paginas : q.seg \in EnUso}}
  <2>1. marcos' = [m \in Marcos |-> IF m \in L THEN [marcos[m] EXCEPT !.valor = SIN_VALOR]
                                               ELSE marcos[m]]
    BY <1>2 DEF Eliminar
  <2>2. \A m \in Marcos : [marcos[m] EXCEPT !.valor = SIN_VALOR].timestamp = marcos[m].timestamp
    BY <1>1 DEF CacheTipada
  <2> HIDE DEF L
  <2> QED BY <2>1, <2>2
<1>8. \A m \in Marcos : marcos'[m].timestamp <= hora'
  BY <1>1, <1>2, <1>7 DEF HorasInv
\* What was in the cache is in the file system.
<1>9. ASSUME NEW t \in Tablas, NEW k \in Claves PROVE enLFS[t].datos[k].valor = vigente[t][k]
  <2>1. CASE EnCache(t, k) = {}
    BY <1>1, <2>1 DEF CacheInv
  <2>2. CASE EnCache(t, k) # {}
    <3>1. PICK p \in paginas : TablaDe(p) = t /\ ClaveDe(p) = k
      BY <2>2 DEF EnCache, TablaDe, ClaveDe
    <3>2. CASE p.modificado
      <4>1. p \in e.visitadas
        BY <1>2, <3>2 DEF PorEnviar
      <4>2. Dato(p).valor = Vigente(p)
        BY <1>1, <1>2, <4>1 DEF Entrega, LaEnvia, EsLaQueEnvia
      <4> QED BY <3>1, <4>2 DEF Dato, Vigente
    <3>3. CASE ~p.modificado
      BY <1>1, <3>1, <3>3 DEF CacheInv, Dato, Vigente
    <3> QED BY <3>2, <3>3
  <2> QED BY <2>1, <2>2
<1>10. CacheInv'
  BY <1>2, <1>6, <1>9 DEF CacheInv
<1>11. hora' = hora
  BY <1>2
<1> QED BY <1>2, <1>4, <1>5, <1>8, <1>10, <1>11, PasoDeDatos

\* A page of the cache is read: it is used now.
LEMMA LeerSanos ==
  ASSUME Tipos, UnoInv, Sanos, NEW h \in Hilos, NadieMas(h), LeerPagina(h)
  PROVE  Sanos'
<1> DEFINE e == est[h]
<1>1. EstadoTipado(e) /\ Sabe(e) /\ CacheTipada /\ HorasInv /\ CacheInv /\ hora \in Nat
  BY HorasTipadas DEF Tipos, HilosTipados, UnoInv, Sanos
<1>2. /\ e.pc = "buscaPagina" /\ e.op = "SELECT" /\ hora' = hora + 1
      /\ UNCHANGED <<segmentos, paginas, enLFS, vigente>>
  BY DEF LeerPagina, fs, historia
<1>3. PICK p \in PaginasDe(e.seg, e.key) :
        /\ marcos' = [marcos EXCEPT ![p.marco].timestamp = hora + 1]
        /\ Responde(h, "SUCCESS", [e EXCEPT !.valor = marcos[p.marco].valor])
  BY DEF LeerPagina
<1>4. p \in paginas /\ TablaDe(p) = e.tabla /\ ClaveDe(p) = e.key /\ p.marco \in Marcos
  <2>1. p \in PaginasDe(Segmento(e.tabla), e.key) /\ p \in paginas
    BY <1>1, <1>2 DEF Sabe, PaginasDe
  <2>2. p.marco \in Marcos
    BY <1>1, <2>1 DEF CacheTipada, TipoDePagina
  <2> QED BY <2>1, <2>2, LaEncontrada
<1> DEFINE v == marcos[p.marco].valor
           f == [e EXCEPT !.valor = v]
<1>5. v \in Valores /\ v = vigente[e.tabla][e.key]
  BY <1>1, <1>4 DEF CacheTipada, CacheInv, Vigente
<1> HIDE DEF v
<1>6. EstadoTipado(f) /\ f.op = e.op /\ f.tabla = e.tabla /\ f.key = e.key /\ f.valor = v /\ f.ts = e.ts
  BY <1>1, <1>5 DEF EstadoTipado, EstadosDeHilo
<1>7. Responde(h, "SUCCESS", f)
  BY <1>3 DEF v
<1> HIDE DEF f
<1>8. /\ est'[h].pc = "responde" /\ est'[h].op = "SELECT" /\ est'[h].cod = "SUCCESS"
      /\ est'[h].tabla = e.tabla /\ est'[h].key = e.key /\ est'[h].valor = v /\ est'[h].ts = e.ts
      /\ \A x \in Hilos \ {h} : est'[x] = est[x]
  BY <1>2, <1>6, <1>7, RespondeTodo DEF Codigos
<1>9. Trae(est[h])' /\ Entrega(h)'
  BY <1>2, <1>5, <1>8 DEF Trae, Entrega
<1>10. \A m \in Marcos :
         /\ marcos'[m].key = marcos[m].key /\ marcos'[m].valor = marcos[m].valor
         /\ marcos'[m].timestamp = IF m = p.marco THEN hora + 1 ELSE marcos[m].timestamp
  BY <1>1, <1>3, <1>4 DEF CacheTipada
<1>11. \A m \in Marcos : /\ marcos'[m].timestamp <= hora'
                         /\ marcos[m].timestamp <= marcos'[m].timestamp
                         /\ marcos[m].timestamp \in Int /\ marcos'[m].timestamp \in Int
  BY <1>1, <1>2, <1>10, HorasTipadas DEF HorasInv
<1>12. \A q \in paginas : /\ q.marco \in Marcos /\ ClaveDe(q)' = ClaveDe(q)
                          /\ TablaDe(q)' = TablaDe(q) /\ Dato(q)' = Dato(q)
                          /\ Vigente(q)' = Vigente(q) /\ Dato(q).ts \in Int
  <2>1. \A q \in paginas : q.marco \in Marcos
    BY <1>1 DEF CacheTipada, TipoDePagina
  <2>2. \A q \in paginas : ClaveDe(q)' = ClaveDe(q) /\ TablaDe(q)' = TablaDe(q)
    BY <1>2, <1>10, <2>1, TablasQuietas DEF ClaveDe, TablaDe
  <2>3. \A q \in paginas : Dato(q).ts \in Int
    BY <1>1, PaginaEnLFS, HorasTipadas DEF Dato, TablaDe, ClaveDe
  <2> QED BY <1>2, <2>1, <2>2, <2>3 DEF Dato, Vigente
<1>13. CacheInv'
  <2>1. \A q \in paginas : /\ marcos[q.marco].valor = Vigente(q)
                           /\ Dato(q).ts <= marcos[q.marco].timestamp
                           /\ ~q.modificado => Dato(q).valor = Vigente(q)
    BY <1>1 DEF CacheInv
  <2>2. \A q \in paginas : Dato(q).ts <= marcos'[q.marco].timestamp
    BY <1>11, <1>12, <2>1
  <2>3. \A q \in paginas' : /\ marcos'[q.marco].valor = Vigente(q)'
                            /\ Dato(q)'.ts <= marcos'[q.marco].timestamp
                            /\ ~q.modificado => Dato(q)'.valor = Vigente(q)'
    BY <1>2, <1>10, <1>12, <2>1, <2>2
  <2>4. \A t, k : EnCache(t, k)' = EnCache(t, k)
    BY <1>2, <1>12 DEF EnCache, TablaDe, ClaveDe
  <2>5. \A t \in Tablas, k \in Claves :
          EnCache(t, k)' = {} => enLFS'[t].datos[k].valor = vigente'[t][k]
    BY <1>1, <1>2, <2>4 DEF CacheInv
  <2> QED BY <2>3, <2>5 DEF CacheInv
<1> QED BY <1>2, <1>8, <1>9, <1>11, <1>13, PasoDeDatos

\* A key is given a value, and the others keep theirs.
LEMMA ValorNuevo ==
  ASSUME Tipos, NEW t \in Tablas, NEW k \in Claves, NEW v,
         vigente' = [vigente EXCEPT ![t][k] = v]
  PROVE  /\ vigente'[t][k] = v
         /\ \A s \in Tablas, c \in Claves : ~(s = t /\ c = k) => vigente'[s][c] = vigente[s][c]
<1>1. vigente \in [Tablas -> [Claves -> Valores]]
  BY DEF Tipos, RestoTipado
<1> QED BY <1>1

\* A page that is in the cache is written.
LEMMA ActualizarSanos ==
  ASSUME Tipos, UnoInv, Sanos, NEW h \in Hilos, NadieMas(h), ActualizarPagina(h)
  PROVE  Sanos'
<1> DEFINE e == est[h]
<1>1. EstadoTipado(e) /\ Sabe(e) /\ CacheTipada /\ HorasInv /\ CacheInv /\ hora \in Nat
  BY HorasTipadas DEF Tipos, HilosTipados, UnoInv, Sanos
<1>2. /\ e.pc = "buscaPagina" /\ e.op = "INSERT" /\ hora' = hora + 1
      /\ UNCHANGED <<segmentos, enLFS>> /\ Responde(h, "SUCCESS", e)
      /\ vigente' = [vigente EXCEPT ![e.tabla][e.key] = e.valor]
  BY DEF ActualizarPagina, fs
<1>3. PICK p \in PaginasDe(e.seg, e.key) :
        /\ marcos' = [marcos EXCEPT ![p.marco] =
             [key |-> e.key, valor |-> e.valor, timestamp |-> hora + 1]]
        /\ paginas' = (paginas \ {p}) \cup {[p EXCEPT !.modificado = TRUE]}
  BY DEF ActualizarPagina
<1>4. /\ p \in paginas /\ TablaDe(p) = e.tabla /\ ClaveDe(p) = e.key /\ p \in TipoDePagina
      /\ e.tabla \in Tablas /\ e.key \in Claves
  <2>1. p \in PaginasDe(Segmento(e.tabla), e.key) /\ p \in paginas
    BY <1>1, <1>2 DEF Sabe, PaginasDe
  <2>2. p \in TipoDePagina /\ e.tabla \in Tablas /\ e.key \in Claves
    BY <1>1, <2>1 DEF CacheTipada, EstadoTipado, EstadosDeHilo
  <2> QED BY <2>1, <2>2, LaEncontrada
<1> DEFINE r == [p EXCEPT !.modificado = TRUE]
           c == [key |-> e.key, valor |-> e.valor, timestamp |-> hora + 1]
<1>5. r.seg = p.seg /\ r.marco = p.marco /\ r.modificado /\ p.marco \in Marcos
  BY <1>4 DEF TipoDePagina
<1>6. c.key = e.key /\ c.valor = e.valor /\ c.timestamp = hora + 1
  OBVIOUS
<1> HIDE DEF c
<1>7. marcos'[p.marco] = c /\ \A m \in Marcos \ {p.marco} : marcos'[m] = marcos[m]
  BY <1>1, <1>3, <1>5 DEF CacheTipada, c
<1> HIDE DEF r
<1>8. paginas' = (paginas \ {p}) \cup {r}
  BY <1>3 DEF r
<1>9. /\ est'[h].pc = "responde" /\ est'[h].op = "INSERT" /\ est'[h].ts = e.ts
      /\ \A x \in Hilos \ {h} : est'[x] = est[x]
  BY <1>1, <1>2, RespondeTodo DEF Codigos
<1>10. Trae(est[h])' /\ Entrega(h)'
  BY <1>9 DEF Trae, Entrega
<1>11. \A m \in Marcos : marcos'[m].timestamp <= hora'
  BY <1>1, <1>2, <1>6, <1>7, HorasTipadas DEF HorasInv
<1>12. /\ vigente'[e.tabla][e.key] = e.valor
       /\ \A t \in Tablas, k \in Claves :
            ~(t = e.tabla /\ k = e.key) => vigente'[t][k] = vigente[t][k]
  BY <1>2, <1>4, ValorNuevo
<1>13. \A s : TablaDelSegmento(s)' = TablaDelSegmento(s)
  BY <1>2, TablasQuietas
\* The page that was written, and the others.
<1>14. /\ TablaDe(r)' = e.tabla /\ ClaveDe(r)' = e.key /\ r \in paginas'
       /\ Vigente(r)' = e.valor /\ marcos'[r.marco].valor = e.valor
       /\ Dato(r)' = enLFS[e.tabla].datos[e.key]
       /\ Dato(r)'.ts <= marcos'[r.marco].timestamp
  <2>1. TablaDe(r)' = e.tabla /\ ClaveDe(r)' = e.key /\ r \in paginas'
    BY <1>4, <1>5, <1>6, <1>7, <1>8, <1>13 DEF TablaDe, ClaveDe
  <2>2. Vigente(r)' = e.valor /\ Dato(r)' = enLFS[e.tabla].datos[e.key]
    BY <1>2, <1>12, <2>1 DEF Vigente, Dato
  <2>3. marcos'[r.marco].valor = e.valor /\ marcos'[r.marco].timestamp = hora + 1
    BY <1>5, <1>6, <1>7
  <2>4. enLFS[e.tabla].datos[e.key].ts <= hora + 1
    BY <1>1, <1>4, HorasTipadas DEF HorasInv
  <2> QED BY <2>1, <2>2, <2>3, <2>4
<1>15. ASSUME NEW q \in paginas, q # p
       PROVE  /\ q \in paginas' /\ TablaDe(q)' = TablaDe(q) /\ ClaveDe(q)' = ClaveDe(q)
              /\ Vigente(q)' = Vigente(q) /\ Dato(q)' = Dato(q)
              /\ marcos'[q.marco] = marcos[q.marco]
              /\ ~(TablaDe(q) = e.tabla /\ ClaveDe(q) = e.key)
  <2>1. q.marco \in Marcos /\ q.marco # p.marco
    BY <1>1, <1>4, <1>15, MarcosDeUno DEF CacheTipada, TipoDePagina, MarcosUnicos
  <2>2. marcos'[q.marco] = marcos[q.marco]
    BY <1>7, <2>1
  <2>3. TablaDe(q)' = TablaDe(q) /\ ClaveDe(q)' = ClaveDe(q)
    BY <1>13, <2>2 DEF TablaDe, ClaveDe
  <2>4. ~(TablaDe(q) = e.tabla /\ ClaveDe(q) = e.key)
    BY <1>4, <1>15, UnaPorClave
  <2>5. TablaDe(q) \in Tablas /\ ClaveDe(q) \in Claves
    BY <1>1, PaginaEnLFS DEF TablaDe, ClaveDe
  <2>6. Vigente(q)' = Vigente(q) /\ Dato(q)' = Dato(q)
    BY <1>2, <1>12, <2>3, <2>4, <2>5 DEF Vigente, Dato
  <2> QED BY <1>8, <1>15, <2>2, <2>3, <2>4, <2>6
<1>16. CacheInv'
  <2>1. \A q \in paginas : /\ marcos[q.marco].valor = Vigente(q)
                           /\ Dato(q).ts <= marcos[q.marco].timestamp
                           /\ ~q.modificado => Dato(q).valor = Vigente(q)
    BY <1>1 DEF CacheInv
  <2>2. \A q \in paginas' : /\ marcos'[q.marco].valor = Vigente(q)'
                            /\ Dato(q)'.ts <= marcos'[q.marco].timestamp
                            /\ ~q.modificado => Dato(q)'.valor = Vigente(q)'
    <3> TAKE q \in paginas'
    <3>1. CASE q = r
      BY <1>5, <1>14, <3>1
    <3>2. CASE q # r
      <4>1. q \in paginas /\ q # p
        BY <1>8, <3>2
      <4> QED BY <1>15, <2>1, <4>1
    <3> QED BY <3>1, <3>2
  <2>3. ASSUME NEW t \in Tablas, NEW k \in Claves, EnCache(t, k)' = {}
        PROVE  enLFS'[t].datos[k].valor = vigente'[t][k]
    <3>1. ~(t = e.tabla /\ k = e.key)
      BY <1>14, <2>3 DEF EnCache, TablaDe, ClaveDe
    <3>2. EnCache(t, k) = {}
      <4> SUFFICES ASSUME NEW q \in paginas, TablaDe(q) = t, ClaveDe(q) = k PROVE FALSE
        BY DEF EnCache, TablaDe, ClaveDe
      <4>1. q # p
        BY <1>4, <3>1
      <4>2. q \in paginas' /\ TablaDe(q)' = t /\ ClaveDe(q)' = k
        BY <1>15, <4>1
      <4> QED BY <2>3, <4>2 DEF EnCache, TablaDe, ClaveDe
    <3> QED BY <1>1, <1>2, <1>12, <3>1, <3>2 DEF CacheInv
  <2>4. \A t \in Tablas, k \in Claves :
          EnCache(t, k)' = {} => enLFS'[t].datos[k].valor = vigente'[t][k]
    BY <2>3
  <2> QED BY <2>2, <2>4 DEF CacheInv
<1>17. hora' \in {hora, hora + 1} /\ enLFS' = enLFS /\ est'[h].ts = est[h].ts
  BY <1>2, <1>9
<1> QED BY <1>9, <1>10, <1>11, <1>16, <1>17, PasoDeDatos

\* The page of a victim leaves the cache: the file system has its value.
LEMMA DesvincularSanos ==
  ASSUME Tipos, UnoInv, Sanos, NEW h \in Hilos, NadieMas(h), Desvincular(h)
  PROVE  Sanos'
<1> DEFINE e == est[h]
           m == e.marco
<1>1. /\ EstadoTipado(e) /\ Trae(e) /\ CacheTipada /\ HorasInv /\ CacheInv
      /\ e.ts \in Horas /\ e.ts <= hora
  BY HorasTipadas DEF Tipos, HilosTipados, Sanos, HorasInv
<1>2. /\ e.pc = "desvincula" /\ Sigue(h, "guarda", e) /\ "guarda" \in Pcs
      /\ UNCHANGED <<segmentos, marcos, enLFS, vigente, hora>>
  BY DEF Desvincular, fs, historia, Pcs
<1>3. PICK quitadas \in SUBSET PaginasDelMarco(m) : paginas' = paginas \ quitadas
  BY DEF Desvincular
<1>4. \A q \in quitadas : q \in paginas /\ ~q.modificado
  BY <1>1, <1>2, <1>3 DEF Trae, PaginasDelMarco
<1>5. /\ est'[h].pc = "guarda" /\ est'[h].op = e.op /\ est'[h].tabla = e.tabla
      /\ est'[h].key = e.key /\ est'[h].valor = e.valor /\ est'[h].ts = e.ts
      /\ \A x \in Hilos \ {h} : est'[x] = est[x]
  BY <1>1, <1>2, SigueTodo
<1>6. Trae(est[h])' /\ Entrega(h)'
  BY <1>1, <1>2, <1>5 DEF Trae, Entrega
<1>7. \A s : TablaDelSegmento(s)' = TablaDelSegmento(s)
  BY <1>2, TablasQuietas
<1>8. \A q : /\ TablaDe(q)' = TablaDe(q) /\ ClaveDe(q)' = ClaveDe(q)
             /\ Dato(q)' = Dato(q) /\ Vigente(q)' = Vigente(q)
  BY <1>2, <1>7 DEF TablaDe, ClaveDe, Dato, Vigente
<1>9. CacheInv'
  <2>1. \A q \in paginas : /\ marcos[q.marco].valor = Vigente(q)
                           /\ Dato(q).ts <= marcos[q.marco].timestamp
                           /\ ~q.modificado => Dato(q).valor = Vigente(q)
    BY <1>1 DEF CacheInv
  <2>2. \A q \in paginas' : /\ marcos'[q.marco].valor = Vigente(q)'
                            /\ Dato(q)'.ts <= marcos'[q.marco].timestamp
                            /\ ~q.modificado => Dato(q)'.valor = Vigente(q)'
    BY <1>2, <1>3, <1>8, <2>1
  <2>3. ASSUME NEW t \in Tablas, NEW k \in Claves, EnCache(t, k)' = {}
        PROVE  enLFS[t].datos[k].valor = vigente[t][k]
    <3>1. CASE EnCache(t, k) = {}
      BY <1>1, <3>1 DEF CacheInv
    <3>2. CASE EnCache(t, k) # {}
      <4>1. PICK q \in paginas : TablaDe(q) = t /\ ClaveDe(q) = k
        BY <3>2 DEF EnCache, TablaDe, ClaveDe
      <4>2. q \notin paginas'
        BY <1>8, <2>3, <4>1 DEF EnCache, TablaDe, ClaveDe
      <4>3. Dato(q).valor = Vigente(q)
        BY <1>3, <1>4, <2>1, <4>2
      <4> QED BY <4>1, <4>3 DEF Dato, Vigente
    <3> QED BY <3>1, <3>2
  <2>4. \A t \in Tablas, k \in Claves :
          EnCache(t, k)' = {} => enLFS'[t].datos[k].valor = vigente'[t][k]
    BY <1>2, <2>3
  <2> QED BY <2>2, <2>4 DEF CacheInv
<1>10. /\ hora' = hora /\ enLFS' = enLFS /\ est'[h].ts = est[h].ts
       /\ \A n \in Marcos : marcos'[n].timestamp <= hora'
  BY <1>1, <1>2, <1>5 DEF HorasInv
<1> QED BY <1>5, <1>6, <1>9, <1>10, PasoDeDatos

\* A new segment is of its table, and the others are of theirs.
LEMMA TablaAgregada ==
  ASSUME Tipos, UnoInv, NEW t \in Tablas, Segmento(t) = 0, NEW n, n = IdLibre,
         segmentos' = Append(segmentos, [id |-> n, tabla |-> t])
  PROVE  /\ TablaDelSegmento(n)' = t
         /\ \A s \in EnUso : TablaDelSegmento(s)' = TablaDelSegmento(s)
<1> DEFINE x == [id |-> n, tabla |-> t]
           k == Len(segmentos)
<1>1. x.id = n /\ x.tabla = t
  OBVIOUS
<1>2. segmentos' = Append(segmentos, x) /\ IdsUnicos'
  BY SegmentoUnico
<1> HIDE DEF x
<1>3. /\ DOMAIN segmentos = 1..k /\ DOMAIN segmentos' = 1..(k + 1) /\ k \in Nat
      /\ \A i \in 1..k : segmentos'[i] = segmentos[i]
      /\ segmentos'[k + 1] = x
  BY <1>2 DEF Tipos, CacheTipada
<1> HIDE DEF k
<1>4. ASSUME NEW s, NEW i \in 1..(k + 1), segmentos'[i].id = s
      PROVE  TablaDelSegmento(s)' = segmentos'[i].tabla
  <2> DEFINE j == CHOOSE a \in 1..(k + 1) : segmentos'[a].id = s
  <2>1. j \in 1..(k + 1) /\ segmentos'[j].id = s
    BY <1>4
  <2>2. TablaDelSegmento(s)' = segmentos'[j].tabla
    BY <1>3 DEF TablaDelSegmento
  <2> HIDE DEF j
  <2>3. j = i
    BY <1>2, <1>3, <1>4, <2>1 DEF IdsUnicos
  <2> QED BY <2>2, <2>3
<1>5. TablaDelSegmento(n)' = t
  <2>1. k + 1 \in 1..(k + 1) /\ segmentos'[k + 1].id = n /\ segmentos'[k + 1].tabla = t
    BY <1>1, <1>3
  <2> QED BY <1>4, <2>1
<1>6. ASSUME NEW s \in EnUso PROVE TablaDelSegmento(s)' = TablaDelSegmento(s)
  <2> DEFINE j == CHOOSE a \in DOMAIN segmentos : segmentos[a].id = s
  <2>1. j \in DOMAIN segmentos /\ segmentos[j].id = s
    BY DEF EnUso
  <2>2. TablaDelSegmento(s) = segmentos[j].tabla
    BY DEF TablaDelSegmento
  <2> HIDE DEF j
  <2>3. j \in 1..(k + 1) /\ segmentos'[j] = segmentos[j]
    BY <1>3, <2>1
  <2> QED BY <1>4, <2>1, <2>2, <2>3
<1> QED BY <1>5, <1>6

\* CREATE: a segment without pages.
LEMMA CrearSanos ==
  ASSUME Tipos, UnoInv, Sanos, NEW h \in Hilos, NadieMas(h),
         BuscarAntesDeCrear(h) \/ CrearSegmento(h)
  PROVE  Sanos'
<1> DEFINE e == est[h]
<1>1. /\ EstadoTipado(e) /\ Sabe(e) /\ Trae(e) /\ CacheTipada /\ HorasInv /\ CacheInv
      /\ e.ts \in Horas /\ e.ts <= hora /\ e.tabla \in Tablas
  BY HorasTipadas DEF Tipos, HilosTipados, UnoInv, Sanos, HorasInv, EstadoTipado, EstadosDeHilo
<1>2. /\ UNCHANGED <<paginas, marcos, enLFS, vigente>> /\ hora' = hora
      /\ e.pc \in {"crea", "creaSegmento"} /\ e.op # "SELECT"
  BY <1>1 DEF BuscarAntesDeCrear, CrearSegmento, cache, fs, historia, Trae
<1>3. {"creaSegmento"} \subseteq Pcs /\ {"SUCCESS"} \subseteq Codigos
  BY DEF Pcs, Codigos
<1>4. /\ est'[h].pc \in {"creaSegmento", "responde"} /\ est'[h].op = e.op /\ est'[h].ts = e.ts
      /\ \A x \in Hilos \ {h} : est'[x] = est[x]
  <2>1. Sigue(h, "creaSegmento", e) \/ Responde(h, "SUCCESS", e)
    BY DEF BuscarAntesDeCrear, CrearSegmento
  <2> QED BY <1>1, <1>3, <2>1, SigueTodo, RespondeTodo
<1>5. Trae(est[h])' /\ Entrega(h)'
  BY <1>2, <1>4 DEF Trae, Entrega
<1>6. CASE BuscarAntesDeCrear(h)
  <2>1. UNCHANGED <<cache, enLFS, vigente>>
    BY <1>2, <1>6 DEF BuscarAntesDeCrear
  <2> QED BY <1>1, <1>2, <1>4, <1>5, <2>1, PasoSinDatos
<1>7. CASE CrearSegmento(h)
  <2>1. PICK n : n = IdLibre
    OBVIOUS
  <2>2. /\ segmentos' = Append(segmentos, [id |-> n, tabla |-> e.tabla])
        /\ Segmento(e.tabla) = 0
    BY <1>1, <1>7, <2>1 DEF CrearSegmento, Sabe
  <2>3. \A s \in EnUso : TablaDelSegmento(s)' = TablaDelSegmento(s)
    BY <1>1, <2>1, <2>2, TablaAgregada
  <2>4. \A q \in paginas : TablaDelSegmento(q.seg)' = TablaDelSegmento(q.seg)
    BY <1>1, <2>3 DEF CacheTipada
  <2>5. \A q \in paginas : /\ TablaDe(q)' = TablaDe(q) /\ ClaveDe(q)' = ClaveDe(q)
                           /\ Dato(q)' = Dato(q) /\ Vigente(q)' = Vigente(q)
    BY <1>2, <2>4 DEF TablaDe, ClaveDe, Dato, Vigente
  <2>6. \A t, k : EnCache(t, k)' = EnCache(t, k)
    BY <1>2, <2>4 DEF EnCache
  <2>7. CacheInv'
    BY <1>1, <1>2, <2>5, <2>6 DEF CacheInv
  <2>8. \A m \in Marcos : marcos'[m].timestamp <= hora'
    BY <1>1, <1>2 DEF HorasInv
  <2> QED BY <1>2, <1>4, <1>5, <2>7, <2>8, PasoDeDatos
<1> QED BY <1>6, <1>7

\* A page is stored, in a segment of the table of the request.
LEMMA EscribeSanos ==
  ASSUME Tipos, UnoInv, Sanos, NEW h \in Hilos, NadieMas(h), est[h].pc = "guarda",
         NEW s \in Nat \ {0}, Escribe(h, s, est[h]), TablaDelSegmento(s)' = est[h].tabla,
         \A q \in paginas : TablaDelSegmento(q.seg)' = TablaDelSegmento(q.seg)
  PROVE  Sanos'
<1> DEFINE e == est[h]
           m == e.marco
           c == Contenido(e)
<1>1. /\ EstadoTipado(e) /\ Sabe(e) /\ Trae(e) /\ CacheTipada /\ HorasInv /\ CacheInv
      /\ e.ts \in Horas /\ e.ts <= hora /\ hora \in Nat
      /\ e.tabla \in Tablas /\ e.key \in Claves /\ m \in Marcos
  BY HorasTipadas DEF Tipos, HilosTipados, UnoInv, Sanos, HorasInv, EstadoTipado, EstadosDeHilo
<1>2. PICK r : r = Pagina(s, e, e.op = "INSERT")
  OBVIOUS
<1>3. /\ r.seg = s /\ r.marco = m /\ r.modificado = (e.op = "INSERT")
      /\ paginas' = paginas \cup {r}
  BY <1>2 DEF Pagina, Escribe
<1>4. /\ marcos' = [marcos EXCEPT ![m] = c] /\ Reconoce(e) /\ Responde(h, "SUCCESS", e)
      /\ enLFS' = enLFS
      /\ hora' = IF e.victima # 0 THEN hora + 1 ELSE hora
  BY DEF Escribe, fs, Avanza
<1>5. c.key = e.key /\ c.valor = e.valor
      /\ c.timestamp = IF e.victima # 0 THEN hora + 1 ELSE e.ts
  BY DEF Contenido
<1> HIDE DEF c
<1>6. marcos'[m] = c /\ \A n \in Marcos \ {m} : marcos'[n] = marcos[n]
  BY <1>1, <1>4 DEF CacheTipada
<1>7. /\ e.op \in {"SELECT", "INSERT"}
      /\ e.op = "SELECT" => e.valor = vigente[e.tabla][e.key]
      /\ enLFS[e.tabla].datos[e.key].ts <= e.ts
  BY <1>1 DEF Trae
<1>8. /\ vigente'[e.tabla][e.key] = e.valor
      /\ \A t \in Tablas, k \in Claves :
           ~(t = e.tabla /\ k = e.key) => vigente'[t][k] = vigente[t][k]
  <2>1. CASE e.op = "INSERT"
    <3>1. vigente' = [vigente EXCEPT ![e.tabla][e.key] = e.valor]
      BY <1>4, <2>1 DEF Reconoce
    <3>2. e.tabla \in Tablas /\ e.key \in Claves
      BY <1>1
    <3>3. vigente \in [Tablas -> [Claves -> Valores]]
      BY DEF Tipos, RestoTipado
    <3> HIDE DEF e
    <3> QED BY <3>1, <3>2, <3>3
  <2>2. CASE e.op = "SELECT"
    <3>1. vigente' = vigente
      BY <1>4, <2>2 DEF Reconoce
    <3> QED BY <1>7, <2>2, <3>1
  <2> QED BY <1>7, <2>1, <2>2
\* The key has no page, and the frame is not that of another.
<1>9. EnCache(e.tabla, e.key) = {}
  <2>1. SinPagina(e)
    BY <1>1 DEF Sabe, LeFaltaPagina
  <2> QED BY <2>1, LaEncontrada DEF SinPagina
<1>10. \A p \in paginas : p.marco # m /\ p.marco \in Marcos
  <2>1. \A p \in paginas : p.marco \in Marcos
    BY <1>1 DEF CacheTipada, TipoDePagina
  <2>2. CASE e.victima = 0
    <3>1. bits = {p.marco : p \in paginas} \cup EnManoDe(e) /\ m \notin bits
      BY <1>1, <2>2, MarcosDeUno DEF Sabe
    <3> QED BY <2>1, <3>1
  <2>3. CASE e.victima # 0
    BY <1>1, <2>1, <2>3 DEF Sabe, PaginasDelMarco
  <2> QED BY <2>2, <2>3
<1>11. /\ est'[h].pc = "responde" /\ est'[h].op = e.op /\ est'[h].ts = e.ts
       /\ est'[h].cod = "SUCCESS" /\ est'[h].valor = e.valor
       /\ est'[h].tabla = e.tabla /\ est'[h].key = e.key
       /\ \A x \in Hilos \ {h} : est'[x] = est[x]
  BY <1>1, <1>4, RespondeTodo DEF Codigos
<1>12. Trae(est[h])' /\ Entrega(h)'
  BY <1>7, <1>8, <1>11 DEF Trae, Entrega
<1>13. hora' \in {hora, hora + 1} /\ c.timestamp <= hora' /\ c.timestamp \in Int
       /\ enLFS[e.tabla].datos[e.key].ts <= c.timestamp
  <2>1. enLFS[e.tabla].datos[e.key].ts \in Int /\ e.ts \in Int
    BY <1>1, HorasTipadas
  <2> QED BY <1>1, <1>4, <1>5, <1>7, <2>1
<1>14. \A n \in Marcos : marcos'[n].timestamp <= hora'
  BY <1>1, <1>6, <1>13, HorasTipadas DEF HorasInv
<1>15. /\ TablaDe(r)' = e.tabla /\ ClaveDe(r)' = e.key /\ r \in paginas'
       /\ Vigente(r)' = e.valor /\ marcos'[r.marco] = c
       /\ Dato(r)' = enLFS[e.tabla].datos[e.key]
  <2>1. TablaDe(r)' = e.tabla /\ ClaveDe(r)' = e.key /\ r \in paginas' /\ marcos'[r.marco] = c
    BY <1>3, <1>5, <1>6 DEF TablaDe, ClaveDe
  <2>2. Vigente(r)' = e.valor /\ Dato(r)' = enLFS[e.tabla].datos[e.key]
    BY <1>4, <1>8, <2>1 DEF Vigente, Dato
  <2> QED BY <2>1, <2>2
<1>16. ~r.modificado => Dato(r)'.valor = e.valor
  BY <1>1, <1>3, <1>7, <1>9, <1>15 DEF CacheInv
<1>17. ASSUME NEW q \in paginas
       PROVE  /\ q \in paginas' /\ TablaDe(q)' = TablaDe(q) /\ ClaveDe(q)' = ClaveDe(q)
              /\ Vigente(q)' = Vigente(q) /\ Dato(q)' = Dato(q)
              /\ marcos'[q.marco] = marcos[q.marco]
  <2>1. marcos'[q.marco] = marcos[q.marco]
    BY <1>6, <1>10
  <2>2. TablaDe(q)' = TablaDe(q) /\ ClaveDe(q)' = ClaveDe(q)
    BY <2>1 DEF TablaDe, ClaveDe
  <2>3. ~(TablaDe(q) = e.tabla /\ ClaveDe(q) = e.key)
    BY <1>9 DEF EnCache, TablaDe, ClaveDe
  <2>4. TablaDe(q) \in Tablas /\ ClaveDe(q) \in Claves
    BY <1>1, PaginaEnLFS DEF TablaDe, ClaveDe
  <2>5. Vigente(q)' = Vigente(q) /\ Dato(q)' = Dato(q)
    BY <1>4, <1>8, <2>2, <2>3, <2>4 DEF Vigente, Dato
  <2> QED BY <1>3, <2>1, <2>2, <2>5
<1>18. CacheInv'
  <2>1. \A q \in paginas : /\ marcos[q.marco].valor = Vigente(q)
                           /\ Dato(q).ts <= marcos[q.marco].timestamp
                           /\ ~q.modificado => Dato(q).valor = Vigente(q)
    BY <1>1 DEF CacheInv
  <2>2. \A q \in paginas' : /\ marcos'[q.marco].valor = Vigente(q)'
                            /\ Dato(q)'.ts <= marcos'[q.marco].timestamp
                            /\ ~q.modificado => Dato(q)'.valor = Vigente(q)'
    <3> TAKE q \in paginas'
    <3>1. CASE q = r
      BY <1>5, <1>13, <1>15, <1>16, <3>1
    <3>2. CASE q # r
      <4>1. q \in paginas
        BY <1>3, <3>2
      <4> QED BY <1>17, <2>1, <4>1
    <3> QED BY <3>1, <3>2
  <2>3. ASSUME NEW t \in Tablas, NEW k \in Claves, EnCache(t, k)' = {}
        PROVE  enLFS'[t].datos[k].valor = vigente'[t][k]
    <3>1. ~(t = e.tabla /\ k = e.key)
      BY <1>15, <2>3 DEF EnCache, TablaDe, ClaveDe
    <3>2. EnCache(t, k) = {}
      BY <1>17, <2>3 DEF EnCache, TablaDe, ClaveDe
    <3> QED BY <1>1, <1>4, <1>8, <3>1, <3>2 DEF CacheInv
  <2>4. \A t \in Tablas, k \in Claves :
          EnCache(t, k)' = {} => enLFS'[t].datos[k].valor = vigente'[t][k]
    BY <2>3
  <2> QED BY <2>2, <2>4 DEF CacheInv
<1>19. enLFS' = enLFS /\ est'[h].ts = est[h].ts
  BY <1>4, <1>11
<1> QED BY <1>11, <1>12, <1>13, <1>14, <1>18, <1>19, PasoDeDatos

LEMMA GuardarPaginaSanos ==
  ASSUME Tipos, UnoInv, Sanos, NEW h \in Hilos, NadieMas(h), GuardarPagina(h), ~pisada'
  PROVE  Sanos'
<1> DEFINE e == est[h]
<1>1. EstadoTipado(e) /\ Sabe(e) /\ CacheTipada /\ e.pc = "guarda" /\ e.tabla \in Tablas
  BY DEF Tipos, HilosTipados, UnoInv, GuardarPagina, GuardarEnSegmento, GuardarSinSegmento,
         GuardarEnNuevo, GuardarVictimaIntacta, EstadoTipado, EstadosDeHilo
<1>2. SinPagina(e) /\ e.seg = Segmento(e.tabla) /\ \A q \in paginas : q.seg \in EnUso
  BY <1>1 DEF Sabe, LeFaltaPagina, SinPagina, CacheTipada
<1>3. CASE GuardarEnSegmento(h)
  <2>1. PICK s : s = Segmento(e.tabla)
    OBVIOUS
  <2>2. Escribe(h, s, e) /\ UNCHANGED segmentos /\ s # 0
    BY <1>3, <2>1 DEF GuardarEnSegmento
  <2>3. s \in Nat \ {0} /\ s \in EnUso
    BY <1>1, <2>1, <2>2, SegmentoTipado
  <2>4. TablaDelSegmento(s)' = e.tabla
    BY <2>1, <2>2, <2>3, SegmentoDe, TablasQuietas
  <2>5. \A q \in paginas : TablaDelSegmento(q.seg)' = TablaDelSegmento(q.seg)
    BY <2>2, TablasQuietas
  <2> QED BY <1>1, <2>2, <2>3, <2>4, <2>5, EscribeSanos
<1>4. CASE GuardarEnNuevo(h)
  <2>1. PICK s : s = IdLibre
    OBVIOUS
  <2>2. /\ Escribe(h, s, e) /\ Segmento(e.tabla) = 0
        /\ segmentos' = Append(segmentos, [id |-> s, tabla |-> e.tabla])
    BY <1>2, <1>4, <2>1 DEF GuardarEnNuevo
  <2>3. s \in Nat \ {0}
    BY <2>1, TiposEsTypeOK, SegmentoNuevo
  <2>4. /\ TablaDelSegmento(s)' = e.tabla
        /\ \A n \in EnUso : TablaDelSegmento(n)' = TablaDelSegmento(n)
    BY <1>1, <2>1, <2>2, TablaAgregada
  <2>5. \A q \in paginas : TablaDelSegmento(q.seg)' = TablaDelSegmento(q.seg)
    BY <1>2, <2>4
  <2> QED BY <1>1, <2>2, <2>3, <2>4, <2>5, EscribeSanos
<1>5. ~GuardarSinSegmento(h)
  BY <1>2 DEF GuardarSinSegmento
<1>6. ~GuardarVictimaIntacta(h)
  BY DEF GuardarVictimaIntacta
<1> QED BY <1>3, <1>4, <1>5, <1>6 DEF GuardarPagina

------------------------------------------------------------------------------
(* A single client: the values, of requests that start and of the rest.    *)

\* A thread that is not served yet moves, whoever is.
LEMMA EsperaSano ==
  ASSUME Sanos, NEW h \in Hilos, UNCHANGED <<cache, deLFS, enLFS, vigente, hora>>,
         \A x \in Hilos \ {h} : est'[x] = est[x],
         est'[h].ts <= hora, Trae(est[h])', Entrega(h)'
  PROVE  Sanos'
<1>1. HorasInv'
  BY DEF Sanos, HorasInv, cache
<1>2. CacheInv'
  BY CacheInvIgual DEF Sanos
<1>3. \A p : Dato(p)' = Dato(p) /\ Vigente(p)' = Vigente(p)
  BY LlegoIgual DEF TablaDe, ClaveDe, Dato, Vigente, cache
<1>4. \A m : PaginasDelMarco(m)' = PaginasDelMarco(m)
  BY CacheQuieta
<1>5. ASSUME NEW x \in Hilos \ {h} PROVE Trae(est[x])' /\ Entrega(x)'
  <2>1. Trae(est'[x]) /\ Entrega(x) /\ est'[x] = est[x]
    BY DEF Sanos
  <2>2. Trae(est[x])'
    BY <1>4, <2>1 DEF Trae
  <2>3. \A p : LaEnvia(x, p)' = LaEnvia(x, p)
    BY <2>1, LlegoIgual DEF LaEnvia, cache
  <2>4. Entrega(x)'
    BY <1>3, <2>1, <2>3 DEF Entrega
  <2> QED BY <2>2, <2>4
<1> QED BY <1>1, <1>2, <1>5 DEF Sanos

LEMMA EmpezarSano ==
  ASSUME Tipos, Sanos, NEW h \in Hilos,
         \/ \E op \in Operaciones, t \in Tablas, k \in Claves : Recibir(h, op, t, k)
         \/ h = "journal" /\ EmpezarJournal
  PROVE  Sanos'
<1>1. Ocioso.ts = 0 /\ EstadoTipado(Ocioso) /\ Ocioso.i = 1 /\ "toma" \in Pcs
  BY ElOcioso DEF Ocioso, Pcs
<1>2. est'[h].pc = "toma" /\ est'[h].ts = 0
  <2>1. CASE \E op \in Operaciones, t \in Tablas, k \in Claves : Recibir(h, op, t, k)
    <3>1. PICK op \in Operaciones, t \in Tablas, k \in Claves : Recibir(h, op, t, k)
      BY <2>1
    <3>2. PICK ec \in BOOLEAN :
            Sigue(h, "toma", [Ocioso EXCEPT !.op = op, !.tabla = t, !.key = k, !.ec = ec,
                                            !.valor = pedidos + 1])
      BY <3>1 DEF Recibir
    <3> DEFINE e == [Ocioso EXCEPT !.op = op, !.tabla = t, !.key = k, !.ec = ec,
                                   !.valor = pedidos + 1]
    <3>3. pedidos + 1 \in Valores /\ op \in Operacion
      BY CotasAssumption DEF Tipos, RestoTipado, Valores, Operacion
    <3>4. EstadoTipado(e)
      BY <1>1, <3>3, PedidoTipado
    <3>5. e.ts = 0
      BY DEF Ocioso
    <3>6. Sigue(h, "toma", e)
      BY <3>2
    <3> HIDE DEF e
    <3> QED BY <1>1, <3>4, <3>5, <3>6, SigueTodo
  <2>2. CASE h = "journal" /\ EmpezarJournal
    <3> DEFINE e == [Ocioso EXCEPT !.op = "JOURNAL"]
    <3>1. EstadoTipado(e) /\ e.ts = 0
      BY <1>1 DEF EstadoTipado, EstadosDeHilo, Operacion, Ocioso
    <3>2. Sigue(h, "toma", e)
      BY <2>2 DEF EmpezarJournal
    <3> HIDE DEF e
    <3> QED BY <1>1, <3>1, <3>2, SigueTodo
  <2> QED BY <2>1, <2>2
<1>3. /\ UNCHANGED <<cache, deLFS, enLFS, vigente, hora>>
      /\ \A x \in Hilos \ {h} : est'[x] = est[x]
  BY EmpezarSigue DEF Recibir, EmpezarJournal, fs, historia
<1>4. Trae(est[h])' /\ Entrega(h)'
  BY <1>2 DEF Trae, Entrega
<1>5. est'[h].ts <= hora
  BY <1>2, HorasTipadas
<1> QED BY <1>3, <1>4, <1>5, EsperaSano

LEMMA TomarSano ==
  ASSUME Tipos, JournalInv, Sanos, NEW h \in Hilos, Tomar(h)
  PROVE  Sanos'
<1> DEFINE e == est[h]
<1>1. /\ EstadoTipado(e) /\ e.pc = "toma" /\ e.ts <= hora
      /\ UNCHANGED <<cache, deLFS, enLFS, vigente, hora>>
  BY DEF Tipos, HilosTipados, Tomar, Sanos, HorasInv, fs, historia
<1>2. PICK i \in 1..3, pc \in {"toma", Primero(e.op)} : Sigue(h, pc, [e EXCEPT !.i = i])
  <2>1. CASE e.i = Len(MutexDe(h))
    BY <2>1 DEF Tomar
  <2>2. CASE e.i # Len(MutexDe(h))
    <3>1. e.i + 1 \in 1..3
      <4>1. e.i # (IF e.op = "JOURNAL" THEN 3 ELSE 1)
        BY <2>2, CuantosMutex
      <4>2. e.i \in 1..3 /\ (e.op # "JOURNAL" => e.i = 1)
        BY <1>1 DEF EstadoTipado, EstadosDeHilo
      <4> QED BY <4>1, <4>2
    <3>2. Sigue(h, "toma", [e EXCEPT !.i = e.i + 1])
      BY <2>2 DEF Tomar
    <3> QED BY <3>1, <3>2
  <2> QED BY <2>1, <2>2
<1> DEFINE f == [e EXCEPT !.i = i]
<1>3. pc \in Pcs
  BY <1>2 DEF Primero, Pcs
<1>4. /\ pc = "busca" => e.op \in {"SELECT", "INSERT"}
      /\ pc = "envia" => e.op \notin {"SELECT", "INSERT", "JOURNAL"}
      /\ pc = "recorre" => e.op = "JOURNAL"
      /\ pc \in {"toma", "busca", "envia", "recorre"}
  BY <1>2 DEF Primero
<1>5. Sigue(h, pc, f)
  BY <1>2
<1> HIDE DEF f
<1>6. /\ est'[h].pc = pc /\ est'[h].op = e.op /\ est'[h].ts = e.ts
      /\ est'[h].visitadas = e.visitadas
      /\ \A x \in Hilos \ {h} : est'[x] = est[x]
  <2>1. est' = [est EXCEPT ![h] = [f EXCEPT !.pc = pc]]
    BY <1>5 DEF Sigue
  <2>2. [f EXCEPT !.pc = pc] = [e EXCEPT !.i = i, !.pc = pc]
    BY <1>1 DEF f, EstadoTipado, EstadosDeHilo
  <2>3. est'[h] = [e EXCEPT !.i = i, !.pc = pc] /\ \A x \in Hilos \ {h} : est'[x] = est[x]
    BY <2>1, <2>2 DEF Tipos, HilosTipados
  <2> QED BY <1>1, <2>3 DEF EstadoTipado, EstadosDeHilo
<1>7. e.op = "JOURNAL" => e.visitadas = {}
  BY <1>1 DEF JournalInv, JournalDeHilo
<1>8. Trae(est[h])' /\ Entrega(h)'
  BY <1>4, <1>6, <1>7 DEF Trae, Entrega
<1> QED BY <1>1, <1>6, <1>8, EsperaSano

\* What the file system is sent takes no table away.
LEMMA TablasQuedan ==
  ASSUME Tipos, SinPerdidas, \A t \in Tablas : enLFS[t].existe, NEW h \in Hilos,
         NEW fd, LlegaALFS(h, fd, Mensaje(est[h]))
  PROVE  \A t \in Tablas : enLFS'[t].existe
<1>1. PICK m : m = Mensaje(est[h])
  OBVIOUS
<1>2. m \in Mensajes /\ m.op # "DROP" /\ enLFS' = LFSDespuesDe(m)
  <2>1. EstadoTipado(est[h]) /\ est[h].op \in Operacion
    BY DEF Tipos, HilosTipados, EstadoTipado, EstadosDeHilo
  <2>2. m \in Mensajes /\ m.op \in {est[h].op, "INSERT"}
    BY <1>1, <2>1, MensajeTipado DEF Mensaje
  <2> QED BY <1>1, <2>1, <2>2 DEF LlegaALFS, SinPerdidas, Operacion
<1>3. /\ m.tabla \in Tablas /\ m.key \in Claves /\ enLFS[m.tabla].existe
      /\ enLFS \in [Tablas -> DatosDeTabla] /\ enLFS[m.tabla] \in DatosDeTabla
  BY <1>2, DatoTipado DEF Tipos, FSTipado
<1>4. m.op = "CREATE" => enLFS' = enLFS
  BY <1>2, <1>3 DEF LFSDespuesDe, CodigoDeLFS
<1>5. CASE enLFS' = [enLFS EXCEPT ![m.tabla].datos[m.key] = [valor |-> m.valor, ts |-> m.ts]]
  <2> DEFINE d == [enLFS[m.tabla] EXCEPT !.datos[m.key] = [valor |-> m.valor, ts |-> m.ts]]
  <2>1. d.existe = enLFS[m.tabla].existe
    BY <1>3 DEF DatosDeTabla
  <2>2. enLFS' = [enLFS EXCEPT ![m.tabla] = d]
    BY <1>3, <1>5
  <2> HIDE DEF d
  <2> QED BY <1>3, <2>1, <2>2
<1>6. \/ enLFS' = enLFS
      \/ enLFS' = [enLFS EXCEPT ![m.tabla].datos[m.key] = [valor |-> m.valor, ts |-> m.ts]]
  BY <1>2, <1>4 DEF LFSDespuesDe
<1> QED BY <1>5, <1>6

\* Whatever is done, the tables stay, and a page that was taken was taken.
LEMMA NextTablas ==
  ASSUME Tipos, SinPerdidas, \A t \in Tablas : enLFS[t].existe, [Next]_vars
  PROVE  /\ \A t \in Tablas : enLFS'[t].existe
         /\ ~pisada' => ~pisada
<1>1. ASSUME NEW h \in Hilos, Avanzar(h)
      PROVE  /\ \A t \in Tablas : enLFS'[t].existe
             /\ ~pisada' => ~pisada
  <2>1. Intercambiar(h) => (~pisada' => ~pisada)
    BY DEF Intercambiar, Enviar, EnviarReconectando, EnviarEnVano, FallarEnvio, RecibirDeLFS,
           RecibirCaida, historia
  <2>2. Intercambiar(h) => \A t \in Tablas : enLFS'[t].existe
    <3>1. Enviar(h) \/ EnviarReconectando(h) => \A t \in Tablas : enLFS'[t].existe
      BY TablasQuedan DEF Enviar, EnviarReconectando
    <3>2. EnviarEnVano(h) \/ FallarEnvio(h) \/ RecibirDeLFS(h) \/ RecibirCaida(h) => enLFS' = enLFS
      BY DEF EnviarEnVano, FallarEnvio, RecibirDeLFS, RecibirCaida, fs
    <3> QED BY <3>1, <3>2 DEF Intercambiar
  <2>3. RechazarValor(h) \/ Responder(h) \/ Soltar(h) => enLFS' = enLFS /\ pisada' = pisada
    BY DEF RechazarValor, Responder, Soltar, fs, historia
  <2>4. Buscar(h) => enLFS' = enLFS /\ pisada' = pisada
    BY DEF Buscar, BuscarSegmento, SegmentoLiberado, FaltaPagina, LeerPagina, ActualizarPagina,
           Invalido, fs, historia
  <2>5. ConseguirMarco(h) => enLFS' = enLFS /\ pisada' = pisada
    BY DEF ConseguirMarco, PedirMarco, ElegirVictima, MemoriaFull, Desvincular, VictimaLiberada,
           Invalido, fs, historia
  <2>6. GuardarPagina(h) => enLFS' = enLFS /\ (~pisada' => ~pisada)
    <3>1. \A s : Escribe(h, s, est[h]) => enLFS' = enLFS /\ pisada' = pisada
      BY DEF Escribe, fs
    <3>2. GuardarEnSegmento(h) \/ GuardarEnNuevo(h) => enLFS' = enLFS /\ pisada' = pisada
      BY <3>1 DEF GuardarEnSegmento, GuardarEnNuevo
    <3>3. GuardarSinSegmento(h) => enLFS' = enLFS /\ pisada' = pisada
      BY DEF GuardarSinSegmento, Invalido, fs, historia
    <3>4. GuardarVictimaIntacta(h) => enLFS' = enLFS /\ pisada'
      BY DEF GuardarVictimaIntacta, fs
    <3> QED BY <3>2, <3>3, <3>4 DEF GuardarPagina
  <2>7. CrearYEliminar(h) \/ Journal(h) => enLFS' = enLFS /\ pisada' = pisada
    BY DEF CrearYEliminar, BuscarAntesDeCrear, CrearSegmento, EliminarSegmento, Journal,
           TomarPagina, Limpiar, fs, historia
  <2> QED BY <1>1, <2>1, <2>2, <2>3, <2>4, <2>5, <2>6, <2>7 DEF Avanzar
<1>2. ASSUME NEW h \in Hilos,
             \/ \E op \in Operaciones, t \in Tablas, k \in Claves : Recibir(h, op, t, k)
             \/ h = "journal" /\ EmpezarJournal
             \/ Tomar(h)
      PROVE  enLFS' = enLFS /\ pisada' = pisada
  BY <1>2 DEF Recibir, EmpezarJournal, Tomar, fs, historia
<1>3. CaerLFS \/ LevantarLFS \/ UNCHANGED vars => enLFS' = enLFS /\ pisada' = pisada
  BY DEF CaerLFS, LevantarLFS, vars, fs, historia
<1>4. ASSUME NEW h \in Hilos, PartirRespuesta(h) \/ RecibirPartida(h)
      PROVE  enLFS' = enLFS /\ pisada' = pisada
  BY <1>4, PartirDeja DEF Tipos, historia
<1> QED BY <1>1, <1>2, <1>3, <1>4, PasosDeNext

LEMMA InitValores == SinPerdidas /\ Init => ValoresInv
<1> SUFFICES ASSUME SinPerdidas, Init PROVE ValoresInv
  OBVIOUS
<1>1. /\ est = [h \in Hilos |-> Ocioso] /\ paginas = {} /\ hora = 0
      /\ marcos = [m \in Marcos |-> [key |-> UnaClave, valor |-> SIN_VALOR, timestamp |-> 0]]
      /\ enLFS = [t \in Tablas |-> InicioDeLFS(t)]
      /\ vigente = [t \in Tablas |-> [k \in Claves |-> enLFS[t].datos[k].valor]]
  BY DEF Init, CacheVacia, NadieSirve
<1>2. \A t \in Tablas : enLFS[t].existe /\ \A k \in Claves : enLFS[t].datos[k].ts \in {0, -1}
  BY <1>1 DEF InicioDeLFS, Vacia, Inexistente, SinPerdidas
<1>3. Ocioso.pc = "ocioso" /\ Ocioso.ts = 0 /\ Ocioso.op = "SELECT"
  BY DEF Ocioso
<1>4. HorasInv
  <2>1. \A t \in Tablas, k \in Claves : enLFS[t].datos[k].ts <= 0
    BY <1>2
  <2> QED BY <1>1, <1>3, <2>1 DEF HorasInv
<1>5. CacheInv
  BY <1>1 DEF CacheInv
<1>6. \A h \in Hilos : Trae(est[h]) /\ Entrega(h)
  BY <1>1, <1>3 DEF Trae, Entrega
<1> QED BY <1>2, <1>4, <1>5, <1>6 DEF ValoresInv

LEMMA NextValores ==
  ASSUME UnCliente, SinPerdidas, Tipos, MutexInv, JournalInv, UnoInv, ValoresInv, [Next]_vars
  PROVE  ValoresInv'
<1>1. \A t \in Tablas : enLFS[t].existe
  BY DEF ValoresInv
<1>2. (\A t \in Tablas : enLFS'[t].existe) /\ (~pisada' => ~pisada)
  BY <1>1, NextTablas
<1>3. ASSUME ~pisada' PROVE Sanos'
  <2>1. Sanos
    BY <1>2, <1>3 DEF ValoresInv, Sanos
  <2>2. ASSUME NEW h \in Hilos, Avanzar(h) PROVE Sanos'
    <3>1. Sirviendo(h) /\ est[h].pc # "elimina"
      BY <2>1, <2>2, AvanzarProsigue DEF Sanos, Trae
    <3>2. NadieMas(h)
      BY <3>1, UnoSirve DEF NadieMas, UnoInv
    <3>3. CASE Buscar(h)
      <4>1. SegmentoLiberado(h) => Sanos'
        BY <2>1, InvalidoSanos DEF SegmentoLiberado, Invalido, historia
      <4> QED BY <2>1, <3>2, <3>3, <4>1, BuscarSanos, LeerSanos, ActualizarSanos DEF Buscar
    <3>4. CASE ConseguirMarco(h)
      <4>1. VictimaLiberada(h) => Sanos'
        BY <2>1, InvalidoSanos DEF VictimaLiberada, Invalido, historia
      <4> QED BY <2>1, <3>2, <3>4, <4>1, PedirMarcoSanos, ElegirVictimaSanos, MemoriaFullSanos,
                 DesvincularSanos DEF ConseguirMarco
    <3>5. CASE CrearYEliminar(h)
      <4>1. ~EliminarSegmento(h)
        BY <3>1 DEF EliminarSegmento
      <4> QED BY <2>1, <3>2, <3>5, <4>1, CrearSanos DEF CrearYEliminar
    <3>6. CASE Journal(h)
      BY <2>1, <3>2, <3>6, TomarPaginaSanos, LimpiarSanos DEF Journal
    <3>7. CASE GuardarPagina(h)
      BY <1>3, <2>1, <3>2, <3>7, GuardarPaginaSanos
    <3>8. CASE Intercambiar(h)
      BY <1>1, <2>1, <3>2, <3>8, IntercambiarSanos
    <3>9. CASE RechazarValor(h) \/ Responder(h) \/ Soltar(h)
      BY <2>1, <3>2, <3>9, RequestSanos
    <3> QED BY <2>2, <3>3, <3>4, <3>5, <3>6, <3>7, <3>8, <3>9 DEF Avanzar
  <2>3. ~CaerLFS /\ ~LevantarLFS
    <3>1. caidas = 0 /\ MaxCaidas = 0
      BY DEF SinPerdidas, Tipos, RestoTipado
    <3>2. lfs
      BY <3>1 DEF JournalInv
    <3> QED BY <3>1, <3>2 DEF CaerLFS, LevantarLFS
  <2>4. UNCHANGED vars => Sanos'
    BY <2>1, InvalidoSanos DEF vars, historia
  <2>5. ASSUME NEW h \in Hilos, PartirRespuesta(h) \/ RecibirPartida(h) PROVE Sanos'
    <3>1. RecibirPartida(h)
      BY <2>5, UnoNoParte
    <3> QED BY <2>1, <3>1, InvalidoSanos DEF RecibirPartida, Invalido, historia
  <2> QED BY <2>1, <2>2, <2>3, <2>4, <2>5, PasosDeNext, EmpezarSano, TomarSano
<1> QED BY <1>2, <1>3 DEF ValoresInv, Sanos

\* Everything that is known of the values, with one client and no losses.
LEMMA ValoresSiempre ==
  ASSUME UnCliente, SinPerdidas
  PROVE  Spec => [](Tipos /\ UnoInv /\ ValoresInv)
<1> DEFINE Inv == Tipos /\ MutexInv /\ JournalInv /\ UnoInv /\ ValoresInv
<1>1. Init => Inv
  BY InitTipos, InitMutexInv, InitJournalInv, InitUno, InitValores
<1>2. Inv /\ [Next]_vars => Inv'
  BY NextTipos, NextMutexInv, NextJournalInv, NextUno, NextValores
<1>3. Inv => Tipos /\ UnoInv /\ ValoresInv
  OBVIOUS
<1> QED BY <1>1, <1>2, <1>3, PTL DEF Spec

\* With one client, tables that stay and a file system that does not fall: a
\* SELECT that succeeds answers with the last value that its key was given, be
\* it in the cache, evicted or journaled, until an INSERT takes the page of a
\* victim without writing it.
THEOREM ElSelectEsCorrecto == ASSUME UnCliente, SinPerdidas PROVE Spec => []LecturaCorrecta
<1>1. ASSUME ValoresInv PROVE LecturaCorrecta
  <2>1. ~pisada => \A h \in Hilos : Trae(est[h])
    BY <1>1 DEF ValoresInv
  <2>2. ASSUME ~pisada, NEW h \in Clientes, est[h].pc = "responde", est[h].op = "SELECT"
        PROVE  /\ est[h].cod = "SUCCESS" => est[h].valor = vigente[est[h].tabla][est[h].key]
               /\ est[h].cod = "KEY_NO_EXISTE" => vigente[est[h].tabla][est[h].key] = SIN_VALOR
    BY <2>1, <2>2 DEF Trae, Clientes
  <2> QED BY <2>2 DEF LecturaCorrecta
<1> QED BY <1>1, ValoresSiempre, PTL

\* With one client, tables that stay and a file system that does not fall: the
\* last value of each key is in a modified page or in the file system, so that
\* no replacement and no journal drops the only copy.
THEOREM NingunValorSePierde == ASSUME UnCliente, SinPerdidas PROVE Spec => []NadaSePierde
<1>1. ASSUME Tipos, UnoInv, ValoresInv PROVE NadaSePierde
  <2> SUFFICES ASSUME ~pisada, NEW t \in Tablas, NEW k \in Claves,
                      enLFS[t].datos[k].valor # vigente[t][k]
               PROVE  \E p \in EnCache(t, k) : p.modificado /\ marcos[p.marco].valor = vigente[t][k]
    BY DEF NadaSePierde
  <2>1. CacheInv
    BY <1>1 DEF ValoresInv
  <2>2. PICK p \in EnCache(t, k) : TRUE
    BY <2>1 DEF CacheInv
  <2>3. p \in paginas /\ TablaDe(p) = t /\ ClaveDe(p) = k
    BY <2>2 DEF EnCache, TablaDe, ClaveDe
  <2>4. marcos[p.marco].valor = vigente[t][k] /\ p.modificado
    BY <2>1, <2>3 DEF CacheInv, Dato, Vigente
  <2> QED BY <2>4
<1> QED BY <1>1, ValoresSiempre, PTL

==============================================================================
