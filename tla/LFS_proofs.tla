----------------------------- MODULE LFS_proofs -----------------------------
(***************************************************************************)
(* Theorems about module LFS, for every set of tables, clients and keys    *)
(* and every number of partitions, blocks and INSERTs: what its operators  *)
(* return (the blocks and files of a dump, the renaming of the             *)
(* temporaries, the merge of a compaction), the types, and that nobody     *)
(* reads files that are being rewritten.                                   *)
(***************************************************************************)
EXTENDS LFS, Secuencias_lemas

------------------------------------------------------------------------------
(* Files.                                                                  *)

\* obtenerBloqueDisponible gives blocks of the disk, as many as were asked or
\* fewer.
LEMMA BloquesDisponiblesSonBloques ==
  ASSUME NEW n \in Nat
  PROVE  /\ BloquesDisponibles(n) \subseteq Bloques
         /\ Cardinality(BloquesDisponibles(n)) \in Nat
<1>1. BloquesDisponibles(n) \subseteq Bloques
  BY DEF BloquesDisponibles, BloquesLibres
<1>2. IsFiniteSet(Bloques)
  BY BloquesAssumption, FS_Interval DEF Bloques
<1> QED BY <1>1, <1>2, FS_Subset, FS_CardinalityType

\* The file that is written holds a prefix of the records, all of them unless
\* blocks were missing.
LEMMA ArchivoEscritoEsArchivo ==
  ASSUME NEW rs \in Seq(Registro)
  PROVE  /\ ArchivoEscrito(rs) \in Archivo
         /\ Range(ArchivoEscrito(rs).registros) \subseteq Range(rs)
         /\ ~FaltanBloques(rs) => ArchivoEscrito(rs).registros = rs
<1> DEFINE n == Cardinality(BloquesDisponibles(Len(rs)))
<1>1. Len(rs) \in Nat
  OBVIOUS
<1>2. BloquesDisponibles(Len(rs)) \subseteq Bloques /\ n \in Nat
  BY <1>1, BloquesDisponiblesSonBloques
<1>3. n < Len(rs) => /\ SubSeq(rs, 1, n) \in Seq(Registro)
                     /\ Range(SubSeq(rs, 1, n)) \subseteq Range(rs)
  BY <1>2, RangoDePrefijo
<1> QED BY <1>2, <1>3 DEF ArchivoEscrito, Archivo, FaltanBloques

LEMMA RegistrosDeVacia == RegistrosDe(<<>>) = {}
BY DEF RegistrosDe

LEMMA RegistrosDeAppend ==
  ASSUME NEW fs \in Seq(Archivo), NEW a \in Archivo
  PROVE  RegistrosDe(Append(fs, a)) = RegistrosDe(fs) \cup Range(a.registros)
<1>1. /\ DOMAIN fs = 1..Len(fs) /\ Len(fs) \in Nat
      /\ DOMAIN Append(fs, a) = 1..(Len(fs) + 1)
      /\ \A i \in 1..Len(fs) : Append(fs, a)[i] = fs[i]
      /\ Append(fs, a)[Len(fs) + 1] = a
  OBVIOUS
<1>2. 1..(Len(fs) + 1) = 1..Len(fs) \cup {Len(fs) + 1}
  BY <1>1
<1> QED BY <1>1, <1>2 DEF RegistrosDe

\* Every N.tmp becomes an N.tmpc or replaces the one there was: the .tmpc files
\* are still numbered from 0 and no newer file is missing among them.
LEMMA RenombradosEsLista ==
  ASSUME NEW viejos \in Seq(Archivo), NEW nuevos \in Seq(Archivo)
  PROVE  /\ Renombrados(viejos, nuevos) \in Seq(Archivo)
         /\ RegistrosDe(nuevos) \subseteq RegistrosDe(Renombrados(viejos, nuevos))
         /\ RegistrosDe(Renombrados(viejos, nuevos))
              \subseteq RegistrosDe(viejos) \cup RegistrosDe(nuevos)
<1> DEFINE f == Renombrados(viejos, nuevos)
           n == IF Len(viejos) <= Len(nuevos) THEN Len(nuevos) ELSE Len(viejos)
<1>1. /\ DOMAIN viejos = 1..Len(viejos) /\ Len(viejos) \in Nat
      /\ DOMAIN nuevos = 1..Len(nuevos) /\ Len(nuevos) \in Nat
  OBVIOUS
<1>2. n \in Nat /\ DOMAIN viejos \cup DOMAIN nuevos = 1..n
  BY <1>1
<1>3. \A i \in 1..n : f[i] = IF i \in DOMAIN nuevos THEN nuevos[i] ELSE viejos[i]
  BY <1>2 DEF Renombrados
<1>4. DOMAIN f = 1..n
  BY <1>2 DEF Renombrados
<1>5. f \in [1..n -> Archivo]
  <2>1. \A i \in 1..n : f[i] \in Archivo
    BY <1>1, <1>2, <1>3
  <2> QED BY <1>2, <2>1 DEF Renombrados
<1>6. f \in Seq(Archivo)
  BY <1>2, <1>5
<1>7. RegistrosDe(nuevos) \subseteq RegistrosDe(f)
  <2>1. \A i \in DOMAIN nuevos : i \in DOMAIN f /\ f[i] = nuevos[i]
    BY <1>2, <1>3, <1>4
  <2> QED BY <2>1 DEF RegistrosDe
<1>8. RegistrosDe(f) \subseteq RegistrosDe(viejos) \cup RegistrosDe(nuevos)
  <2>1. \A i \in DOMAIN f : \/ i \in DOMAIN nuevos /\ f[i] = nuevos[i]
                            \/ i \in DOMAIN viejos /\ f[i] = viejos[i]
    BY <1>2, <1>3, <1>4
  <2> QED BY <2>1 DEF RegistrosDe
<1> QED BY <1>6, <1>7, <1>8

------------------------------------------------------------------------------
(* The merge.                                                              *)

LEMMA RegistrosFinitos == IsFiniteSet(Registro)
<1> DEFINE f == [x \in Claves \X Timestamps |-> [key |-> x[1], timestamp |-> x[2]]]
<1>1. IsFiniteSet(Claves \X Timestamps)
  <2>1. IsFiniteSet(Timestamps)
    BY TimestampsAssumption, FS_Interval DEF Timestamps
  <2> QED BY <2>1, ClavesAssumption, FS_Product
<1>2. f \in Surjection(Claves \X Timestamps, Registro)
  <2>1. f \in [Claves \X Timestamps -> Registro]
    BY DEF Registro
  <2>2. ASSUME NEW r \in Registro
        PROVE  \E x \in Claves \X Timestamps : f[x] = r
    <3>1. <<r.key, r.timestamp>> \in Claves \X Timestamps
      BY DEF Registro
    <3>2. f[<<r.key, r.timestamp>>] = r
      BY <3>1 DEF Registro
    <3> QED BY <3>1, <3>2
  <2> QED BY <2>1, <2>2, Zenon DEF Surjection
<1> QED BY <1>1, <1>2, FS_Surjection, Zenon

\* readdir gives each element of the set, and nothing else.
LEMMA ListadoEsLista ==
  ASSUME NEW S \in SUBSET Registro, NEW l \in Listados(S)
  PROVE  l \in Seq(Registro) /\ Range(l) = S
<1>1. Cardinality(S) \in Nat
  BY RegistrosFinitos, FS_Subset, FS_CardinalityType
<1>2. l \in [1..Cardinality(S) -> S] /\ Range(l) = S
  BY DEF Listados
<1>3. l \in Seq(S)
  BY <1>1, <1>2
<1> QED BY <1>2, <1>3

\* The first of a partition's records with one of the keys.
LEMMA PrimeroConClave ==
  ASSUME NEW rs \in Seq(Registro), NEW ks, ConClave(rs, ks) # {}
  PROVE  /\ Min(ConClave(rs, ks)) \in 1..Len(rs)
         /\ rs[Min(ConClave(rs, ks))].key \in ks
         /\ \A i \in ConClave(rs, ks) : Min(ConClave(rs, ks)) <= i
<1>1. ConClave(rs, ks) \subseteq Nat
  BY DEF ConClave
<1>2. /\ Min(ConClave(rs, ks)) \in ConClave(rs, ks)
      /\ \A i \in ConClave(rs, ks) : Min(ConClave(rs, ks)) <= i
  BY <1>1, HayMinimo
<1> QED BY <1>2 DEF ConClave

\* Some record of the .tmpc files beats each record there.
LEMMA MasNuevosCubren ==
  ASSUME NEW S \in SUBSET Registro, NEW r \in S
  PROVE  Cubre(MasNuevos(S), r)
<1> DEFINE ts == {q.timestamp : q \in {x \in S : x.key = r.key}}
<1>1. ts \subseteq 0..MaxTimestamp
  BY DEF Registro, Timestamps
<1>2. r.timestamp \in ts
  OBVIOUS
<1>3. PICK m \in ts : \A x \in ts : x <= m
  BY <1>1, <1>2, TimestampsAssumption, HayMaximo
<1>4. PICK q \in S : q.key = r.key /\ q.timestamp = m
  OBVIOUS
<1>5. q \in MasNuevos(S)
  BY <1>3, <1>4 DEF MasNuevos
<1> QED BY <1>2, <1>3, <1>4, <1>5, TimestampsAssumption DEF Cubre, Registro, Timestamps

\* What replaces a record of the .tmpc files is of its key and not older than
\* it, nor than the first of the partition.
LEMMA MasAltoGana ==
  ASSUME NEW r \in Registro, NEW rs \in Seq(Registro)
  PROVE  /\ MasAlto(r, rs) \in {r} \cup Range(rs)
         /\ MasAlto(r, rs) \in Registro
         /\ MasAlto(r, rs).key = r.key
         /\ MasAlto(r, rs).timestamp >= r.timestamp
         /\ ConClave(rs, {r.key}) # {} =>
              MasAlto(r, rs).timestamp >= rs[Min(ConClave(rs, {r.key}))].timestamp
<1> DEFINE i == Min(ConClave(rs, {r.key}))
<1>1. \A q \in Registro : q.timestamp \in Int
  BY TimestampsAssumption DEF Registro, Timestamps
<1>2. CASE ConClave(rs, {r.key}) = {}
  <2>1. MasAlto(r, rs) = r
    BY <1>2, Zenon DEF MasAlto
  <2>2. r.timestamp >= r.timestamp
    BY <1>1
  <2> QED BY <1>2, <2>1, <2>2, Zenon
<1>3. CASE ConClave(rs, {r.key}) # {}
  <2>1. i \in 1..Len(rs) /\ rs[i].key = r.key
    BY <1>3, PrimeroConClave
  <2> HIDE DEF i
  <2>2. rs[i] \in Registro /\ rs[i] \in Range(rs)
    BY <2>1 DEF Range
  <2>3. rs[i].timestamp \in Int
    BY <1>1, <2>2
  <2>4. MasAlto(r, rs) = IF rs[i].timestamp > r.timestamp THEN rs[i] ELSE r
    BY <1>3 DEF MasAlto, i
  <2>5. CASE rs[i].timestamp > r.timestamp
    BY <1>1, <2>1, <2>2, <2>3, <2>4, <2>5 DEF i
  <2>6. CASE ~(rs[i].timestamp > r.timestamp)
    BY <1>1, <2>1, <2>2, <2>3, <2>4, <2>6 DEF i
  <2> QED BY <2>5, <2>6
<1> QED BY <1>2, <1>3

\* The partition loses at most the first of its records with one of the keys.
LEMMA RestoPierdeUno ==
  ASSUME NEW rs \in Seq(Registro), NEW ks, NEW elegida \in BOOLEAN,
         elegida => ConClave(rs, ks) # {}
  PROVE  /\ Resto(rs, ks, elegida) \in Seq(Registro)
         /\ Range(Resto(rs, ks, elegida)) \subseteq Range(rs)
         /\ \A q \in Range(rs) : \/ q \in Range(Resto(rs, ks, elegida))
                                 \/ elegida /\ q = rs[Min(ConClave(rs, ks))]
<1>1. CASE ~elegida
  BY <1>1 DEF Resto
<1>2. CASE elegida
  <2>1. Min(ConClave(rs, ks)) \in 1..Len(rs)
    BY <1>2, PrimeroConClave
  <2> QED BY <1>2, <2>1, RangoDeRemoveAt DEF Resto
<1> QED BY <1>1, <1>2

\* The list the merge writes for a partition has nothing that was not in the
\* .tmpc files or the partition, and something at least as new for each record
\* of them, if the partition holds its own keys only.
LEMMA ListaCubre ==
  ASSUME NEW S \in SUBSET Registro, NEW b \in [Particiones -> Archivo],
         NEW p \in Particiones,
         NEW e, p = e => ConClave(b[p].registros, ClavesDe(MasNuevos(S))) # {},
         NEW l \in Listas(S, b, p, e)
  PROVE  /\ l \in Seq(Registro)
         /\ Range(l) \subseteq S \cup Range(b[p].registros)
         /\ p \notin Tocadas(S) => l = <<>>
         /\ EsDeSusClaves(b[p].registros, p) =>
              /\ EsDeSusClaves(l, p)
              /\ p \in Tocadas(S) =>
                   \A r \in S \cup Range(b[p].registros) :
                     Particion(r.key) = p => Cubre(Range(l), r)
<1> DEFINE nuevos == MasNuevos(S)
           rs == b[p].registros
           g == Ganadores(nuevos, p, rs)
           resto == Resto(rs, ClavesDe(nuevos), p = e)
<1>1. CASE p \notin Tocadas(S)
  <2>1. l = <<>>
    BY <1>1 DEF Listas
  <2> QED BY <1>1, <2>1 DEF Range, EsDeSusClaves
<1>2. CASE p \in Tocadas(S)
  <2>1. rs \in Seq(Registro)
    BY DEF Archivo
  <2>2. nuevos \subseteq S
    BY DEF MasNuevos
  <2>3. PICK lg \in Listados(g) : l = AEscribir(lg, resto)
    BY <1>2 DEF Listas
  <2>4. \A r \in nuevos : Particion(r.key) = p => MasAlto(r, rs) \in g
    BY DEF Ganadores
  <2>5. \A x \in g : \E r \in nuevos : Particion(r.key) = p /\ x = MasAlto(r, rs)
    BY DEF Ganadores
  <2>6. resto \in Seq(Registro)
        /\ Range(resto) \subseteq Range(rs)
        /\ \A q \in Range(rs) :
             \/ q \in Range(resto)
             \/ p = e /\ q = rs[Min(ConClave(rs, ClavesDe(nuevos)))]
    <3> DEFINE elegida == p = e
               ks == ClavesDe(nuevos)
    <3>1. elegida \in BOOLEAN /\ (elegida => ConClave(rs, ks) # {})
      OBVIOUS
    <3> HIDE DEF nuevos, rs, g, resto, elegida, ks
    <3>2. /\ Resto(rs, ks, elegida) \in Seq(Registro)
          /\ Range(Resto(rs, ks, elegida)) \subseteq Range(rs)
          /\ \A q \in Range(rs) : \/ q \in Range(Resto(rs, ks, elegida))
                                  \/ elegida /\ q = rs[Min(ConClave(rs, ks))]
      BY <2>1, <3>1, RestoPierdeUno
    <3>3. resto = Resto(rs, ks, elegida)
      BY DEF resto, rs, nuevos, elegida, ks
    <3> QED BY <3>2, <3>3, Zenon DEF elegida, ks
  <2> HIDE DEF nuevos, rs, g, resto
  <2>7. g \subseteq Registro /\ g \subseteq S \cup Range(rs)
        /\ \A x \in g : Particion(x.key) = p
    <3> SUFFICES ASSUME NEW x \in g
                 PROVE  /\ x \in Registro /\ x \in S \cup Range(rs)
                        /\ Particion(x.key) = p
      BY Zenon
    <3>1. PICK r \in nuevos : Particion(r.key) = p /\ x = MasAlto(r, rs)
      BY <2>5
    <3>2. r \in S /\ r \in Registro
      BY <2>2
    <3>3. x \in {r} \cup Range(rs) /\ x \in Registro /\ x.key = r.key
      BY <2>1, <3>1, <3>2, MasAltoGana
    <3> QED BY <3>1, <3>2, <3>3
  <2>8. lg \in Seq(Registro) /\ Range(lg) = g
    BY <2>7, ListadoEsLista
  <2>9. l \in Seq(Registro) /\ Range(l) = g \cup Range(resto)
    BY <2>3, <2>6, <2>8, RangoDeConcatenacion DEF AEscribir
  <2>10. ASSUME NEW r \in nuevos, Particion(r.key) = p
         PROVE  /\ MasAlto(r, rs) \in Range(l)
                /\ MasAlto(r, rs) \in Registro
                /\ MasAlto(r, rs).key = r.key
                /\ MasAlto(r, rs).timestamp >= r.timestamp
    BY <2>1, <2>2, <2>4, <2>9, <2>10, MasAltoGana
  <2>11. ASSUME NEW r \in S, Particion(r.key) = p
         PROVE  Cubre(Range(l), r)
    <3>1. PICK q \in nuevos : q.key = r.key /\ q.timestamp >= r.timestamp
      BY MasNuevosCubren DEF Cubre, nuevos
    <3>2. MasAlto(q, rs).timestamp >= r.timestamp
      <4>1. /\ MasAlto(q, rs).timestamp \in Int /\ q.timestamp \in Int
            /\ r.timestamp \in Int
        BY <2>2, <2>10, <2>11, <3>1, TimestampsAssumption DEF Registro, Timestamps
      <4> QED BY <2>10, <2>11, <3>1, <4>1
    <3> QED BY <2>10, <2>11, <3>1, <3>2 DEF Cubre
  <2>12. ASSUME EsDeSusClaves(rs, p), NEW q \in Range(rs)
         PROVE  Cubre(Range(l), q)
    <3>1. q \in Registro
      BY <2>1, RangoDeSecuencia
    <3>2. CASE q \in Range(l)
      <4>1. q.timestamp >= q.timestamp
        BY <3>1, TimestampsAssumption DEF Registro, Timestamps
      <4> QED BY <3>2, <4>1 DEF Cubre
    <3>3. CASE q \notin Range(l)
      <4> DEFINE i == Min(ConClave(rs, ClavesDe(nuevos)))
      <4>1. p = e /\ q = rs[i]
        BY <2>6, <2>9, <3>3, Zenon
      <4>2. ConClave(rs, ClavesDe(nuevos)) # {}
        BY <4>1 DEF nuevos, rs
      <4>3. /\ i \in 1..Len(rs)
            /\ rs[i].key \in ClavesDe(nuevos)
            /\ \A j \in ConClave(rs, ClavesDe(nuevos)) : i <= j
        BY <2>1, <4>2, PrimeroConClave
      <4> HIDE DEF i
      <4>4. PICK r \in nuevos : r.key = q.key
        BY <4>1, <4>3 DEF ClavesDe
      <4>5. ConClave(rs, {r.key}) \subseteq ConClave(rs, ClavesDe(nuevos))
        BY DEF ConClave, ClavesDe
      <4>6. i \in ConClave(rs, {r.key})
        BY <2>1, <4>1, <4>3, <4>4 DEF ConClave
      <4>7. Min(ConClave(rs, {r.key})) = i
        <5> DEFINE j == Min(ConClave(rs, {r.key}))
        <5>1. j \in 1..Len(rs) /\ rs[j].key = r.key /\ j <= i
          BY <2>1, <4>6, PrimeroConClave
        <5> HIDE DEF j
        <5>2. j \in ConClave(rs, ClavesDe(nuevos))
          BY <2>1, <5>1 DEF ConClave, ClavesDe
        <5> QED BY <4>3, <5>1, <5>2 DEF j
      <4>8. MasAlto(r, rs).timestamp >= q.timestamp
        BY <2>1, <2>2, <4>1, <4>6, <4>7, MasAltoGana
      <4>9. Particion(r.key) = p
        BY <2>12, <4>4 DEF EsDeSusClaves
      <4> QED BY <2>10, <4>4, <4>8, <4>9 DEF Cubre
    <3> QED BY <3>2, <3>3
  <2>13. EsDeSusClaves(rs, p) => EsDeSusClaves(l, p)
    BY <2>6, <2>7, <2>9 DEF EsDeSusClaves
  <2>14. Range(l) \subseteq S \cup Range(rs)
    BY <2>6, <2>7, <2>9
  <2> QED BY <1>2, <2>9, <2>11, <2>12, <2>13, <2>14 DEF rs
<1> QED BY <1>1, <1>2

\* The same of the whole merge.
LEMMA MezclaCubre ==
  ASSUME NEW S \in SUBSET Registro, NEW b \in [Particiones -> Archivo],
         NEW m \in Mezclas(S, b)
  PROVE  /\ m \in [Particiones -> Seq(Registro)]
         /\ \A p \in Particiones :
              /\ Range(m[p]) \subseteq S \cup Range(b[p].registros)
              /\ p \notin Tocadas(S) => m[p] = <<>>
              /\ EsDeSusClaves(b[p].registros, p) =>
                   /\ EsDeSusClaves(m[p], p)
                   /\ p \in Tocadas(S) =>
                        \A r \in S \cup Range(b[p].registros) :
                          Particion(r.key) = p => Cubre(Range(m[p]), r)
<1>1. PICK e \in Elegibles(S, b) :
        m \in {f \in [Particiones -> UNION {Listas(S, b, p, e) : p \in Particiones}] :
                 \A p \in Particiones : f[p] \in Listas(S, b, p, e)}
  BY Zenon DEF Mezclas
<1>2. /\ m = [p \in Particiones |-> m[p]]
      /\ \A p \in Particiones : m[p] \in Listas(S, b, p, e)
  BY <1>1
<1>3. \A p \in Particiones :
        p = e => ConClave(b[p].registros, ClavesDe(MasNuevos(S))) # {}
  <2> SUFFICES ASSUME NEW p \in Particiones, p = e
               PROVE  ConClave(b[p].registros, ClavesDe(MasNuevos(S))) # {}
    OBVIOUS
  <2>1. e # -1
    BY ParticionesAssumption DEF Particiones
  <2>2. p \in Repetidas(S, b)
    BY <1>1, <2>1, Zenon DEF Elegibles
  <2> QED BY <2>2, Zenon DEF Repetidas
<1>4. ASSUME NEW p \in Particiones
      PROVE  /\ m[p] \in Seq(Registro)
             /\ Range(m[p]) \subseteq S \cup Range(b[p].registros)
             /\ p \notin Tocadas(S) => m[p] = <<>>
             /\ EsDeSusClaves(b[p].registros, p) =>
                  /\ EsDeSusClaves(m[p], p)
                  /\ p \in Tocadas(S) =>
                       \A r \in S \cup Range(b[p].registros) :
                         Particion(r.key) = p => Cubre(Range(m[p]), r)
  <2>1. p = e => ConClave(b[p].registros, ClavesDe(MasNuevos(S))) # {}
    BY <1>3
  <2>2. m[p] \in Listas(S, b, p, e)
    BY <1>2
  <2> QED BY <2>1, <2>2, ListaCubre
<1> QED BY <1>2, <1>4

------------------------------------------------------------------------------
(* Types.                                                                  *)

LEMMA OciosoBienTipado ==
  /\ Ocioso.tabla \in Tablas
  /\ Ocioso.key \in Claves
  /\ Ocioso \in EstadosDeSelect
<1>1. (CHOOSE t \in Tablas : TRUE) \in Tablas /\ (CHOOSE k \in Claves : TRUE) \in Claves
  BY TablasAssumption, ClavesAssumption, Zenon
<1> QED BY <1>1 DEF Ocioso, PcDeSelect, EstadosDeSelect

\* The timestamps of a set of records.
LEMMA TimestampsBienTipados ==
  ASSUME NEW S \in SUBSET Registro, NEW k
  PROVE  TimestampsDe(S, k) \in SUBSET Timestamps
BY DEF TimestampsDe, Registro

LEMMA RegistrosBienTipados ==
  ASSUME NEW fs \in Seq(Archivo)
  PROVE  RegistrosDe(fs) \in SUBSET Registro
<1>1. ASSUME NEW i \in DOMAIN fs PROVE Range(fs[i].registros) \subseteq Registro
  <2>1. fs[i] \in Archivo
    BY <1>1
  <2>2. fs[i].registros \in Seq(Registro)
    BY <2>1 DEF Archivo
  <2> QED BY <2>2, RangoDeSecuencia
<1> QED BY <1>1 DEF RegistrosDe

LEMMA ParticionDeClave ==
  ASSUME NEW k \in Claves
  PROVE  Particion(k) \in Particiones
BY ClavesAssumption, ParticionesAssumption DEF Particion, Particiones

LEMMA InitTypeOK == Init => TypeOK
<1> SUFFICES ASSUME Init PROVE TypeOK
  OBVIOUS
<1>1. PICK bloque \in [Tablas \X Particiones -> Bloques] :
        /\ bin = [t \in Tablas |-> [p \in Particiones |->
                    [registros |-> <<>>, bloques |-> {bloque[<<t, p>>]}]]]
        /\ bitmap = Range(bloque)
  BY DEF Init
<1>2. bin \in [Tablas -> [Particiones -> Archivo]]
  <2>1. \A t \in Tablas, p \in Particiones :
          [registros |-> <<>>, bloques |-> {bloque[<<t, p>>]}] \in Archivo
    <3> SUFFICES ASSUME NEW t \in Tablas, NEW p \in Particiones
                 PROVE  [registros |-> <<>>, bloques |-> {bloque[<<t, p>>]}] \in Archivo
      OBVIOUS
    <3>1. bloque[<<t, p>>] \in Bloques
      OBVIOUS
    <3>2. <<>> \in Seq(Registro)
      OBVIOUS
    <3> QED BY <3>1, <3>2 DEF Archivo
  <2> QED BY <1>1, <2>1
<1>3. bitmap \subseteq Bloques
  BY <1>1 DEF Range
<1>4. sel \in [Clientes -> EstadosDeSelect]
  BY OciosoBienTipado DEF Init
<1>5. dump \in EstadosDeDump
  <2>1. (CHOOSE t \in Tablas : TRUE) \in Tablas
    BY TablasAssumption, Zenon
  <2> QED BY <2>1 DEF Init, EstadosDeDump
<1>6. comp \in [Tablas -> EstadosDeCompactacion]
  <2>1. 1 \in 1..(Len(CosasABloquear) + 1)
    BY CosasAssumption
  <2>2. [p \in Particiones |-> <<>>] \in [Particiones -> Seq(Registro)]
    OBVIOUS
  <2> QED BY <2>1, <2>2 DEF Init, PcDeCompactacion, EstadosDeCompactacion
<1>7. /\ memtable \in [Tablas -> Seq(Registro)]
      /\ tmp \in [Tablas -> Seq(Archivo)]
      /\ tmpc \in [Tablas -> Seq(Archivo)]
  BY DEF Init
<1>8. /\ mutex \in [Tablas -> [Ids -> EstadosDeMutex]]
      /\ sinBloques \in BOOLEAN /\ sinTmp \in BOOLEAN /\ vivo \in BOOLEAN
      /\ insertados \in [Tablas -> SUBSET Registro]
      /\ cantInserts \in Nat
  BY DEF Init, EstadosDeMutex
<1> QED BY <1>2, <1>3, <1>4, <1>5, <1>6, <1>7, <1>8 DEF TypeOK

LEMMA TypeOKAccionesDeCliente ==
  ASSUME TypeOK, NEW c \in Clientes, AccionesDeCliente(c)
  PROVE  TypeOK'
<1> DEFINE s == sel[c]
<1>0. /\ s \in EstadosDeSelect
      /\ s.tabla \in Tablas /\ s.key \in Claves /\ s.leidos \in SUBSET Timestamps
      /\ s.debidos \in SUBSET Timestamps
  BY DEF TypeOK, EstadosDeSelect
<1>1. ASSUME NEW t \in Tablas, NEW r \in Registro, Insertar(c, t, r)
      PROVE  TypeOK'
  <2>1. memtable' \in [Tablas -> Seq(Registro)]
    BY <1>1 DEF Insertar, TypeOK
  <2>2. insertados' \in [Tablas -> SUBSET Registro] /\ cantInserts' \in Nat
    BY <1>1 DEF Insertar, TypeOK
  <2> QED BY <1>1, <2>1, <2>2 DEF Insertar, TypeOK, archivos
<1>2. ASSUME NEW t \in Tablas, NEW k \in Claves, PedirSelect(c, t, k)
      PROVE  TypeOK'
  <2>1. TimestampsDe(insertados[t], k) \in SUBSET Timestamps
    BY TimestampsBienTipados DEF TypeOK
  <2>2. [Ocioso EXCEPT !.pc = "pedido", !.tabla = t, !.key = k,
                       !.debidos = TimestampsDe(insertados[t], k)] \in EstadosDeSelect
    BY <2>1, OciosoBienTipado DEF EstadosDeSelect, PcDeSelect
  <2>3. sel' \in [Clientes -> EstadosDeSelect]
    BY <1>2, <2>2 DEF PedirSelect, TypeOK
  <2> QED BY <1>2, <2>3 DEF PedirSelect, TypeOK, archivos, historia
<1>3. CASE LeerMemtable(c)
  <2> DEFINE leidos == TimestampsDe(Range(memtable[s.tabla]), s.key)
  <2>1. leidos \in SUBSET Timestamps
    BY <1>0, RangoDeSecuencia, TimestampsBienTipados DEF TypeOK
  <2> HIDE DEF leidos
  <2>2. [s EXCEPT !.pc = "esperaMutex", !.leidos = leidos] \in EstadosDeSelect
    BY <1>0, <2>1 DEF EstadosDeSelect, PcDeSelect
  <2>3. sel' = [sel EXCEPT ![c] = [s EXCEPT !.pc = "esperaMutex", !.leidos = leidos]]
    BY <1>3 DEF LeerMemtable, EnMemtable, TypeOK, leidos
  <2>4. sel' \in [Clientes -> EstadosDeSelect]
    BY <2>2, <2>3 DEF TypeOK
  <2> QED BY <1>3, <2>4 DEF LeerMemtable, TypeOK, archivos, historia
<1>4. CASE BloquearPropio(c)
  <2>1. [s EXCEPT !.pc = "leeTmp"] \in EstadosDeSelect
    BY <1>0 DEF EstadosDeSelect, PcDeSelect
  <2>2. sel' = [sel EXCEPT ![c] = [s EXCEPT !.pc = "leeTmp"]]
    BY <1>4 DEF BloquearPropio, TypeOK
  <2>3. sel' \in [Clientes -> EstadosDeSelect]
    BY <2>1, <2>2 DEF TypeOK
  <2>4. mutex' \in [Tablas -> [Ids -> EstadosDeMutex]]
    BY <1>4 DEF BloquearPropio, TypeOK, EstadosDeMutex
  <2> QED BY <1>4, <2>3, <2>4 DEF BloquearPropio, TypeOK, archivos, historia
<1>5. CASE LeerTmp(c)
  <2> DEFINE leidos == TimestampsDe(EnTemporales(s.tabla), s.key)
  <2>1. leidos \in SUBSET Timestamps
    <3>1. EnTemporales(s.tabla) \in SUBSET Registro
      BY <1>0, RegistrosBienTipados DEF EnTemporales, TypeOK
    <3> QED BY <3>1, TimestampsBienTipados
  <2> HIDE DEF leidos
  <2>2. [s EXCEPT !.pc = "leeParticion", !.leidos = @ \cup leidos] \in EstadosDeSelect
    BY <1>0, <2>1 DEF EstadosDeSelect, PcDeSelect
  <2>3. sel' = [sel EXCEPT ![c] =
                  [s EXCEPT !.pc = "leeParticion", !.leidos = @ \cup leidos]]
    BY <1>5 DEF LeerTmp, TypeOK, leidos
  <2>4. sel' \in [Clientes -> EstadosDeSelect]
    BY <2>2, <2>3 DEF TypeOK
  <2> QED BY <1>5, <2>4 DEF LeerTmp, TypeOK, archivos, historia
<1>6. CASE LeerTmpIncompleto(c)
  BY <1>6 DEF LeerTmpIncompleto, TypeOK, archivos, historia
<1>7. CASE LeerParticion(c)
  <2> DEFINE rs == bin[s.tabla][Particion(s.key)].registros
             leidos == TimestampsDe(Range(rs), s.key)
  <2>1. leidos \in SUBSET Timestamps
    <3>1. Particion(s.key) \in Particiones
      BY <1>0, ParticionDeClave
    <3>2. rs \in Seq(Registro)
      BY <1>0, <3>1 DEF Archivo, TypeOK
    <3> QED BY <3>2, RangoDeSecuencia, TimestampsBienTipados
  <2> HIDE DEF leidos
  <2>2. [s EXCEPT !.pc = "leyo", !.leidos = @ \cup leidos] \in EstadosDeSelect
    BY <1>0, <2>1 DEF EstadosDeSelect, PcDeSelect
  <2>3. sel' = [sel EXCEPT ![c] = [s EXCEPT !.pc = "leyo", !.leidos = @ \cup leidos]]
    BY <1>7 DEF LeerParticion, TypeOK, leidos
  <2>4. sel' \in [Clientes -> EstadosDeSelect]
    BY <2>2, <2>3 DEF TypeOK
  <2> QED BY <1>7, <2>4 DEF LeerParticion, TypeOK, archivos, historia
<1>8. CASE Responder(c)
  <2>1. PICK r \in Primeros(s.leidos) :
          sel' = [sel EXCEPT ![c].pc = "respondido", ![c].leidos = {}, ![c].respuesta = r]
    BY <1>8 DEF Responder
  <2>2. r \in Timestamps \cup {KEY_NO_EXISTE}
    BY <1>0, <2>1 DEF Primeros
  <2>3. [s EXCEPT !.pc = "respondido", !.leidos = {}, !.respuesta = r] \in EstadosDeSelect
    BY <1>0, <2>2 DEF EstadosDeSelect, PcDeSelect
  <2>4. sel' = [sel EXCEPT ![c] =
                  [s EXCEPT !.pc = "respondido", !.leidos = {}, !.respuesta = r]]
    BY <2>1 DEF TypeOK
  <2>5. sel' \in [Clientes -> EstadosDeSelect]
    BY <2>3, <2>4 DEF TypeOK
  <2>6. mutex' \in [Tablas -> [Ids -> EstadosDeMutex]]
    BY <1>8 DEF Responder, TypeOK, EstadosDeMutex
  <2> QED BY <1>8, <2>5, <2>6 DEF Responder, TypeOK, archivos, historia
<1>9. CASE Enviar(c)
  <2>1. sel' \in [Clientes -> EstadosDeSelect]
    BY <1>9, OciosoBienTipado DEF Enviar, TypeOK
  <2> QED BY <1>9, <2>1 DEF Enviar, TypeOK, archivos, historia
<1> QED BY <1>1, <1>2, <1>3, <1>4, <1>5, <1>6, <1>7, <1>8, <1>9
        DEF AccionesDeCliente

LEMMA TypeOKAccionesDeDump == TypeOK /\ AccionesDeDump => TypeOK'
<1> SUFFICES ASSUME TypeOK, AccionesDeDump PROVE TypeOK'
  OBVIOUS
<1>1. CASE ComenzarDump
  <2>1. dump' \in EstadosDeDump
    BY <1>1 DEF ComenzarDump, TypeOK, EstadosDeDump
  <2> QED BY <1>1, <2>1 DEF ComenzarDump, TypeOK, archivos, historia
<1>2. ASSUME NEW t \in Tablas, AbrirTmp(t)
      PROVE  TypeOK'
  <2>1. dump' \in EstadosDeDump
    BY <1>2 DEF AbrirTmp, TypeOK, EstadosDeDump
  <2>2. mutex' \in [Tablas -> [Ids -> EstadosDeMutex]]
    BY <1>2 DEF AbrirTmp, TypeOK, EstadosDeMutex
  <2> QED BY <1>2, <2>1, <2>2 DEF AbrirTmp, TypeOK, archivos, historia
<1>3. CASE EscribirTmp
  <2> DEFINE archivo == ArchivoEscrito(memtable[dump.tabla])
  <2>0. dump.tabla \in Tablas
    BY DEF TypeOK, EstadosDeDump
  <2>1. archivo \in Archivo /\ archivo.bloques \subseteq Bloques
    BY <2>0, ArchivoEscritoEsArchivo DEF Archivo, TypeOK
  <2> HIDE DEF archivo
  <2>2. tmp' \in [Tablas -> Seq(Archivo)] /\ bitmap' \subseteq Bloques
    BY <1>3, <2>0, <2>1 DEF EscribirTmp, TypeOK, archivo
  <2>3. sinBloques' \in BOOLEAN
    BY <1>3, Zenon DEF EscribirTmp
  <2>4. dump' \in EstadosDeDump
    BY <1>3 DEF EscribirTmp, TypeOK, EstadosDeDump
  <2>5. mutex' \in [Tablas -> [Ids -> EstadosDeMutex]]
    BY <1>3 DEF EscribirTmp, TypeOK, EstadosDeMutex
  <2>6. UNCHANGED <<memtable, tmpc, bin, sinTmp, sel, comp, vivo, insertados,
                   cantInserts>>
    BY <1>3 DEF EscribirTmp, historia
  <2> QED BY <2>2, <2>3, <2>4, <2>5, <2>6 DEF TypeOK
<1>4. CASE TerminarDump
  <2>1. dump' \in EstadosDeDump
    BY <1>4 DEF TerminarDump, TypeOK, EstadosDeDump
  <2>2. memtable' \in [Tablas -> Seq(Registro)]
    BY <1>4 DEF TerminarDump
  <2> QED BY <1>4, <2>1, <2>2 DEF TerminarDump, TypeOK, archivos, historia
<1>5. ASSUME NEW t \in Tablas, SaltearTabla(t)
      PROVE  TypeOK'
  <2>1. dump' \in EstadosDeDump
    BY <1>5 DEF SaltearTabla, TypeOK, EstadosDeDump
  <2> QED BY <1>5, <2>1 DEF SaltearTabla, TypeOK, historia
<1> QED BY <1>1, <1>2, <1>3, <1>4, <1>5 DEF AccionesDeDump

LEMMA TypeOKAccionesDeCompactacion ==
  ASSUME TypeOK, NEW t \in Tablas, AccionesDeCompactacion(t)
  PROVE  TypeOK'
<1> DEFINE k == comp[t]
<1>0. /\ k \in EstadosDeCompactacion
      /\ k.i \in 1..(Len(CosasABloquear) + 1)
      /\ k.nuevos \in [Particiones -> Seq(Registro)]
      /\ k.porGuardar \subseteq Particiones
  BY DEF TypeOK, EstadosDeCompactacion
<1>a. 1 \in 1..(Len(CosasABloquear) + 1) /\ Len(CosasABloquear) \in Nat
  BY CosasAssumption
<1>b. ASSUME NEW pc \in PcDeCompactacion,
             comp' = [comp EXCEPT ![t].pc = pc, ![t].i = 1]
      PROVE  comp' \in [Tablas -> EstadosDeCompactacion]
  <2>1. [k EXCEPT !.pc = pc, !.i = 1] \in EstadosDeCompactacion
    BY <1>0, <1>a DEF EstadosDeCompactacion
  <2>2. comp' = [comp EXCEPT ![t] = [k EXCEPT !.pc = pc, !.i = 1]]
    BY <1>b DEF TypeOK
  <2> QED BY <2>1, <2>2 DEF TypeOK
<1>c. ASSUME ~FinDeLista(t), comp' = [comp EXCEPT ![t].i = @ + 1]
      PROVE  comp' \in [Tablas -> EstadosDeCompactacion]
  <2>1. k.i + 1 \in 1..(Len(CosasABloquear) + 1)
    BY <1>0, <1>a, <1>c DEF FinDeLista
  <2>2. [k EXCEPT !.i = k.i + 1] \in EstadosDeCompactacion
    BY <1>0, <2>1 DEF EstadosDeCompactacion
  <2>3. comp' = [comp EXCEPT ![t] = [k EXCEPT !.i = k.i + 1]]
    BY <1>c DEF TypeOK
  <2> QED BY <2>2, <2>3 DEF TypeOK
<1>1. CASE ComenzarCompactacion(t)
  <2>1. comp' \in [Tablas -> EstadosDeCompactacion]
    BY <1>1, <1>b DEF ComenzarCompactacion, PcDeCompactacion
  <2> QED BY <1>1, <2>1 DEF ComenzarCompactacion, TypeOK, archivos, historia
<1>2. CASE Bloquear(t)
  <2>1. comp' \in [Tablas -> EstadosDeCompactacion]
    BY <1>2, <1>c DEF Bloquear
  <2>2. mutex' \in [Tablas -> [Ids -> EstadosDeMutex]]
    BY <1>2 DEF Bloquear, TypeOK, EstadosDeMutex
  <2> QED BY <1>2, <2>1, <2>2 DEF Bloquear, TypeOK, archivos, historia
<1>3. CASE Desbloquear(t)
  <2>1. comp' \in [Tablas -> EstadosDeCompactacion]
    BY <1>3, <1>c DEF Desbloquear
  <2>2. mutex' \in [Tablas -> [Ids -> EstadosDeMutex]]
    BY <1>3 DEF Desbloquear, TypeOK, EstadosDeMutex
  <2> QED BY <1>3, <2>1, <2>2 DEF Desbloquear, TypeOK, archivos, historia
<1>4. CASE Renombrar(t)
  <2>1. Renombrados(tmpc[t], tmp[t]) \in Seq(Archivo) /\ <<>> \in Seq(Archivo)
    BY RenombradosEsLista DEF TypeOK
  <2>2. tmpc' \in [Tablas -> Seq(Archivo)] /\ tmp' \in [Tablas -> Seq(Archivo)]
    BY <1>4, <2>1 DEF Renombrar, TypeOK
  <2>3. comp' \in [Tablas -> EstadosDeCompactacion]
    BY <1>4, <1>b DEF Renombrar, PcDeCompactacion
  <2> QED BY <1>4, <2>2, <2>3 DEF Renombrar, TypeOK, historia
<1>5. CASE Mezclar(t)
  <2>1. RegistrosDe(tmpc[t]) \in SUBSET Registro
    BY RegistrosBienTipados DEF TypeOK
  <2>2. PICK m \in Mezclas(RegistrosDe(tmpc[t]), bin[t]) :
          comp' = [comp EXCEPT ![t] =
                     [pc |-> "bloqueando2", i |-> 1, nuevos |-> m,
                      porGuardar |-> Tocadas(RegistrosDe(tmpc[t]))]]
    BY <1>5 DEF Mezclar
  <2>3. m \in [Particiones -> Seq(Registro)]
    <3> DEFINE S == RegistrosDe(tmpc[t])
               b == bin[t]
    <3>1. b \in [Particiones -> Archivo]
      BY DEF TypeOK
    <3> HIDE DEF S, b
    <3>2. \A n \in Mezclas(S, b) : n \in [Particiones -> Seq(Registro)]
      BY <2>1, <3>1, MezclaCubre DEF S
    <3> QED BY <3>2 DEF S, b
  <2>4. Tocadas(RegistrosDe(tmpc[t])) \subseteq Particiones
    BY <2>1, ParticionDeClave DEF Tocadas, Registro
  <2>5. comp' \in [Tablas -> EstadosDeCompactacion]
    BY <1>a, <2>2, <2>3, <2>4 DEF TypeOK, EstadosDeCompactacion, PcDeCompactacion
  <2> QED BY <1>5, <2>5 DEF Mezclar, TypeOK, archivos, historia
<1>6. CASE NadaQueCompactar(t)
  <2>1. comp' \in [Tablas -> EstadosDeCompactacion]
    BY <1>6, <1>b DEF NadaQueCompactar, PcDeCompactacion
  <2> QED BY <1>6, <2>1 DEF NadaQueCompactar, TypeOK, archivos, historia
<1>7. CASE LiberarBloques(t)
  <2> DEFINE nuevoBin ==
               [p \in Particiones |->
                  IF p \in k.porGuardar
                    THEN [registros |-> <<>>, bloques |-> bin[t][p].bloques]
                    ELSE bin[t][p]]
  <2>1. nuevoBin \in [Particiones -> Archivo]
    BY DEF Archivo, TypeOK
  <2> HIDE DEF nuevoBin
  <2>2. bin' \in [Tablas -> [Particiones -> Archivo]]
    BY <1>7, <2>1 DEF LiberarBloques, TypeOK, nuevoBin
  <2>3. tmpc' \in [Tablas -> Seq(Archivo)] /\ bitmap' \subseteq Bloques
    BY <1>7 DEF LiberarBloques, TypeOK
  <2>4. comp' \in [Tablas -> EstadosDeCompactacion]
    <3>1. [k EXCEPT !.pc = "guardando"] \in EstadosDeCompactacion
      BY <1>0 DEF EstadosDeCompactacion, PcDeCompactacion
    <3>2. comp' = [comp EXCEPT ![t] = [k EXCEPT !.pc = "guardando"]]
      BY <1>7 DEF LiberarBloques, TypeOK
    <3> QED BY <3>1, <3>2 DEF TypeOK
  <2> QED BY <1>7, <2>2, <2>3, <2>4 DEF LiberarBloques, TypeOK, historia
<1>8. ASSUME NEW p \in Particiones, GuardarParticion(t, p)
      PROVE  TypeOK'
  <2> DEFINE archivo == ArchivoEscrito(k.nuevos[p])
  <2>1. archivo \in Archivo /\ archivo.bloques \subseteq Bloques
    BY <1>0, ArchivoEscritoEsArchivo DEF Archivo
  <2> HIDE DEF archivo
  <2>2. bin' \in [Tablas -> [Particiones -> Archivo]] /\ bitmap' \subseteq Bloques
    BY <1>8, <2>1 DEF GuardarParticion, TypeOK, archivo
  <2>3. sinBloques' \in BOOLEAN
    BY <1>8, Zenon DEF GuardarParticion
  <2>4. comp' \in [Tablas -> EstadosDeCompactacion]
    <3> DEFINE m == [k.nuevos EXCEPT ![p] = <<>>]
               k2 == [k EXCEPT !.nuevos = m, !.porGuardar = @ \ {p}]
    <3>1. m \in [Particiones -> Seq(Registro)]
      BY <1>0
    <3>2. comp' = [comp EXCEPT ![t] = k2]
      BY <1>8, Zenon DEF GuardarParticion, TypeOK
    <3> HIDE DEF m
    <3>3. k2 \in EstadosDeCompactacion
      BY <1>0, <3>1 DEF EstadosDeCompactacion
    <3> QED BY <3>2, <3>3 DEF TypeOK
  <2> QED BY <1>8, <2>2, <2>3, <2>4 DEF GuardarParticion, TypeOK, historia
<1>9. CASE Guardado(t)
  <2>1. comp' \in [Tablas -> EstadosDeCompactacion]
    BY <1>9, <1>b DEF Guardado, PcDeCompactacion
  <2> QED BY <1>9, <2>1 DEF Guardado, TypeOK, archivos, historia
<1>10. CASE TerminarCompactacion(t)
  <2>1. comp' \in [Tablas -> EstadosDeCompactacion]
    BY <1>10, <1>b DEF TerminarCompactacion, PcDeCompactacion
  <2> QED BY <1>10, <2>1 DEF TerminarCompactacion, TypeOK, archivos, historia
<1> QED BY <1>1, <1>2, <1>3, <1>4, <1>5, <1>6, <1>7, <1>8, <1>9, <1>10
        DEF AccionesDeCompactacion

LEMMA TypeOKInductivo == TypeOK /\ [Next]_vars => TypeOK'
<1> SUFFICES ASSUME TypeOK, [Next]_vars PROVE TypeOK'
  OBVIOUS
<1>1. CASE UNCHANGED vars
  BY <1>1 DEF TypeOK, vars, archivos, historia
<1>2. CASE Next
  <2>1. CASE Caido
    BY <2>1, <1>1 DEF Caido
  <2> QED BY <1>2, <2>1, TypeOKAccionesDeCliente, TypeOKAccionesDeDump,
             TypeOKAccionesDeCompactacion DEF Next
<1> QED BY <1>1, <1>2

\* Every reachable state is well typed: no block beyond the end of the disk, no
\* index beyond the list of mutexes, whatever the interleaving.
THEOREM TiposCorrectos == Spec => []TypeOK
BY InitTypeOK, TypeOKInductivo, PTL DEF Spec

------------------------------------------------------------------------------
(* Mutual exclusion.                                                       *)

\* The ids of a table's list are those of the clients and the dump, once each.
LEMMA Cosas ==
  /\ Len(CosasABloquear) \in Nat
  /\ \A j \in 1..Len(CosasABloquear) : CosasABloquear[j] \in Ids
  /\ \A id \in Ids : \E j \in 1..Len(CosasABloquear) : CosasABloquear[j] = id
  /\ \A i, j \in 1..Len(CosasABloquear) :
       CosasABloquear[i] = CosasABloquear[j] => i = j
<1>1. CosasABloquear \in Seq(Ids)
  BY CosasAssumption
<1>2. DOMAIN CosasABloquear = 1..Len(CosasABloquear)
  BY <1>1
<1>3. \A id \in Ids : \E j \in 1..Len(CosasABloquear) : CosasABloquear[j] = id
  BY <1>2, CosasAssumption, Zenon DEF Range
<1>4. \A i, j \in 1..Len(CosasABloquear) :
        CosasABloquear[i] = CosasABloquear[j] => i = j
  BY <1>2, CosasAssumption DEF IsInjective
<1> QED BY <1>1, <1>3, <1>4

\* A state in which no thread has changed its position nor a mutex satisfies
\* the invariant still.
LEMMA MutexInvSinCambios ==
  ASSUME MutexInv, UNCHANGED <<mutex, dump>>,
         \A t \in Tablas : comp'[t].pc = comp[t].pc /\ comp'[t].i = comp[t].i,
         \A t \in Tablas, c \in Clientes : Leyendo(c, t)' => Leyendo(c, t)
  PROVE  MutexInv'
BY DEF MutexInv, TmpIncompleto, EnPoderDelCompactador

LEMMA MutexInvAccionesDeCliente ==
  ASSUME TypeOK, MutexInv, NEW c \in Clientes, AccionesDeCliente(c)
  PROVE  MutexInv'
<1> DEFINE t0 == sel[c].tabla
<1>0. /\ t0 \in Tablas /\ c \in Ids /\ c # IdDump
      /\ mutex \in [Tablas -> [Ids -> EstadosDeMutex]]
      /\ sel \in [Clientes -> EstadosDeSelect]
  BY IdDumpAssumption DEF TypeOK, EstadosDeSelect, Ids
<1>a. ASSUME UNCHANGED <<mutex, dump, comp>>,
             \A t \in Tablas, d \in Clientes : Leyendo(d, t)' => Leyendo(d, t)
      PROVE  MutexInv'
  BY <1>a, MutexInvSinCambios
<1>1. ASSUME NEW t \in Tablas, NEW r \in Registro, Insertar(c, t, r)
      PROVE  MutexInv'
  BY <1>1, <1>a DEF Insertar, Leyendo
<1>2. ASSUME NEW t \in Tablas, NEW k \in Claves, PedirSelect(c, t, k)
      PROVE  MutexInv'
  <2>1. \A d \in Clientes : d # c => sel'[d] = sel[d]
    BY <1>0, <1>2 DEF PedirSelect
  <2>2. sel'[c].pc = "pedido"
    BY <1>0, <1>2 DEF PedirSelect, Ocioso
  <2> QED BY <1>2, <1>a, <2>1, <2>2 DEF PedirSelect, Leyendo
<1>3. CASE LeerMemtable(c)
  <2>1. \A d \in Clientes : d # c => sel'[d] = sel[d]
    BY <1>0, <1>3 DEF LeerMemtable
  <2>2. sel'[c].pc = "esperaMutex"
    BY <1>0, <1>3 DEF LeerMemtable, EstadosDeSelect
  <2> QED BY <1>3, <1>a, <2>1, <2>2 DEF LeerMemtable, Leyendo
<1>4. CASE BloquearPropio(c)
  <2>1. \A d \in Clientes : d # c => sel'[d] = sel[d]
    BY <1>0, <1>4 DEF BloquearPropio
  <2>2. sel'[c].tabla = t0
    BY <1>0, <1>4 DEF BloquearPropio, EstadosDeSelect
  <2>3. /\ mutex[t0][c] = "libre"
        /\ mutex'[t0][c] = "propio"
        /\ \A t \in Tablas, id \in Ids :
             <<t, id>> # <<t0, c>> => mutex'[t][id] = mutex[t][id]
    BY <1>0, <1>4 DEF BloquearPropio
  <2>4. ASSUME NEW t \in Tablas, NEW d \in Clientes, Leyendo(d, t)'
        PROVE  mutex'[t][d] = "propio"
    BY <2>1, <2>2, <2>3, <2>4 DEF MutexInv, Leyendo, Ids
  <2>5. ASSUME NEW t \in Tablas, TmpIncompleto(t)'
        PROVE  mutex'[t][IdDump] = "propio"
    BY <1>0, <1>4, <2>3, <2>5 DEF MutexInv, TmpIncompleto, BloquearPropio, Ids
  <2>6. ASSUME NEW t \in Tablas, NEW j \in 1..Len(CosasABloquear),
               EnPoderDelCompactador(t, j)'
        PROVE  mutex'[t][CosasABloquear[j]] = "compactador"
    <3>1. EnPoderDelCompactador(t, j)
      BY <1>4, <2>6 DEF BloquearPropio, EnPoderDelCompactador
    <3>2. mutex[t][CosasABloquear[j]] = "compactador" /\ CosasABloquear[j] \in Ids
      BY <3>1, Cosas DEF MutexInv
    <3> QED BY <2>3, <3>2
  <2> QED BY <2>4, <2>5, <2>6 DEF MutexInv
<1>5. CASE LeerTmp(c)
  <2>1. \A d \in Clientes : d # c => sel'[d] = sel[d]
    BY <1>0, <1>5 DEF LeerTmp
  <2>2. sel'[c].tabla = t0 /\ sel[c].pc = "leeTmp"
    BY <1>0, <1>5 DEF LeerTmp, EstadosDeSelect
  <2> QED BY <1>5, <1>a, <2>1, <2>2 DEF LeerTmp, Leyendo
<1>6. CASE LeerTmpIncompleto(c)
  BY <1>6, <1>a DEF LeerTmpIncompleto, Leyendo
<1>7. CASE LeerParticion(c)
  <2>1. \A d \in Clientes : d # c => sel'[d] = sel[d]
    BY <1>0, <1>7 DEF LeerParticion
  <2>2. sel'[c].tabla = t0 /\ sel[c].pc = "leeParticion"
    BY <1>0, <1>7 DEF LeerParticion, EstadosDeSelect
  <2> QED BY <1>7, <1>a, <2>1, <2>2 DEF LeerParticion, Leyendo
<1>8. CASE Responder(c)
  <2>1. \A d \in Clientes : d # c => sel'[d] = sel[d]
    BY <1>0, <1>8 DEF Responder
  <2>2. sel'[c].pc = "respondido"
    BY <1>0, <1>8 DEF Responder, EstadosDeSelect
  <2>3. /\ mutex[t0][c] = "propio"
        /\ \A t \in Tablas, id \in Ids :
             <<t, id>> # <<t0, c>> => mutex'[t][id] = mutex[t][id]
    BY <1>0, <1>8 DEF Responder, MutexInv, Leyendo
  <2>4. ASSUME NEW t \in Tablas, NEW d \in Clientes, Leyendo(d, t)'
        PROVE  mutex'[t][d] = "propio"
    BY <2>1, <2>2, <2>3, <2>4 DEF MutexInv, Leyendo, Ids
  <2>5. ASSUME NEW t \in Tablas, TmpIncompleto(t)'
        PROVE  mutex'[t][IdDump] = "propio"
    BY <1>0, <1>8, <2>3, <2>5 DEF MutexInv, TmpIncompleto, Responder, Ids
  <2>6. ASSUME NEW t \in Tablas, NEW j \in 1..Len(CosasABloquear),
               EnPoderDelCompactador(t, j)'
        PROVE  mutex'[t][CosasABloquear[j]] = "compactador"
    <3>1. EnPoderDelCompactador(t, j)
      BY <1>8, <2>6 DEF Responder, EnPoderDelCompactador
    <3>2. mutex[t][CosasABloquear[j]] = "compactador" /\ CosasABloquear[j] \in Ids
      BY <3>1, Cosas DEF MutexInv
    <3> QED BY <2>3, <3>2
  <2> QED BY <2>4, <2>5, <2>6 DEF MutexInv
<1>9. CASE Enviar(c)
  <2>1. \A d \in Clientes : d # c => sel'[d] = sel[d]
    BY <1>0, <1>9 DEF Enviar
  <2>2. sel'[c].pc = "ocioso"
    BY <1>0, <1>9 DEF Enviar, Ocioso
  <2> QED BY <1>9, <1>a, <2>1, <2>2 DEF Enviar, Leyendo
<1> QED BY <1>1, <1>2, <1>3, <1>4, <1>5, <1>6, <1>7, <1>8, <1>9
        DEF AccionesDeCliente

LEMMA MutexInvAccionesDeDump ==
  TypeOK /\ MutexInv /\ AccionesDeDump => MutexInv'
<1> SUFFICES ASSUME TypeOK, MutexInv, AccionesDeDump PROVE MutexInv'
  OBVIOUS
<1>0. /\ IdDump \in Ids /\ \A c \in Clientes : c \in Ids /\ c # IdDump
      /\ mutex \in [Tablas -> [Ids -> EstadosDeMutex]]
      /\ dump \in EstadosDeDump /\ dump.tabla \in Tablas
  BY IdDumpAssumption DEF TypeOK, EstadosDeDump, Ids
\* A step that changes no mutex but the dump's one of a table.
<1>a. ASSUME NEW t0 \in Tablas,
             mutex[t0][IdDump] # "compactador",
             \A t \in Tablas, id \in Ids :
               <<t, id>> # <<t0, IdDump>> => mutex'[t][id] = mutex[t][id],
             \A t \in Tablas : TmpIncompleto(t)' => mutex'[t][IdDump] = "propio",
             UNCHANGED <<sel, comp>>
      PROVE  MutexInv'
  <2>1. ASSUME NEW t \in Tablas, NEW d \in Clientes, Leyendo(d, t)'
        PROVE  mutex'[t][d] = "propio"
    BY <1>0, <1>a, <2>1 DEF MutexInv, Leyendo
  <2>2. ASSUME NEW t \in Tablas, NEW j \in 1..Len(CosasABloquear),
               EnPoderDelCompactador(t, j)'
        PROVE  mutex'[t][CosasABloquear[j]] = "compactador"
    <3>1. EnPoderDelCompactador(t, j)
      BY <1>a, <2>2 DEF EnPoderDelCompactador
    <3>2. mutex[t][CosasABloquear[j]] = "compactador" /\ CosasABloquear[j] \in Ids
      BY <3>1, Cosas DEF MutexInv
    <3> QED BY <1>a, <3>2
  <2> QED BY <1>a, <2>1, <2>2 DEF MutexInv
<1>1. CASE ComenzarDump
  <2>1. \A t \in Tablas : ~TmpIncompleto(t)'
    BY <1>0, <1>1 DEF ComenzarDump, TmpIncompleto, EstadosDeDump
  <2> QED BY <1>1, <2>1
          DEF ComenzarDump, MutexInv, Leyendo, EnPoderDelCompactador
<1>2. ASSUME NEW t0 \in Tablas, AbrirTmp(t0)
      PROVE  MutexInv'
  <2>1. /\ mutex[t0][IdDump] = "libre"
        /\ mutex'[t0][IdDump] = "propio"
        /\ \A t \in Tablas, id \in Ids :
             <<t, id>> # <<t0, IdDump>> => mutex'[t][id] = mutex[t][id]
    BY <1>0, <1>2 DEF AbrirTmp
  <2>2. \A t \in Tablas : TmpIncompleto(t)' => t = t0
    BY <1>0, <1>2 DEF AbrirTmp, TmpIncompleto, EstadosDeDump
  <2> QED BY <1>2, <1>a, <2>1, <2>2 DEF AbrirTmp
<1>3. CASE EscribirTmp
  <2>1. /\ mutex[dump.tabla][IdDump] = "propio"
        /\ \A t \in Tablas, id \in Ids :
             <<t, id>> # <<dump.tabla, IdDump>> => mutex'[t][id] = mutex[t][id]
    BY <1>0, <1>3 DEF EscribirTmp, MutexInv, TmpIncompleto
  <2>2. \A t \in Tablas : ~TmpIncompleto(t)'
    BY <1>0, <1>3 DEF EscribirTmp, TmpIncompleto, EstadosDeDump
  <2> QED BY <1>0, <1>3, <1>a, <2>1, <2>2 DEF EscribirTmp
<1>4. CASE TerminarDump
  <2>1. \A t \in Tablas : ~TmpIncompleto(t)'
    BY <1>0, <1>4 DEF TerminarDump, TmpIncompleto, EstadosDeDump
  <2> QED BY <1>4, <2>1
          DEF TerminarDump, MutexInv, Leyendo, EnPoderDelCompactador
<1>5. ASSUME NEW t0 \in Tablas, SaltearTabla(t0)
      PROVE  MutexInv'
  <2>1. \A t \in Tablas : ~TmpIncompleto(t)'
    BY <1>0, <1>5 DEF SaltearTabla, TmpIncompleto, EstadosDeDump
  <2> QED BY <1>5, <2>1
          DEF SaltearTabla, MutexInv, Leyendo, EnPoderDelCompactador
<1> QED BY <1>1, <1>2, <1>3, <1>4, <1>5 DEF AccionesDeDump

LEMMA MutexInvAccionesDeCompactacion ==
  ASSUME TypeOK, MutexInv, NEW t0 \in Tablas, AccionesDeCompactacion(t0)
  PROVE  MutexInv'
<1> DEFINE k == comp[t0]
           n == Len(CosasABloquear)
<1>0. /\ comp \in [Tablas -> EstadosDeCompactacion]
      /\ k.i \in 1..(n + 1) /\ n \in Nat
      /\ mutex \in [Tablas -> [Ids -> EstadosDeMutex]]
      /\ \A c \in Clientes : c \in Ids /\ IdDump \in Ids
  BY Cosas DEF TypeOK, EstadosDeCompactacion, Ids
\* A step that changes no mutex and gives the compactor none.
<1>a. ASSUME UNCHANGED <<mutex, sel, dump>>,
             \A t \in Tablas : t # t0 => comp'[t] = comp[t],
             \A j \in 1..n :
               EnPoderDelCompactador(t0, j)' => EnPoderDelCompactador(t0, j)
      PROVE  MutexInv'
  <2>1. \A t \in Tablas, j \in 1..n :
          EnPoderDelCompactador(t, j)' => EnPoderDelCompactador(t, j)
    BY <1>a DEF EnPoderDelCompactador
  <2> QED BY <1>a, <2>1 DEF MutexInv, Leyendo, TmpIncompleto
<1>1. CASE ComenzarCompactacion(t0)
  <2>1. comp'[t0].pc = "bloqueando1" /\ comp'[t0].i = 1
    BY <1>0, <1>1 DEF ComenzarCompactacion, EstadosDeCompactacion
  <2> QED BY <1>0, <1>1, <1>a, <2>1 DEF ComenzarCompactacion, EnPoderDelCompactador
<1>2. CASE Bloquear(t0)
  <2> DEFINE id == CosasABloquear[k.i]
  <2>1. k.i \in 1..n /\ id \in Ids
    BY <1>0, <1>2, Cosas DEF Bloquear, FinDeLista
  <2>2. /\ comp'[t0].pc = k.pc /\ comp'[t0].i = k.i + 1
        /\ k.pc \in {"bloqueando1", "bloqueando2"}
        /\ \A t \in Tablas : t # t0 => comp'[t] = comp[t]
    BY <1>0, <1>2 DEF Bloquear, EstadosDeCompactacion
  <2>3. /\ mutex[t0][id] = "libre"
        /\ mutex'[t0][id] = "compactador"
        /\ \A t \in Tablas, x \in Ids :
             <<t, x>> # <<t0, id>> => mutex'[t][x] = mutex[t][x]
    BY <1>0, <1>2, <2>1 DEF Bloquear
  <2>4. ASSUME NEW t \in Tablas, NEW d \in Clientes, Leyendo(d, t)'
        PROVE  mutex'[t][d] = "propio"
    BY <1>0, <1>2, <2>3, <2>4 DEF Bloquear, MutexInv, Leyendo
  <2>5. ASSUME NEW t \in Tablas, TmpIncompleto(t)'
        PROVE  mutex'[t][IdDump] = "propio"
    BY <1>0, <1>2, <2>3, <2>5 DEF Bloquear, MutexInv, TmpIncompleto, Ids
  <2>6. ASSUME NEW t \in Tablas, NEW j \in 1..n, EnPoderDelCompactador(t, j)'
        PROVE  mutex'[t][CosasABloquear[j]] = "compactador"
    <3>1. CASE t = t0 /\ j = k.i
      BY <2>3, <3>1
    <3>2. CASE ~(t = t0 /\ j = k.i)
      <4>1. EnPoderDelCompactador(t, j)
        BY <1>0, <2>1, <2>2, <2>6, <3>2 DEF EnPoderDelCompactador
      <4>2. mutex[t][CosasABloquear[j]] = "compactador" /\ CosasABloquear[j] \in Ids
        BY <4>1, Cosas DEF MutexInv
      <4> QED BY <2>3, <4>2
    <3> QED BY <3>1, <3>2
  <2> QED BY <2>4, <2>5, <2>6 DEF MutexInv
<1>3. CASE Desbloquear(t0)
  <2> DEFINE id == CosasABloquear[k.i]
  <2>1. k.i \in 1..n /\ id \in Ids
    BY <1>0, <1>3, Cosas DEF Desbloquear, FinDeLista
  <2>2. /\ comp'[t0].pc = k.pc /\ comp'[t0].i = k.i + 1
        /\ k.pc \in {"desbloqueando1", "desbloqueando2"}
        /\ \A t \in Tablas : t # t0 => comp'[t] = comp[t]
    BY <1>0, <1>3 DEF Desbloquear, EstadosDeCompactacion
  <2>3. mutex[t0][id] = "compactador"
    BY <1>0, <2>1, <2>2 DEF MutexInv, EnPoderDelCompactador
  <2>4. \A t \in Tablas, x \in Ids :
          <<t, x>> # <<t0, id>> => mutex'[t][x] = mutex[t][x]
    BY <1>0, <1>3, <2>1 DEF Desbloquear
  <2>5. ASSUME NEW t \in Tablas, NEW d \in Clientes, Leyendo(d, t)'
        PROVE  mutex'[t][d] = "propio"
    BY <1>0, <1>3, <2>3, <2>4, <2>5 DEF Desbloquear, MutexInv, Leyendo
  <2>6. ASSUME NEW t \in Tablas, TmpIncompleto(t)'
        PROVE  mutex'[t][IdDump] = "propio"
    BY <1>0, <1>3, <2>3, <2>4, <2>6 DEF Desbloquear, MutexInv, TmpIncompleto, Ids
  <2>7. ASSUME NEW t \in Tablas, NEW j \in 1..n, EnPoderDelCompactador(t, j)'
        PROVE  mutex'[t][CosasABloquear[j]] = "compactador"
    <3>1. EnPoderDelCompactador(t, j) /\ ~(t = t0 /\ j = k.i)
      BY <1>0, <2>1, <2>2, <2>7 DEF EnPoderDelCompactador
    <3>2. mutex[t][CosasABloquear[j]] = "compactador" /\ CosasABloquear[j] \in Ids
      BY <3>1, Cosas DEF MutexInv
    <3>3. ~(t = t0 /\ CosasABloquear[j] = id)
      BY <2>1, <3>1, Cosas
    <3> QED BY <2>4, <3>2, <3>3
  <2> QED BY <2>5, <2>6, <2>7 DEF MutexInv
<1>4. CASE Renombrar(t0)
  <2>1. \A j \in 1..n : EnPoderDelCompactador(t0, j)
    BY <1>0, <1>4 DEF Renombrar, FinDeLista, EnPoderDelCompactador
  <2> QED BY <1>0, <1>4, <1>a, <2>1 DEF Renombrar
<1>5. CASE Mezclar(t0)
  <2>1. comp'[t0].pc = "bloqueando2" /\ comp'[t0].i = 1
    BY <1>0, <1>5 DEF Mezclar
  <2> QED BY <1>0, <1>5, <1>a, <2>1 DEF Mezclar, EnPoderDelCompactador
<1>6. CASE NadaQueCompactar(t0)
  <2>1. comp'[t0].pc = "dormido"
    BY <1>0, <1>6 DEF NadaQueCompactar, EstadosDeCompactacion
  <2> QED BY <1>0, <1>6, <1>a, <2>1 DEF NadaQueCompactar, EnPoderDelCompactador
<1>7. CASE LiberarBloques(t0)
  <2>1. \A j \in 1..n : EnPoderDelCompactador(t0, j)
    BY <1>0, <1>7 DEF LiberarBloques, FinDeLista, EnPoderDelCompactador
  <2> QED BY <1>0, <1>7, <1>a, <2>1 DEF LiberarBloques
<1>8. ASSUME NEW p \in Particiones, GuardarParticion(t0, p)
      PROVE  MutexInv'
  <2>1. \A j \in 1..n : EnPoderDelCompactador(t0, j)
    BY <1>8 DEF GuardarParticion, EnPoderDelCompactador
  <2> QED BY <1>0, <1>8, <1>a, <2>1 DEF GuardarParticion
<1>9. CASE Guardado(t0)
  <2>1. \A j \in 1..n : EnPoderDelCompactador(t0, j)
    BY <1>9 DEF Guardado, EnPoderDelCompactador
  <2> QED BY <1>0, <1>9, <1>a, <2>1 DEF Guardado
<1>10. CASE TerminarCompactacion(t0)
  <2>1. comp'[t0].pc = "dormido"
    BY <1>0, <1>10 DEF TerminarCompactacion, EstadosDeCompactacion
  <2> QED BY <1>0, <1>10, <1>a, <2>1 DEF TerminarCompactacion, EnPoderDelCompactador
<1> QED BY <1>1, <1>2, <1>3, <1>4, <1>5, <1>6, <1>7, <1>8, <1>9, <1>10
        DEF AccionesDeCompactacion

\* Holding every mutex of the list shuts out the clients and the dump.
LEMMA ExclusionDeMutexInv == TypeOK /\ MutexInv => Exclusion
<1> SUFFICES ASSUME TypeOK, MutexInv, NEW t \in Tablas, Reescribiendo(t)
             PROVE  ~TmpIncompleto(t) /\ \A c \in Clientes : ~Leyendo(c, t)
  BY DEF Exclusion
<1>1. \A j \in 1..Len(CosasABloquear) : EnPoderDelCompactador(t, j)
  BY Cosas DEF Reescribiendo, FinDeLista, EnPoderDelCompactador, TypeOK,
               EstadosDeCompactacion
<1>2. \A id \in Ids : mutex[t][id] = "compactador"
  BY <1>1, Cosas DEF MutexInv
<1> QED BY <1>2 DEF MutexInv, Ids

LEMMA MutexInvInductivo ==
  /\ Init => MutexInv
  /\ TypeOK /\ MutexInv /\ [Next]_vars => MutexInv'
<1>1. Init => MutexInv
  BY DEF Init, MutexInv, Leyendo, TmpIncompleto, EnPoderDelCompactador, Ocioso
<1>2. TypeOK /\ MutexInv /\ [Next]_vars => MutexInv'
  <2> SUFFICES ASSUME TypeOK, MutexInv, [Next]_vars PROVE MutexInv'
    OBVIOUS
  <2>1. CASE UNCHANGED vars
    BY <2>1 DEF vars, MutexInv, Leyendo, TmpIncompleto, EnPoderDelCompactador
  <2>2. CASE Next
    <3>1. CASE Caido
      BY <3>1, <2>1 DEF Caido
    <3> QED BY <2>2, <3>1, MutexInvAccionesDeCliente, MutexInvAccionesDeDump,
               MutexInvAccionesDeCompactacion DEF Next
  <2> QED BY <2>1, <2>2
<1> QED BY <1>1, <1>2

\* While the compactor renames, frees or rewrites the files of a table nobody
\* reads them and no dump is half way through a .tmp of it, however many
\* clients there are and in whatever order they are registered.
THEOREM ExclusionMutua == Spec => []Exclusion
<1>1. Init => TypeOK /\ MutexInv
  BY InitTypeOK, MutexInvInductivo
<1>2. TypeOK /\ MutexInv /\ [Next]_vars => (TypeOK /\ MutexInv)'
  BY TypeOKInductivo, MutexInvInductivo
<1>3. TypeOK /\ MutexInv => Exclusion
  BY ExclusionDeMutexInv
<1> QED BY <1>1, <1>2, <1>3, PTL DEF Spec

==============================================================================
