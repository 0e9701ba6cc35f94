-------------------------- MODULE LFS_datos_proofs --------------------------
(***************************************************************************)
(* What module LFS keeps and answers: nothing is invented, nothing         *)
(* acknowledged is lost, no SELECT answers with something older than it    *)
(* owes, and therefore LFS implements TablaAbstracta.  And what dump and   *)
(* compaction leave on the disk: the bitmap is exact, and the first record *)
(* of a key in a partition is its newest.                                  *)
(***************************************************************************)
EXTENDS LFS, LFS_proofs

------------------------------------------------------------------------------
(* Records and timestamps.                                                 *)

LEMMA TimestampsSonEnteros ==
  /\ \A d \in Timestamps : d \in Int
  /\ \A r \in Registro : r.timestamp \in Int /\ r.timestamp \in Timestamps
BY TimestampsAssumption DEF Timestamps, Registro

LEMMA CubreReflexiva ==
  ASSUME NEW S \in SUBSET Registro, NEW r \in S
  PROVE  Cubre(S, r)
<1>1. r.timestamp \in Int
  BY TimestampsSonEnteros
<1>2. r.timestamp >= r.timestamp
  BY <1>1
<1> QED BY <1>2 DEF Cubre

LEMMA CubreTransitiva ==
  ASSUME NEW A \in SUBSET Registro, NEW B \in SUBSET Registro,
         \A q \in A : Cubre(B, q),
         NEW r \in Registro, Cubre(A, r)
  PROVE  Cubre(B, r)
<1>1. PICK q \in A : q.key = r.key /\ q.timestamp >= r.timestamp
  BY DEF Cubre
<1>2. PICK x \in B : x.key = q.key /\ x.timestamp >= q.timestamp
  BY DEF Cubre
<1>3. x.timestamp \in Int /\ q.timestamp \in Int /\ r.timestamp \in Int
  BY TimestampsSonEnteros
<1>4. x.timestamp >= r.timestamp
  BY <1>1, <1>2, <1>3
<1> QED BY <1>1, <1>2, <1>4 DEF Cubre

\* Whoever can see a timestamp in A can see one as high in what covers A.
LEMMA VistoEnCobertura ==
  ASSUME NEW A \in SUBSET Registro, NEW B \in SUBSET Registro,
         \A q \in A : Cubre(B, q),
         NEW k, NEW d \in Timestamps,
         NEW x \in TimestampsDe(A, k), x >= d
  PROVE  \E y \in TimestampsDe(B, k) : y >= d
<1>1. PICK q \in A : q.key = k /\ q.timestamp = x
  BY DEF TimestampsDe
<1>2. PICK r \in B : r.key = k /\ r.timestamp >= x
  BY <1>1 DEF Cubre
<1>3. r.timestamp \in TimestampsDe(B, k)
  BY <1>2 DEF TimestampsDe
<1>4. r.timestamp \in Int /\ x \in Int /\ d \in Int
  BY <1>1, TimestampsSonEnteros
<1>5. r.timestamp >= d
  BY <1>2, <1>4
<1> QED BY <1>3, <1>5

LEMMA TimestampsDeCrece ==
  ASSUME NEW A, NEW B, A \subseteq B, NEW k
  PROVE  TimestampsDe(A, k) \subseteq TimestampsDe(B, k)
BY DEF TimestampsDe

\* Every place where records are is well typed.
DatosDeRegistros(t) ==
  /\ Range(memtable[t]) \in SUBSET Registro
  /\ EnTemporales(t) \in SUBSET Registro
  /\ RegistrosDe(tmp[t]) \in SUBSET Registro
  /\ RegistrosDe(tmpc[t]) \in SUBSET Registro
  /\ EnParticiones(t) \in SUBSET Registro
  /\ EnPreparacion(t) \in SUBSET Registro
  /\ EnArchivos(t) \in SUBSET Registro
  /\ EnTabla(t) \in SUBSET Registro
  /\ Datos(t) \in SUBSET Registro

LEMMA DatosBienTipados == TypeOK => \A t \in Tablas : DatosDeRegistros(t)
<1> SUFFICES ASSUME TypeOK, NEW t \in Tablas PROVE DatosDeRegistros(t)
  OBVIOUS
<1>1. Range(memtable[t]) \in SUBSET Registro
  BY RangoDeSecuencia DEF TypeOK
<1>2. RegistrosDe(tmp[t]) \in SUBSET Registro /\ RegistrosDe(tmpc[t]) \in SUBSET Registro
  BY RegistrosBienTipados DEF TypeOK
<1>3. EnTemporales(t) \in SUBSET Registro
  BY <1>2 DEF EnTemporales
<1>4. EnParticiones(t) \in SUBSET Registro
  <2>1. ASSUME NEW p \in Particiones
        PROVE  Range(bin[t][p].registros) \subseteq Registro
    <3>1. bin[t][p].registros \in Seq(Registro)
      BY DEF TypeOK, Archivo
    <3> QED BY <3>1, RangoDeSecuencia
  <2> QED BY <2>1 DEF EnParticiones
<1>5. EnPreparacion(t) \in SUBSET Registro
  <2>1. ASSUME NEW p \in Particiones
        PROVE  Range(comp[t].nuevos[p]) \subseteq Registro
    <3>1. comp[t].nuevos[p] \in Seq(Registro)
      BY DEF TypeOK, EstadosDeCompactacion
    <3> QED BY <3>1, RangoDeSecuencia
  <2> QED BY <2>1 DEF EnPreparacion
<1>6. EnArchivos(t) \in SUBSET Registro
  BY <1>3, <1>4, <1>5 DEF EnArchivos, EnVuelo
<1> QED BY <1>1, <1>2, <1>3, <1>4, <1>5, <1>6 DEF EnTabla, Datos, DatosDeRegistros

LEMMA DatosBienTipadosDespues == TypeOK' => (\A t \in Tablas : DatosDeRegistros(t))'
BY DatosBienTipados, PTL

------------------------------------------------------------------------------
(* Nothing is invented.                                                    *)

\* What a dump adds to the temporaries of a table.
LEMMA EnTemporalesTrasEscribir ==
  ASSUME TypeOK, EscribirTmp, NEW t \in Tablas
  PROVE  /\ EnTemporales(t) \subseteq EnTemporales(t)'
         /\ EnTemporales(t)' \subseteq EnTemporales(t) \cup Range(memtable[t])
         /\ ~sinBloques' /\ t = dump.tabla =>
              Range(memtable[t]) \subseteq EnTemporales(t)'
<1> DEFINE archivo == ArchivoEscrito(memtable[t])
<1>1. CASE t # dump.tabla
  BY <1>1 DEF EscribirTmp, EnTemporales, TypeOK
<1>2. CASE t = dump.tabla
  <2>1. /\ archivo \in Archivo
        /\ Range(archivo.registros) \subseteq Range(memtable[t])
        /\ ~FaltanBloques(memtable[t]) => archivo.registros = memtable[t]
    BY ArchivoEscritoEsArchivo DEF TypeOK
  <2> HIDE DEF archivo
  <2>2. tmp'[t] = Append(tmp[t], archivo) /\ tmpc' = tmpc
    BY <1>2 DEF EscribirTmp, TypeOK, archivo
  <2>3. RegistrosDe(Append(tmp[t], archivo)) =
          RegistrosDe(tmp[t]) \cup Range(archivo.registros)
    BY <2>1, RegistrosDeAppend DEF TypeOK
  <2>4. ~sinBloques' => ~FaltanBloques(memtable[t])
    BY <1>2, Zenon DEF EscribirTmp
  <2> QED BY <2>1, <2>2, <2>3, <2>4 DEF EnTemporales
<1> QED BY <1>1, <1>2

\* A step moves records about and inserts others, no more.
LEMMA DatosNoAparecen ==
  ASSUME TypeOK, [Next]_vars, NEW t \in Tablas
  PROVE  /\ insertados[t] \subseteq insertados'[t]
         /\ Datos(t)' \subseteq Datos(t) \cup insertados'[t]
<1>a. ASSUME UNCHANGED <<memtable, tmp, tmpc, bin, insertados>>,
             comp'[t].nuevos = comp[t].nuevos
      PROVE  /\ insertados[t] \subseteq insertados'[t]
             /\ Datos(t)' \subseteq Datos(t) \cup insertados'[t]
  BY <1>a DEF Datos, EnTemporales, EnParticiones, EnPreparacion
<1>1. CASE UNCHANGED vars
  BY <1>1, <1>a DEF vars, archivos, historia
<1>2. ASSUME NEW c \in Clientes, AccionesDeCliente(c)
      PROVE  /\ insertados[t] \subseteq insertados'[t]
             /\ Datos(t)' \subseteq Datos(t) \cup insertados'[t]
  <2>1. ASSUME NEW u \in Tablas, NEW r \in Registro, Insertar(c, u, r)
        PROVE  /\ insertados[t] \subseteq insertados'[t]
               /\ Datos(t)' \subseteq Datos(t) \cup insertados'[t]
    <3>1. CASE t # u
      BY <2>1, <3>1 DEF Insertar, archivos, Datos, EnTemporales, EnParticiones,
                        EnPreparacion, TypeOK
    <3>2. CASE t = u
      <4>1. /\ memtable'[t] = Append(memtable[t], r)
            /\ insertados'[t] = insertados[t] \cup {r}
        BY <2>1, <3>2 DEF Insertar, TypeOK
      <4>2. Range(Append(memtable[t], r)) = Range(memtable[t]) \cup {r}
        BY RangoDeAppend DEF TypeOK
      <4> QED BY <2>1, <4>1, <4>2 DEF Insertar, archivos, Datos, EnTemporales,
                                      EnParticiones, EnPreparacion
    <3> QED BY <3>1, <3>2
  <2>2. CASE UNCHANGED <<memtable, archivos, comp, insertados>>
    BY <2>2, <1>a DEF archivos
  <2> QED BY <1>2, <2>1, <2>2
          DEF AccionesDeCliente, PedirSelect, LeerMemtable, BloquearPropio, LeerTmp,
              LeerTmpIncompleto, LeerParticion, Responder, Enviar, historia
<1>3. CASE AccionesDeDump
  <2>1. CASE EscribirTmp
    <3>1. EnTemporales(t)' \subseteq EnTemporales(t) \cup Range(memtable[t])
      BY <2>1, EnTemporalesTrasEscribir
    <3> QED BY <2>1, <3>1 DEF EscribirTmp, historia, Datos, EnParticiones, EnPreparacion
  <2>2. CASE TerminarDump
    <3>1. Range(memtable'[t]) = {}
      BY <2>2 DEF TerminarDump, Range
    <3> QED BY <2>2, <3>1 DEF TerminarDump, archivos, historia, Datos, EnTemporales,
                              EnParticiones, EnPreparacion
  <2>3. CASE UNCHANGED <<memtable, tmp, tmpc, bin, comp, insertados>>
    BY <2>3, <1>a
  <2> QED BY <1>3, <2>1, <2>2, <2>3 DEF AccionesDeDump, ComenzarDump, AbrirTmp, SaltearTabla, archivos,
          historia
<1>4. ASSUME NEW u \in Tablas, AccionesDeCompactacion(u)
      PROVE  /\ insertados[t] \subseteq insertados'[t]
             /\ Datos(t)' \subseteq Datos(t) \cup insertados'[t]
  <2>0. UNCHANGED <<memtable, insertados>>
    BY <1>4 DEF AccionesDeCompactacion, ComenzarCompactacion, Bloquear, Desbloquear,
                Renombrar, Mezclar, NadaQueCompactar, LiberarBloques, GuardarParticion,
                Guardado, TerminarCompactacion, historia
  <2>a. /\ comp \in [Tablas -> EstadosDeCompactacion]
        /\ comp[t] \in EstadosDeCompactacion
        /\ comp[t].nuevos \in [Particiones -> Seq(Registro)]
    BY DEF TypeOK, EstadosDeCompactacion
  <2>1. CASE t # u
    <3>1. /\ UNCHANGED <<tmp[t], tmpc[t], bin[t], comp[t]>>
      BY <1>4, <2>1
         DEF AccionesDeCompactacion, ComenzarCompactacion, Bloquear, Desbloquear,
             Renombrar, Mezclar, NadaQueCompactar, LiberarBloques, GuardarParticion,
             Guardado, TerminarCompactacion, TypeOK, archivos
    <3> QED BY <2>0, <3>1 DEF Datos, EnTemporales, EnParticiones, EnPreparacion
  <2>2. CASE t = u
    <3>1. CASE Renombrar(t)
      <4>1. /\ tmpc'[t] = Renombrados(tmpc[t], tmp[t]) /\ tmp'[t] = <<>>
            /\ bin' = bin /\ comp'[t].nuevos = comp[t].nuevos
        BY <3>1, <2>a DEF Renombrar, TypeOK, EstadosDeCompactacion
      <4>2. RegistrosDe(tmpc'[t]) \subseteq RegistrosDe(tmpc[t]) \cup RegistrosDe(tmp[t])
        BY <4>1, RenombradosEsLista DEF TypeOK
      <4>3. RegistrosDe(tmp'[t]) = {}
        BY <4>1, RegistrosDeVacia
      <4> QED BY <2>0, <4>1, <4>2, <4>3
              DEF Datos, EnTemporales, EnParticiones, EnPreparacion
    <3>2. CASE Mezclar(t)
      <4> DEFINE S == RegistrosDe(tmpc[t])
                 b == bin[t]
      <4>1. PICK m \in Mezclas(S, b) : comp'[t].nuevos = m
        BY <3>2, <2>a DEF Mezclar
      <4>2. S \in SUBSET Registro /\ b \in [Particiones -> Archivo]
        BY DatosBienTipados DEF DatosDeRegistros, TypeOK
      <4> HIDE DEF S, b
      <4>3. \A p \in Particiones : Range(m[p]) \subseteq S \cup Range(b[p].registros)
        BY <4>2, MezclaCubre
      <4>4. EnPreparacion(t)' \subseteq S \cup EnParticiones(t)
        BY <4>1, <4>3 DEF EnPreparacion, EnParticiones, b
      <4>5. UNCHANGED <<tmp, tmpc, bin>>
        BY <3>2 DEF Mezclar, archivos
      <4> QED BY <2>0, <4>4, <4>5 DEF Datos, EnTemporales, EnParticiones, S
    <3>3. CASE LiberarBloques(t)
      <4>1. /\ tmpc'[t] = <<>> /\ tmp' = tmp /\ comp'[t].nuevos = comp[t].nuevos
        BY <3>3, <2>a DEF LiberarBloques, TypeOK, EstadosDeCompactacion
      <4>2. \A p \in Particiones :
              bin'[t][p].registros = <<>> \/ bin'[t][p].registros = bin[t][p].registros
        BY <3>3 DEF LiberarBloques, TypeOK
      <4>3. EnParticiones(t)' \subseteq EnParticiones(t)
        <5>1. Range(<<>>) = {}
          BY DEF Range
        <5> QED BY <4>2, <5>1 DEF EnParticiones
      <4>4. RegistrosDe(tmpc'[t]) = {}
        BY <4>1, RegistrosDeVacia
      <4> QED BY <2>0, <4>1, <4>3, <4>4 DEF Datos, EnTemporales, EnPreparacion
    <3>4. ASSUME NEW p \in Particiones, GuardarParticion(t, p)
          PROVE  Datos(t)' \subseteq Datos(t)
      <4>1. /\ UNCHANGED <<tmp, tmpc>>
            /\ bin'[t][p] = ArchivoEscrito(comp[t].nuevos[p])
            /\ comp'[t].nuevos[p] = <<>>
            /\ \A q \in Particiones :
                 q # p => UNCHANGED <<bin[t][q], comp[t].nuevos[q]>>
        BY <3>4, <2>a DEF GuardarParticion, TypeOK, EstadosDeCompactacion
      <4>2. Range(bin'[t][p].registros) \subseteq Range(comp[t].nuevos[p])
        BY <2>a, <4>1, ArchivoEscritoEsArchivo
      <4>3. Range(comp'[t].nuevos[p]) = {}
        BY <4>1 DEF Range
      <4>4. EnParticiones(t)' \subseteq EnParticiones(t) \cup EnPreparacion(t)
        BY <4>1, <4>2 DEF EnParticiones, EnPreparacion
      <4>5. EnPreparacion(t)' \subseteq EnPreparacion(t)
        BY <4>1, <4>3 DEF EnPreparacion
      <4> QED BY <2>0, <4>1, <4>4, <4>5 DEF Datos, EnTemporales
    <3>5. CASE \/ ComenzarCompactacion(t) \/ Bloquear(t) \/ Desbloquear(t)
               \/ NadaQueCompactar(t) \/ Guardado(t) \/ TerminarCompactacion(t)
      <4>1. UNCHANGED <<tmp, tmpc, bin>> /\ comp'[t].nuevos = comp[t].nuevos
        BY <3>5, <2>a DEF ComenzarCompactacion, Bloquear, Desbloquear, NadaQueCompactar,
                          Guardado, TerminarCompactacion, archivos, EstadosDeCompactacion
      <4> QED BY <2>0, <4>1, <1>a
    <3> QED BY <1>4, <2>0, <2>2, <3>1, <3>2, <3>3, <3>4, <3>5 DEF AccionesDeCompactacion
  <2> QED BY <2>1, <2>2
<1>5. CASE Caido
  BY <1>1, <1>5 DEF Caido
<1> QED BY <1>1, <1>2, <1>3, <1>4, <1>5 DEF Next

LEMMA OrigenDeSelectInductivo ==
  ASSUME TypeOK, OrigenInv, [Next]_vars, NEW c \in Clientes
  PROVE  OrigenDeSelect(c)'
<1> DEFINE s == sel[c]
           t == s.tabla
           k == s.key
           ts == TimestampsDe(insertados[t], k)
<1>0. /\ s \in EstadosDeSelect /\ t \in Tablas /\ k \in Claves
      /\ sel \in [Clientes -> EstadosDeSelect]
  BY DEF TypeOK, EstadosDeSelect
<1>a. /\ s.leidos \subseteq ts /\ s.debidos \subseteq ts
      /\ s.pc = "respondido" => s.respuesta \in ts \cup {KEY_NO_EXISTE}
  BY DEF OrigenInv, OrigenDeSelect
<1>b. ts \subseteq TimestampsDe(insertados'[t], k)
  BY <1>0, DatosNoAparecen, TimestampsDeCrece
<1>c. Datos(t) \subseteq insertados[t]
  BY <1>0 DEF OrigenInv
<1>d. ASSUME sel'[c] = sel[c] PROVE OrigenDeSelect(c)'
  BY <1>a, <1>b, <1>d DEF OrigenDeSelect
<1> HIDE DEF s
\* A step that reads more of the table, or none.
<1>e. ASSUME NEW leidos, leidos \subseteq ts, sel'[c].leidos = leidos,
             sel'[c].tabla = t, sel'[c].key = k, sel'[c].debidos = s.debidos,
             sel'[c].pc = "respondido" => sel'[c].respuesta \in ts \cup {KEY_NO_EXISTE}
      PROVE  OrigenDeSelect(c)'
  BY <1>a, <1>b, <1>e DEF OrigenDeSelect
<1>1. ASSUME NEW u \in Tablas, NEW q \in Claves, PedirSelect(c, u, q)
      PROVE  OrigenDeSelect(c)'
  <2>1. /\ sel'[c].leidos = {} /\ sel'[c].tabla = u /\ sel'[c].key = q
        /\ sel'[c].debidos = TimestampsDe(insertados[u], q)
        /\ sel'[c].pc = "pedido" /\ insertados' = insertados
    BY <1>0, <1>1 DEF PedirSelect, Ocioso, historia
  <2> QED BY <2>1 DEF OrigenDeSelect
<1>2. CASE LeerMemtable(c)
  <2>1. TimestampsDe(Range(memtable[t]), k) \subseteq ts
    BY <1>c, TimestampsDeCrece DEF Datos
  <2>2. /\ sel'[c].leidos = TimestampsDe(Range(memtable[t]), k)
        /\ sel'[c].tabla = t /\ sel'[c].key = k /\ sel'[c].debidos = s.debidos
        /\ sel'[c].pc = "esperaMutex"
    BY <1>0, <1>2 DEF LeerMemtable, EnMemtable, EstadosDeSelect, s
  <2> QED BY <1>e, <2>1, <2>2
<1>3. CASE BloquearPropio(c)
  <2>1. /\ sel'[c].leidos = s.leidos
        /\ sel'[c].tabla = t /\ sel'[c].key = k /\ sel'[c].debidos = s.debidos
        /\ sel'[c].pc = "leeTmp"
    BY <1>0, <1>3 DEF BloquearPropio, EstadosDeSelect, s
  <2> QED BY <1>a, <1>e, <2>1
<1>4. CASE LeerTmp(c)
  <2> DEFINE leidos == s.leidos \cup TimestampsDe(EnTemporales(t), k)
  <2>1. leidos \subseteq ts
    BY <1>a, <1>c, TimestampsDeCrece DEF Datos
  <2>2. /\ sel'[c].leidos = leidos
        /\ sel'[c].tabla = t /\ sel'[c].key = k /\ sel'[c].debidos = s.debidos
        /\ sel'[c].pc = "leeParticion"
    BY <1>0, <1>4 DEF LeerTmp, EstadosDeSelect, s
  <2> QED BY <1>e, <2>1, <2>2
<1>5. CASE LeerParticion(c)
  <2> DEFINE enParticion == Range(bin[t][Particion(k)].registros)
             leidos == s.leidos \cup TimestampsDe(enParticion, k)
  <2>1. leidos \subseteq ts
    <3>1. enParticion \subseteq Datos(t)
      BY <1>0, ParticionDeClave DEF Datos, EnParticiones
    <3> QED BY <1>a, <1>c, <3>1, TimestampsDeCrece
  <2>2. /\ sel'[c].leidos = leidos
        /\ sel'[c].tabla = t /\ sel'[c].key = k /\ sel'[c].debidos = s.debidos
        /\ sel'[c].pc = "leyo"
    BY <1>0, <1>5 DEF LeerParticion, EstadosDeSelect, s
  <2> QED BY <1>e, <2>1, <2>2
<1>6. CASE Responder(c)
  <2>1. PICK r \in Primeros(s.leidos) :
          sel' = [sel EXCEPT ![c].pc = "respondido", ![c].leidos = {}, ![c].respuesta = r]
    BY <1>6 DEF Responder, s
  <2>2. r \in ts \cup {KEY_NO_EXISTE}
    BY <1>a, <2>1 DEF Primeros
  <2>3. /\ sel'[c].leidos = {} /\ sel'[c].respuesta = r
        /\ sel'[c].tabla = t /\ sel'[c].key = k /\ sel'[c].debidos = s.debidos
    BY <1>0, <2>1 DEF EstadosDeSelect, s
  <2> QED BY <1>e, <2>2, <2>3
<1>7. CASE Enviar(c)
  <2>1. /\ sel'[c].leidos = {} /\ sel'[c].debidos = {} /\ sel'[c].pc = "ocioso"
    BY <1>0, <1>7 DEF Enviar, Ocioso
  <2> QED BY <2>1 DEF OrigenDeSelect
<1>8. CASE sel'[c] = sel[c]
  BY <1>8, <1>d
<1>9. ASSUME NEW d \in Clientes, AccionesDeCliente(d)
      PROVE  OrigenDeSelect(c)'
  <2>1. CASE d = c
    BY <1>9, <2>1, <1>1, <1>2, <1>3, <1>4, <1>5, <1>6, <1>7, <1>8
       DEF AccionesDeCliente, Insertar, LeerTmpIncompleto
  <2>2. CASE d # c
    <3>1. sel'[c] = sel[c]
      BY <1>0, <1>9, <2>2 DEF AccionesDeCliente, Insertar, PedirSelect, LeerMemtable,
           BloquearPropio, LeerTmp, LeerTmpIncompleto, LeerParticion, Responder, Enviar
    <3> QED BY <3>1, <1>8
  <2> QED BY <2>1, <2>2
<1>10. CASE AccionesDeDump \/ UNCHANGED vars \/ Caido
  BY <1>8, <1>10 DEF AccionesDeDump, ComenzarDump, AbrirTmp, SaltearTabla, EscribirTmp,
       TerminarDump,
                     vars, Caido
<1>11. ASSUME NEW u \in Tablas, AccionesDeCompactacion(u)
       PROVE  OrigenDeSelect(c)'
  BY <1>8, <1>11
     DEF AccionesDeCompactacion, ComenzarCompactacion, Bloquear, Desbloquear,
         Renombrar, Mezclar, NadaQueCompactar, LiberarBloques, GuardarParticion,
         Guardado, TerminarCompactacion
<1> QED BY <1>9, <1>10, <1>11 DEF Next

LEMMA OrigenInvInductivo ==
  /\ Init => OrigenInv
  /\ TypeOK /\ OrigenInv /\ [Next]_vars => OrigenInv'
<1>1. ASSUME Init PROVE OrigenInv
  <2>1. \A t \in Tablas : Datos(t) = {}
    <3> SUFFICES ASSUME NEW t \in Tablas PROVE Datos(t) = {}
      OBVIOUS
    <3>1. Range(<<>>) = {}
      BY DEF Range
    <3>2. /\ memtable[t] = <<>> /\ tmp[t] = <<>> /\ tmpc[t] = <<>>
          /\ \A p \in Particiones :
               bin[t][p].registros = <<>> /\ comp[t].nuevos[p] = <<>>
      BY <1>1 DEF Init
    <3> QED BY <3>1, <3>2, RegistrosDeVacia
            DEF Datos, EnTemporales, EnParticiones, EnPreparacion
  <2>2. \A c \in Clientes : /\ sel[c].leidos = {} /\ sel[c].debidos = {}
                             /\ sel[c].pc = "ocioso"
    BY <1>1 DEF Init, Ocioso
  <2>3. \A c \in Clientes : OrigenDeSelect(c)
    BY <2>2 DEF OrigenDeSelect
  <2> QED BY <2>1, <2>3 DEF OrigenInv
<1>2. ASSUME TypeOK, OrigenInv, [Next]_vars PROVE OrigenInv'
  <2>1. \A t \in Tablas : Datos(t)' \subseteq insertados'[t]
    BY <1>2, DatosNoAparecen DEF OrigenInv
  <2>2. \A c \in Clientes : OrigenDeSelect(c)'
    BY <1>2, OrigenDeSelectInductivo
  <2> QED BY <2>1, <2>2 DEF OrigenInv
<1> QED BY <1>1, <1>2

\* Whatever the dump and the compactor move, every record of a table and every
\* answer comes from an INSERT in that table.
THEOREM NadaSeInventa == Spec => []NadaInventado
<1>1. Init => TypeOK /\ OrigenInv
  BY InitTypeOK, OrigenInvInductivo
<1>2. TypeOK /\ OrigenInv /\ [Next]_vars => (TypeOK /\ OrigenInv)'
  BY TypeOKInductivo, OrigenInvInductivo
<1>3. OrigenInv => NadaInventado
  BY DEF OrigenInv, OrigenDeSelect, NadaInventado, Datos, EnTabla, EnArchivos, EnVuelo
<1> QED BY <1>1, <1>2, <1>3, PTL DEF Spec

------------------------------------------------------------------------------
(* The phases of a compaction.                                             *)

\* The steps of the compactor itself.
LEMMA ArchivosDeTablaCompactacion ==
  ASSUME TypeOK, NEW t \in Tablas, ArchivosDeTabla(t), AccionesDeCompactacion(t)
  PROVE  ArchivosDeTabla(t)'
<1> DEFINE k == comp[t]
<1>0. /\ k \in EstadosDeCompactacion /\ comp \in [Tablas -> EstadosDeCompactacion]
      /\ k.nuevos \in [Particiones -> Seq(Registro)]
      /\ k.porGuardar \subseteq Particiones
      /\ bin[t] \in [Particiones -> Archivo]
      /\ tmp[t] \in Seq(Archivo) /\ tmpc[t] \in Seq(Archivo)
  BY DEF TypeOK, EstadosDeCompactacion
<1>a. \A p : EsDeSusClaves(<<>>, p)
  BY DEF EsDeSusClaves, Range
\* A step that changes only the phase.
<1>b. ASSUME UNCHANGED <<tmpc[t], bin[t], comp[t].nuevos, comp[t].porGuardar>>,
             comp'[t].pc \notin {"bloqueando2", "guardando"},
             \/ comp'[t].pc = "desbloqueando1"
             \/ RegistrosDe(tmpc[t]) = {}
      PROVE  ArchivosDeTabla(t)'
  BY <1>b DEF ArchivosDeTabla, EnReescritura
<1>1. CASE ComenzarCompactacion(t)
  <2>1. /\ UNCHANGED <<tmpc, bin>> /\ k.pc = "dormido" /\ comp'[t].pc = "bloqueando1"
        /\ comp'[t].nuevos = k.nuevos /\ comp'[t].porGuardar = k.porGuardar
    BY <1>0, <1>1 DEF ComenzarCompactacion, EstadosDeCompactacion, archivos
  <2> QED BY <2>1, <1>b DEF ArchivosDeTabla
<1>2. CASE Bloquear(t) \/ Desbloquear(t)
  <2>1. /\ UNCHANGED <<tmpc, bin>> /\ comp'[t].pc = k.pc
        /\ comp'[t].nuevos = k.nuevos /\ comp'[t].porGuardar = k.porGuardar
    BY <1>0, <1>2 DEF Bloquear, Desbloquear, EstadosDeCompactacion, archivos
  <2> QED BY <2>1 DEF ArchivosDeTabla, EnReescritura, MezclaLista
<1>3. CASE Renombrar(t)
  <2>1. /\ bin' = bin /\ comp'[t].pc = "desbloqueando1" /\ comp'[t].nuevos = k.nuevos
    BY <1>0, <1>3 DEF Renombrar, EstadosDeCompactacion
  <2> QED BY <2>1 DEF ArchivosDeTabla, EnReescritura
<1>4. CASE Mezclar(t)
  <2> DEFINE S == RegistrosDe(tmpc[t])
             b == bin[t]
  <2>1. PICK m \in Mezclas(S, b) :
          /\ comp'[t].nuevos = m /\ comp'[t].porGuardar = Tocadas(S)
          /\ comp'[t].pc = "bloqueando2"
    BY <1>0, <1>4 DEF Mezclar
  <2>2. UNCHANGED <<tmpc, bin>>
    BY <1>4 DEF Mezclar, archivos
  <2>3. S \in SUBSET Registro /\ b \in [Particiones -> Archivo]
    BY <1>0, RegistrosBienTipados
  <2>4. \A p \in Particiones : EsDeSusClaves(b[p].registros, p)
    BY DEF ArchivosDeTabla
  <2>5. Tocadas(S) \subseteq Particiones
    BY <2>3, ParticionDeClave DEF Tocadas, Registro
  <2> HIDE DEF S, b
  <2>6. \A p \in Particiones :
          /\ EsDeSusClaves(m[p], p)
          /\ p \notin Tocadas(S) => m[p] = <<>>
          /\ p \in Tocadas(S) =>
               \A r \in S \cup Range(b[p].registros) :
                 Particion(r.key) = p => Cubre(Range(m[p]), r)
    BY <2>3, <2>4, MezclaCubre
  <2>7. MezclaLista(t)'
    BY <2>1, <2>2, <2>5, <2>6 DEF MezclaLista, S, b
  <2> QED BY <2>1, <2>2, <2>4, <2>6, <2>7 DEF ArchivosDeTabla, EnReescritura, b
<1>5. CASE NadaQueCompactar(t)
  <2>1. /\ UNCHANGED <<tmpc, bin>> /\ RegistrosDe(tmpc[t]) = {} /\ comp'[t].pc = "dormido"
        /\ comp'[t].nuevos = k.nuevos /\ comp'[t].porGuardar = k.porGuardar
    BY <1>0, <1>5 DEF NadaQueCompactar, EstadosDeCompactacion, archivos
  <2> QED BY <2>1, <1>b
<1>6. CASE LiberarBloques(t)
  <2>1. /\ tmpc'[t] = <<>> /\ comp'[t].pc = "guardando"
        /\ comp'[t].nuevos = k.nuevos /\ comp'[t].porGuardar = k.porGuardar
        /\ k.pc = "bloqueando2"
    BY <1>0, <1>6 DEF LiberarBloques, EstadosDeCompactacion, TypeOK
  <2>2. \A p \in Particiones :
          bin'[t][p].registros = IF p \in k.porGuardar THEN <<>> ELSE bin[t][p].registros
    BY <1>6 DEF LiberarBloques, TypeOK
  <2> QED BY <1>a, <2>1, <2>2, RegistrosDeVacia DEF ArchivosDeTabla, EnReescritura
<1>7. ASSUME NEW p \in Particiones, GuardarParticion(t, p)
      PROVE  ArchivosDeTabla(t)'
  <2>1. /\ tmpc' = tmpc /\ k.pc = "guardando" /\ comp'[t].pc = "guardando"
        /\ comp'[t].porGuardar = k.porGuardar \ {p}
        /\ bin'[t][p] = ArchivoEscrito(k.nuevos[p])
        /\ comp'[t].nuevos[p] = <<>>
        /\ \A q \in Particiones :
             q # p => bin'[t][q] = bin[t][q] /\ comp'[t].nuevos[q] = k.nuevos[q]
    BY <1>0, <1>7 DEF GuardarParticion, EstadosDeCompactacion, TypeOK
  <2>2. EsDeSusClaves(bin'[t][p].registros, p)
    <3>1. Range(bin'[t][p].registros) \subseteq Range(k.nuevos[p])
      BY <1>0, <2>1, ArchivoEscritoEsArchivo
    <3> QED BY <3>1 DEF ArchivosDeTabla, EsDeSusClaves
  <2> QED BY <1>a, <2>1, <2>2 DEF ArchivosDeTabla, EnReescritura
<1>8. CASE Guardado(t)
  <2>1. /\ UNCHANGED <<tmpc, bin>> /\ k.pc = "guardando" /\ comp'[t].pc = "desbloqueando2"
        /\ comp'[t].nuevos = k.nuevos /\ comp'[t].porGuardar = k.porGuardar
    BY <1>0, <1>8 DEF Guardado, EstadosDeCompactacion, archivos
  <2> QED BY <2>1, <1>b DEF ArchivosDeTabla
<1>9. CASE TerminarCompactacion(t)
  <2>1. /\ UNCHANGED <<tmpc, bin>> /\ k.pc = "desbloqueando2" /\ comp'[t].pc = "dormido"
        /\ comp'[t].nuevos = k.nuevos /\ comp'[t].porGuardar = k.porGuardar
    BY <1>0, <1>9 DEF TerminarCompactacion, EstadosDeCompactacion, archivos
  <2> QED BY <2>1, <1>b DEF ArchivosDeTabla
<1> QED BY <1>1, <1>2, <1>3, <1>4, <1>5, <1>6, <1>7, <1>8, <1>9
        DEF AccionesDeCompactacion

\* No other thread touches the .tmpc files nor the partitions.
LEMMA SoloElCompactador ==
  ASSUME TypeOK, [Next]_vars, NEW t \in Tablas
  PROVE  AccionesDeCompactacion(t) \/ UNCHANGED <<tmpc[t], bin[t], comp[t]>>
<1>1. ASSUME NEW c \in Clientes, AccionesDeCliente(c)
      PROVE  UNCHANGED <<tmpc, bin, comp>>
  BY <1>1 DEF AccionesDeCliente, Insertar, PedirSelect, LeerMemtable, BloquearPropio,
       LeerTmp, LeerTmpIncompleto, LeerParticion, Responder, Enviar, archivos
<1>2. ASSUME AccionesDeDump PROVE UNCHANGED <<tmpc, bin, comp>>
  BY <1>2 DEF AccionesDeDump, ComenzarDump, AbrirTmp, SaltearTabla, EscribirTmp,
       TerminarDump, archivos
<1>3. ASSUME NEW u \in Tablas, u # t, AccionesDeCompactacion(u)
      PROVE  UNCHANGED <<tmpc[t], bin[t], comp[t]>>
  BY <1>3 DEF AccionesDeCompactacion, ComenzarCompactacion, Bloquear, Desbloquear,
       Renombrar, Mezclar, NadaQueCompactar, LiberarBloques, GuardarParticion,
       Guardado, TerminarCompactacion, TypeOK, archivos
<1>4. ASSUME Caido \/ UNCHANGED vars PROVE UNCHANGED <<tmpc, bin, comp>>
  BY <1>4 DEF Caido, vars, archivos
<1> QED BY <1>1, <1>2, <1>3, <1>4 DEF Next

\* Nor does anybody but the dump write a .tmp.
LEMMA SoloElDumpEscribeTmp ==
  ASSUME TypeOK, [Next]_vars, NEW t \in Tablas
  PROVE  AccionesDeCompactacion(t) \/ EscribirTmp \/ tmp'[t] = tmp[t]
<1>1. ASSUME NEW c \in Clientes, AccionesDeCliente(c)
      PROVE  tmp' = tmp
  BY <1>1 DEF AccionesDeCliente, Insertar, PedirSelect, LeerMemtable, BloquearPropio,
       LeerTmp, LeerTmpIncompleto, LeerParticion, Responder, Enviar, archivos
<1>2. ASSUME AccionesDeDump PROVE EscribirTmp \/ tmp' = tmp
  BY <1>2 DEF AccionesDeDump, ComenzarDump, AbrirTmp, SaltearTabla, TerminarDump, archivos
<1>3. ASSUME NEW u \in Tablas, u # t, AccionesDeCompactacion(u)
      PROVE  tmp'[t] = tmp[t]
  BY <1>3 DEF AccionesDeCompactacion, ComenzarCompactacion, Bloquear, Desbloquear,
       Renombrar, Mezclar, NadaQueCompactar, LiberarBloques, GuardarParticion,
       Guardado, TerminarCompactacion, TypeOK, archivos
<1>4. ASSUME Caido \/ UNCHANGED vars PROVE tmp' = tmp
  BY <1>4 DEF Caido, vars, archivos
<1> QED BY <1>1, <1>2, <1>3, <1>4 DEF Next

LEMMA ArchivosInvInductivo ==
  /\ Init => ArchivosInv
  /\ TypeOK /\ ArchivosInv /\ [Next]_vars => ArchivosInv'
<1>1. ASSUME Init, NEW t \in Tablas PROVE ArchivosDeTabla(t)
  <2>1. /\ tmpc[t] = <<>> /\ comp[t].pc = "dormido"
        /\ \A p \in Particiones :
             bin[t][p].registros = <<>> /\ comp[t].nuevos[p] = <<>>
    BY <1>1 DEF Init
  <2>2. \A p : EsDeSusClaves(<<>>, p)
    BY DEF EsDeSusClaves, Range
  <2> QED BY <2>1, <2>2, RegistrosDeVacia DEF ArchivosDeTabla, EnReescritura
<1>2. ASSUME TypeOK, ArchivosInv, [Next]_vars, NEW t \in Tablas
      PROVE  ArchivosDeTabla(t)'
  <2>1. ArchivosDeTabla(t)
    BY <1>2 DEF ArchivosInv
  <2>2. CASE AccionesDeCompactacion(t)
    BY <1>2, <2>1, <2>2, ArchivosDeTablaCompactacion
  <2>3. CASE UNCHANGED <<tmpc[t], bin[t], comp[t]>>
    BY <2>1, <2>3 DEF ArchivosDeTabla, EnReescritura, MezclaLista
  <2> QED BY <1>2, <2>2, <2>3, SoloElCompactador
<1> QED BY <1>1, <1>2 DEF ArchivosInv

------------------------------------------------------------------------------
(* Nothing acknowledged is lost.                                           *)

\* Until the blocks run out, a step of the compactor leaves in the files
\* something at least as new as each record they had.
LEMMA CompactarConserva ==
  ASSUME TypeOK, TypeOK', NEW t \in Tablas, ArchivosDeTabla(t),
         AccionesDeCompactacion(t), ~sinBloques',
         NEW r \in EnArchivos(t)
  PROVE  Cubre(EnArchivos(t)', r)
<1> DEFINE k == comp[t]
<1>0. /\ k \in EstadosDeCompactacion /\ comp \in [Tablas -> EstadosDeCompactacion]
      /\ k.nuevos \in [Particiones -> Seq(Registro)]
      /\ tmp[t] \in Seq(Archivo) /\ tmpc[t] \in Seq(Archivo)
  BY DEF TypeOK, EstadosDeCompactacion
<1>a. r \in Registro /\ EnArchivos(t)' \in SUBSET Registro
  <2>1. EnArchivos(t) \in SUBSET Registro
    BY DatosBienTipados DEF DatosDeRegistros
  <2>2. EnArchivos(t)' \in SUBSET Registro
    BY DatosBienTipadosDespues DEF DatosDeRegistros
  <2> QED BY <2>1, <2>2
<1>b. r \in EnArchivos(t)' => Cubre(EnArchivos(t)', r)
  BY <1>a, CubreReflexiva
<1>1. CASE /\ UNCHANGED <<tmp[t], tmpc[t], bin[t], comp[t].nuevos>>
           /\ comp[t].pc # "guardando" /\ comp'[t].pc # "guardando"
  BY <1>1, <1>b DEF EnArchivos, EnTemporales, EnParticiones, EnVuelo, EnPreparacion
<1>2. CASE ComenzarCompactacion(t) \/ NadaQueCompactar(t) \/ TerminarCompactacion(t)
  BY <1>0, <1>1, <1>2 DEF ComenzarCompactacion, NadaQueCompactar, TerminarCompactacion,
                          archivos, EstadosDeCompactacion
<1>3. CASE Bloquear(t) \/ Desbloquear(t)
  BY <1>0, <1>1, <1>3 DEF Bloquear, Desbloquear, archivos, EstadosDeCompactacion
<1>4. CASE Renombrar(t)
  <2>1. /\ tmpc'[t] = Renombrados(tmpc[t], tmp[t])
        /\ bin' = bin /\ k.pc = "bloqueando1"
    BY <1>0, <1>4 DEF Renombrar, TypeOK
  <2>2. RegistrosDe(tmp[t]) \subseteq RegistrosDe(tmpc'[t])
    BY <1>0, <2>1, RenombradosEsLista
  <2>3. RegistrosDe(tmpc[t]) = {}
    BY <2>1 DEF ArchivosDeTabla
  <2> QED BY <1>b, <2>1, <2>2, <2>3 DEF EnArchivos, EnTemporales, EnParticiones, EnVuelo
<1>5. CASE Mezclar(t)
  <2>1. UNCHANGED <<tmp, tmpc, bin>> /\ k.pc = "desbloqueando1"
    BY <1>5 DEF Mezclar, archivos
  <2> QED BY <1>b, <2>1 DEF EnArchivos, EnTemporales, EnParticiones, EnVuelo
<1>6. CASE LiberarBloques(t)
  <2>1. /\ tmp' = tmp /\ k.pc = "bloqueando2" /\ comp'[t].pc = "guardando"
        /\ comp'[t].nuevos = k.nuevos
        /\ k.porGuardar \subseteq Particiones
    BY <1>0, <1>6 DEF LiberarBloques, EstadosDeCompactacion, TypeOK
  <2>2. \A p \in Particiones \ k.porGuardar : bin'[t][p] = bin[t][p]
    BY <1>6 DEF LiberarBloques, TypeOK
  <2>3. \A p \in Particiones : Range(k.nuevos[p]) \subseteq EnArchivos(t)'
    BY <2>1 DEF EnArchivos, EnVuelo, EnPreparacion
  <2>4. MezclaLista(t)
    BY <2>1 DEF ArchivosDeTabla
  <2>5. CASE r \in RegistrosDe(tmpc[t])
    <3>1. Particion(r.key) \in k.porGuardar
      BY <2>4, <2>5 DEF MezclaLista, Tocadas
    <3> QED BY <2>1, <2>3, <2>4, <2>5, <3>1 DEF MezclaLista, Cubre
  <2>6. ASSUME NEW p \in Particiones, r \in Range(bin[t][p].registros)
        PROVE  Cubre(EnArchivos(t)', r)
    <3>1. CASE p \in k.porGuardar
      <4>1. Particion(r.key) = p
        BY <2>6 DEF ArchivosDeTabla, EsDeSusClaves
      <4> QED BY <2>3, <2>4, <2>6, <3>1, <4>1 DEF MezclaLista, Cubre
    <3>2. CASE p \notin k.porGuardar
      BY <1>b, <2>2, <2>6, <3>2 DEF EnArchivos, EnParticiones
    <3> QED BY <3>1, <3>2
  <2>7. CASE r \in RegistrosDe(tmp[t])
    BY <1>b, <2>1, <2>7 DEF EnArchivos, EnTemporales
  <2> QED BY <2>1, <2>5, <2>6, <2>7 DEF EnArchivos, EnTemporales, EnParticiones, EnVuelo
<1>7. ASSUME NEW p \in Particiones, GuardarParticion(t, p)
      PROVE  Cubre(EnArchivos(t)', r)
  <2>1. /\ UNCHANGED <<tmp, tmpc>> /\ k.pc = "guardando" /\ comp'[t].pc = "guardando"
        /\ p \in k.porGuardar
        /\ bin'[t][p] = ArchivoEscrito(k.nuevos[p])
        /\ \A q \in Particiones :
             q # p => bin'[t][q] = bin[t][q] /\ comp'[t].nuevos[q] = k.nuevos[q]
    BY <1>0, <1>7 DEF GuardarParticion, EstadosDeCompactacion, TypeOK
  <2>2. ~FaltanBloques(k.nuevos[p])
    BY <1>7, Zenon DEF GuardarParticion
  <2>3. bin'[t][p].registros = k.nuevos[p]
    BY <1>0, <2>1, <2>2, ArchivoEscritoEsArchivo
  <2>4. Range(bin[t][p].registros) = {}
    BY <2>1 DEF ArchivosDeTabla, EnReescritura, Range
  <2>5. EnParticiones(t) \cup EnPreparacion(t)
          \subseteq EnParticiones(t)' \cup EnPreparacion(t)'
    BY <2>1, <2>3, <2>4 DEF EnParticiones, EnPreparacion
  <2> QED BY <1>b, <2>1, <2>5 DEF EnArchivos, EnTemporales, EnVuelo
<1>8. CASE Guardado(t)
  <2>1. UNCHANGED <<tmp, tmpc, bin>> /\ k.porGuardar = {} /\ k.pc = "guardando"
    BY <1>8 DEF Guardado, archivos
  <2>2. EnPreparacion(t) = {}
    <3>1. \A p \in Particiones : Range(k.nuevos[p]) = {}
      BY <2>1 DEF ArchivosDeTabla, Range
    <3> QED BY <3>1 DEF EnPreparacion
  <2> QED BY <1>b, <2>1, <2>2 DEF EnArchivos, EnTemporales, EnParticiones, EnVuelo
<1> QED BY <1>2, <1>3, <1>4, <1>5, <1>6, <1>7, <1>8 DEF AccionesDeCompactacion

\* The same of any step.
LEMMA ArchivosConservan ==
  ASSUME TypeOK, ArchivosInv, [Next]_vars, ~sinBloques',
         NEW t \in Tablas, NEW r \in EnArchivos(t)
  PROVE  Cubre(EnArchivos(t)', r)
<1>0. TypeOK'
  BY TypeOKInductivo
<1>1. CASE AccionesDeCompactacion(t)
  BY <1>0, <1>1, CompactarConserva DEF ArchivosInv
<1>2. CASE ~AccionesDeCompactacion(t) /\ UNCHANGED <<tmpc[t], bin[t], comp[t]>>
  <2>1. EnTemporales(t) \subseteq EnTemporales(t)'
    <3>1. CASE EscribirTmp
      BY <3>1, EnTemporalesTrasEscribir
    <3>2. CASE tmp'[t] = tmp[t]
      BY <1>2, <3>2 DEF EnTemporales
    <3> QED BY <1>2, <3>1, <3>2, SoloElDumpEscribeTmp
  <2>2. EnArchivos(t) \subseteq EnArchivos(t)'
    BY <1>2, <2>1 DEF EnArchivos, EnParticiones, EnVuelo, EnPreparacion
  <2>3. EnArchivos(t)' \in SUBSET Registro
    BY <1>0, DatosBienTipadosDespues DEF DatosDeRegistros
  <2> QED BY <2>2, <2>3, CubreReflexiva
<1> QED BY <1>1, <1>2, SoloElCompactador

\* The memtable, the dump and the mark of the disk, step by step.
LEMMA PasosDeMemtable ==
  ASSUME TypeOK, [Next]_vars
  PROVE  /\ sinBloques => sinBloques'
         /\ sinTmp => sinTmp'
         /\ \/ UNCHANGED <<memtable, dump, insertados>>
            \/ \E c \in Clientes, t \in Tablas, r \in Registro : Insertar(c, t, r)
            \/ AccionesDeDump
<1>1. ASSUME NEW c \in Clientes, AccionesDeCliente(c)
      PROVE  /\ UNCHANGED <<sinBloques, sinTmp>>
             /\ \/ UNCHANGED <<memtable, dump, insertados>>
                \/ \E t \in Tablas, r \in Registro : Insertar(c, t, r)
  BY <1>1 DEF AccionesDeCliente, Insertar, PedirSelect, LeerMemtable, BloquearPropio,
       LeerTmp, LeerTmpIncompleto, LeerParticion, Responder, Enviar, archivos, historia
<1>2. ASSUME AccionesDeDump
      PROVE  (sinBloques => sinBloques') /\ (sinTmp => sinTmp')
  <2>1. CASE EscribirTmp
    <3>1. sinBloques => sinBloques'
      BY <2>1, Zenon DEF EscribirTmp
    <3>2. sinTmp' = sinTmp
      BY <2>1, Zenon DEF EscribirTmp
    <3> QED BY <3>1, <3>2
  <2>2. CASE ~EscribirTmp
    <3>1. ASSUME NEW t \in Tablas, SaltearTabla(t)
          PROVE  (sinBloques => sinBloques') /\ (sinTmp => sinTmp')
      BY <3>1, Zenon DEF SaltearTabla
    <3>2. ASSUME ~\E t \in Tablas : SaltearTabla(t)
          PROVE  (sinBloques => sinBloques') /\ (sinTmp => sinTmp')
      <4>1. UNCHANGED <<sinBloques, sinTmp>>
        BY <1>2, <2>2, <3>2 DEF AccionesDeDump, ComenzarDump, AbrirTmp, TerminarDump,
                                archivos
      <4> QED BY <4>1, Zenon
    <3> QED BY <3>1, <3>2, Zenon
  <2> QED BY <2>1, <2>2
<1>3. ASSUME NEW u \in Tablas, AccionesDeCompactacion(u)
      PROVE  (sinBloques => sinBloques') /\ UNCHANGED <<sinTmp, memtable, dump, insertados>>
  <2>1. UNCHANGED <<sinTmp, memtable, dump, insertados>>
    BY <1>3 DEF AccionesDeCompactacion, ComenzarCompactacion, Bloquear, Desbloquear,
         Renombrar, Mezclar, NadaQueCompactar, LiberarBloques, GuardarParticion,
         Guardado, TerminarCompactacion, archivos, historia
  <2>2. CASE \E p \in Particiones : GuardarParticion(u, p)
    BY <2>1, <2>2, Zenon DEF GuardarParticion
  <2>3. ASSUME ~\E p \in Particiones : GuardarParticion(u, p)
        PROVE  sinBloques' = sinBloques
    BY <1>3, <2>3 DEF AccionesDeCompactacion, ComenzarCompactacion, Bloquear,
         Desbloquear, Renombrar, Mezclar, NadaQueCompactar, LiberarBloques,
         Guardado, TerminarCompactacion, archivos
  <2> QED BY <2>1, <2>2, <2>3
<1>4. ASSUME Caido \/ UNCHANGED vars
      PROVE  UNCHANGED <<sinBloques, sinTmp, memtable, dump, insertados>>
  BY <1>4 DEF Caido, vars, archivos, historia
<1> QED BY <1>1, <1>2, <1>3, <1>4 DEF Next

\* What the dump has dropped stays dropped.
LEMMA SalteadoQueda ==
  ASSUME TypeOK, [Next]_vars, NadaSalteado'
  PROVE  NadaSalteado /\ ~sinBloques' /\ ~sinTmp'
BY PasosDeMemtable DEF NadaSalteado

LEMMA DumpInvInductivo ==
  /\ Init => DumpInv
  /\ TypeOK /\ ArchivosInv /\ DumpInv /\ [Next]_vars => DumpInv'
<1>1. Init => DumpInv
  BY DEF Init, DumpInv
<1>2. ASSUME TypeOK, ArchivosInv, DumpInv, [Next]_vars PROVE DumpInv'
  <2> SUFFICES ASSUME NadaSalteado', dump'.pc # "dormido",
                      NEW t \in Tablas, t \notin dump'.pendientes, ~TmpIncompleto(t)',
                      NEW r \in Range(memtable'[t])
               PROVE  Cubre(EnArchivos(t)', r)
    BY DEF DumpInv
  <2>0. /\ NadaSalteado /\ ~sinBloques' /\ ~sinTmp'
        /\ TypeOK' /\ dump \in EstadosDeDump
    BY <1>2, SalteadoQueda, TypeOKInductivo DEF TypeOK
  <2>a. EnArchivos(t) \in SUBSET Registro /\ EnArchivos(t)' \in SUBSET Registro
        /\ Range(memtable[t]) \subseteq Registro
    BY <1>2, <2>0, DatosBienTipados, DatosBienTipadosDespues DEF DatosDeRegistros
  <2>b. ASSUME r \in Range(memtable[t]), Cubre(EnArchivos(t), r)
        PROVE  Cubre(EnArchivos(t)', r)
    BY <1>2, <2>0, <2>a, <2>b, ArchivosConservan, CubreTransitiva
  <2>1. CASE UNCHANGED <<memtable, dump>>
    BY <1>2, <2>0, <2>1, <2>b DEF DumpInv, TmpIncompleto
  <2>2. ASSUME NEW c \in Clientes, NEW u \in Tablas, NEW q \in Registro, Insertar(c, u, q)
        PROVE  FALSE
    BY <2>2 DEF Insertar, MemtableLibre
  <2>3. CASE ComenzarDump
    <3>1. memtable'[t] = <<>>
      BY <2>0, <2>3 DEF ComenzarDump, EstadosDeDump
    <3> QED BY <3>1 DEF Range
  <2>4. ASSUME NEW u \in Tablas, AbrirTmp(u)
        PROVE  Cubre(EnArchivos(t)', r)
    <3>1. /\ dump.pc = "recorriendo" /\ memtable' = memtable
          /\ t # u /\ t \notin dump.pendientes
      BY <2>0, <2>4 DEF AbrirTmp, EstadosDeDump, TmpIncompleto
    <3> QED BY <1>2, <2>0, <2>b, <3>1 DEF DumpInv, TmpIncompleto
  <2>5. CASE EscribirTmp
    <3>1. /\ dump.pc = "escribiendo" /\ memtable' = memtable
          /\ t \notin dump.pendientes
      BY <2>0, <2>5 DEF EscribirTmp, EstadosDeDump
    <3>2. CASE t = dump.tabla
      <4>1. r \in EnTemporales(t)'
        BY <1>2, <2>0, <2>5, <3>1, <3>2, EnTemporalesTrasEscribir
      <4> QED BY <2>a, <4>1, CubreReflexiva DEF EnArchivos
    <3>3. CASE t # dump.tabla
      BY <1>2, <2>0, <2>b, <3>1, <3>3 DEF DumpInv, TmpIncompleto
    <3> QED BY <3>2, <3>3
  <2>6. CASE TerminarDump
    BY <2>0, <2>6 DEF TerminarDump, EstadosDeDump
  <2>7. ASSUME NEW u \in Tablas, SaltearTabla(u)
        PROVE  FALSE
    BY <2>0, <2>7 DEF SaltearTabla
  <2> QED BY <1>2, <2>1, <2>2, <2>3, <2>4, <2>5, <2>6, <2>7, PasosDeMemtable
          DEF AccionesDeDump
<1> QED BY <1>1, <1>2

LEMMA NadaSePierdeInductivo ==
  /\ Init => NadaSePierde
  /\ TypeOK /\ OrigenInv /\ ArchivosInv /\ DumpInv /\ NadaSePierde /\ [Next]_vars
       => NadaSePierde'
<1>1. Init => NadaSePierde
  BY DEF Init, NadaSePierde
<1>2. ASSUME TypeOK, OrigenInv, ArchivosInv, DumpInv, NadaSePierde, [Next]_vars
      PROVE  NadaSePierde'
  <2> SUFFICES ASSUME NadaSalteado', NEW t \in Tablas, NEW r \in insertados'[t]
               PROVE  Cubre(EnTabla(t)', r)
    BY DEF NadaSePierde
  <2>0. /\ NadaSalteado /\ ~sinBloques' /\ ~sinTmp'
        /\ TypeOK' /\ dump \in EstadosDeDump
    BY <1>2, SalteadoQueda, TypeOKInductivo DEF TypeOK
  <2>a. /\ EnTabla(t) \in SUBSET Registro /\ EnTabla(t)' \in SUBSET Registro
        /\ Range(memtable[t]) \subseteq Registro
        /\ EnArchivos(t) \in SUBSET Registro /\ EnArchivos(t)' \in SUBSET Registro
        /\ insertados[t] \subseteq Registro
    BY <1>2, <2>0, DatosBienTipados, DatosBienTipadosDespues DEF DatosDeRegistros, TypeOK
  \* A step that keeps what the memtable has, there or in the files.
  <2>b. ASSUME r \in insertados[t],
               \A q \in Range(memtable[t]) : Cubre(EnTabla(t)', q)
        PROVE  Cubre(EnTabla(t)', r)
    <3>1. ASSUME NEW q \in EnArchivos(t) PROVE Cubre(EnTabla(t)', q)
      <4>1. Cubre(EnArchivos(t)', q)
        BY <1>2, <2>0, ArchivosConservan
      <4> QED BY <4>1 DEF Cubre, EnTabla
    <3>2. \A q \in EnTabla(t) : Cubre(EnTabla(t)', q)
      BY <2>b, <3>1 DEF EnTabla
    <3>3. Cubre(EnTabla(t), r) /\ r \in Registro
      BY <1>2, <2>0, <2>a, <2>b DEF NadaSePierde
    <3> QED BY <2>a, <3>2, <3>3, CubreTransitiva
  <2>c. ASSUME r \in insertados[t], Range(memtable[t]) \subseteq Range(memtable'[t])
        PROVE  Cubre(EnTabla(t)', r)
    <3>1. \A q \in Range(memtable[t]) : Cubre(EnTabla(t)', q)
      BY <2>a, <2>c, CubreReflexiva DEF EnTabla
    <3> QED BY <2>b, <2>c, <3>1
  <2>1. CASE UNCHANGED <<memtable, insertados>>
    BY <2>1, <2>c
  <2>2. ASSUME NEW c \in Clientes, NEW u \in Tablas, NEW q \in Registro, Insertar(c, u, q)
        PROVE  Cubre(EnTabla(t)', r)
    <3>1. CASE t # u
      BY <2>2, <2>c, <3>1 DEF Insertar, TypeOK
    <3>2. CASE t = u
      <4>1. /\ memtable'[t] = Append(memtable[t], q)
            /\ insertados'[t] = insertados[t] \cup {q}
        BY <1>2, <2>2, <3>2 DEF Insertar, TypeOK
      <4>2. Range(memtable'[t]) = Range(memtable[t]) \cup {q}
        BY <1>2, <4>1, RangoDeAppend DEF TypeOK
      <4>3. CASE r = q
        BY <2>a, <4>2, <4>3, CubreReflexiva DEF EnTabla
      <4> QED BY <2>c, <4>1, <4>2, <4>3
    <3> QED BY <3>1, <3>2
  <2>3. CASE ComenzarDump
    BY <2>3, <2>1 DEF ComenzarDump, historia
  <2>4. ASSUME NEW u \in Tablas, AbrirTmp(u)
        PROVE  Cubre(EnTabla(t)', r)
    BY <2>4, <2>1 DEF AbrirTmp, historia
  <2>5. CASE EscribirTmp
    BY <2>5, <2>1 DEF EscribirTmp, historia
  <2>6. CASE TerminarDump
    <3>1. /\ dump.pc = "recorriendo" /\ t \notin dump.pendientes
          /\ UNCHANGED <<archivos, comp, insertados>>
      BY <2>6 DEF TerminarDump, historia
    <3>2. \A q \in Range(memtable[t]) : Cubre(EnArchivos(t), q)
      BY <1>2, <2>0, <3>1 DEF DumpInv, TmpIncompleto
    <3>3. EnArchivos(t)' = EnArchivos(t)
      BY <3>1 DEF archivos, EnArchivos, EnTemporales, EnParticiones, EnVuelo, EnPreparacion
    <3>4. \A q \in Range(memtable[t]) : Cubre(EnTabla(t)', q)
      BY <3>2, <3>3 DEF EnTabla, Cubre
    <3> QED BY <2>b, <3>1, <3>4
  <2>7. ASSUME NEW u \in Tablas, SaltearTabla(u)
        PROVE  FALSE
    BY <2>0, <2>7 DEF SaltearTabla
  <2> QED BY <1>2, <2>1, <2>2, <2>3, <2>4, <2>5, <2>6, <2>7, PasosDeMemtable
          DEF AccionesDeDump
<1> QED BY <1>1, <1>2

\* The invariant of what is written.
DatosInv == TypeOK /\ MutexInv /\ OrigenInv /\ ArchivosInv /\ DumpInv /\ NadaSePierde

LEMMA DatosInvInductivo ==
  /\ Init => DatosInv
  /\ DatosInv /\ [Next]_vars => DatosInv'
BY InitTypeOK, TypeOKInductivo, MutexInvInductivo, OrigenInvInductivo,
   ArchivosInvInductivo, DumpInvInductivo, NadaSePierdeInductivo DEF DatosInv

\* As long as the disk has blocks and every dump opens its files, an
\* acknowledged INSERT survives every dump and compaction: the table holds it or
\* a newer record of its key.
THEOREM NingunInsertSePierde == Spec => []NadaSePierde
<1>1. DatosInv => NadaSePierde
  BY DEF DatosInv
<1> QED BY <1>1, DatosInvInductivo, PTL DEF Spec

------------------------------------------------------------------------------
(* No SELECT answers with something older than it owes.                    *)

\* A step of another thread takes nothing out of the sight of a SELECT.
LEMMA AlDiaSiOtroSeMueve ==
  ASSUME DatosInv, [Next]_vars, ~sinBloques', NEW c \in Clientes,
         sel'[c] = sel[c], AlDia(c)
  PROVE  AlDia(c)'
<1> DEFINE s == sel[c]
           t == s.tabla
           k == s.key
<1>0. /\ s \in EstadosDeSelect /\ t \in Tablas /\ k \in Claves
      /\ s.debidos \in SUBSET Timestamps
      /\ TypeOK /\ TypeOK' /\ ArchivosInv /\ MutexInv
  BY DatosInvInductivo DEF DatosInv, TypeOK, EstadosDeSelect
<1>1. CASE s.pc \in {"esperaMutex", "leeTmp"}
  <2> SUFFICES ASSUME NEW d \in s.debidos
               PROVE  \E y \in Alcanzables(c)' : y >= d
    BY <1>1 DEF AlDia
  <2>1. /\ Alcanzables(c) = s.leidos \cup TimestampsDe(EnArchivos(t), k)
        /\ Alcanzables(c)' = s.leidos \cup TimestampsDe(EnArchivos(t)', k)
    BY <1>1 DEF Alcanzables
  <2>2. PICK x \in Alcanzables(c) : x >= d
    BY <1>1 DEF AlDia
  <2>3. CASE x \in s.leidos
    BY <2>1, <2>2, <2>3
  <2>4. CASE x \in TimestampsDe(EnArchivos(t), k)
    <3>1. EnArchivos(t) \in SUBSET Registro /\ EnArchivos(t)' \in SUBSET Registro
      BY <1>0, DatosBienTipados, DatosBienTipadosDespues DEF DatosDeRegistros
    <3>2. \A q \in EnArchivos(t) : Cubre(EnArchivos(t)', q)
      BY <1>0, ArchivosConservan
    <3>3. \E y \in TimestampsDe(EnArchivos(t)', k) : y >= d
      BY <1>0, <2>2, <2>4, <3>1, <3>2, VistoEnCobertura
    <3> QED BY <2>1, <3>3
  <2> QED BY <2>1, <2>3, <2>4
<1>2. CASE s.pc = "leeParticion"
  <2>1. ~Reescribiendo(t)
    BY <1>0, <1>2, ExclusionDeMutexInv DEF Exclusion, Leyendo
  <2>2. EnParticiones(t)' = EnParticiones(t)
    <3>1. bin'[t] = bin[t]
      <4>1. CASE AccionesDeCompactacion(t)
        BY <2>1, <4>1 DEF AccionesDeCompactacion, ComenzarCompactacion, Bloquear,
             Desbloquear, Renombrar, Mezclar, NadaQueCompactar, LiberarBloques,
             GuardarParticion, Guardado, TerminarCompactacion, archivos, Reescribiendo
      <4> QED BY <1>0, <4>1, SoloElCompactador
    <3> QED BY <3>1 DEF EnParticiones
  <2>3. Alcanzables(c)' = Alcanzables(c)
    BY <1>2, <2>2 DEF Alcanzables
  <2> QED BY <1>2, <2>3 DEF AlDia
<1>3. CASE s.pc = "leyo"
  <2>1. Alcanzables(c)' = Alcanzables(c)
    BY <1>3 DEF Alcanzables
  <2> QED BY <1>3, <2>1 DEF AlDia
<1>4. CASE s.pc \notin {"esperaMutex", "leeTmp", "leeParticion", "leyo"}
  BY <1>4 DEF AlDia
<1> QED BY <1>1, <1>2, <1>3, <1>4

\* The steps of the SELECT itself.
LEMMA AlDiaSiAvanza ==
  ASSUME DatosInv, NadaSalteado, NEW c \in Clientes, AlDia(c), AccionesDeCliente(c),
         sel'[c] # sel[c]
  PROVE  AlDia(c)'
<1>s. PICK s \in EstadosDeSelect : s = sel[c]
  BY DEF DatosInv, TypeOK
<1> DEFINE t == s.tabla
           k == s.key
<1>0. /\ s \in EstadosDeSelect /\ t \in Tablas /\ k \in Claves
      /\ s.debidos \in SUBSET Timestamps /\ s.leidos \in SUBSET Timestamps
      /\ sel \in [Clientes -> EstadosDeSelect]
      /\ TypeOK /\ ArchivosInv /\ MutexInv /\ OrigenInv /\ NadaSePierde
  BY <1>s DEF DatosInv, TypeOK, EstadosDeSelect
<1>a. /\ EnTabla(t) \in SUBSET Registro /\ EnArchivos(t) \in SUBSET Registro
      /\ insertados[t] \in SUBSET Registro
  BY <1>0, DatosBienTipados DEF DatosDeRegistros, TypeOK
<1>1. ASSUME NEW u \in Tablas, NEW q \in Claves, PedirSelect(c, u, q)
      PROVE  AlDia(c)'
  <2>1. sel'[c].pc = "pedido"
    BY <1>0, <1>1 DEF PedirSelect, Ocioso
  <2> QED BY <2>1 DEF AlDia
<1>2. CASE LeerMemtable(c)
  <2>1. /\ sel'[c].pc = "esperaMutex" /\ sel'[c].tabla = t /\ sel'[c].key = k
        /\ sel'[c].debidos = s.debidos
        /\ sel'[c].leidos = TimestampsDe(Range(memtable[t]), k)
        /\ UNCHANGED <<archivos, comp>>
    BY <1>s, <1>0, <1>2 DEF LeerMemtable, EnMemtable, EstadosDeSelect
  <2>2. EnArchivos(t)' = EnArchivos(t)
    BY <2>1 DEF archivos, EnArchivos, EnTemporales, EnParticiones, EnVuelo, EnPreparacion
  <2>3. Alcanzables(c)' = TimestampsDe(EnTabla(t), k)
    <3>1. Alcanzables(c)' = sel'[c].leidos \cup TimestampsDe(EnArchivos(t)', k)
      BY <2>1 DEF Alcanzables
    <3> QED BY <2>1, <2>2, <3>1 DEF EnTabla, TimestampsDe
  <2>4. ASSUME NEW d \in s.debidos PROVE \E y \in TimestampsDe(EnTabla(t), k) : y >= d
    <3>1. d \in TimestampsDe(insertados[t], k)
      BY <1>s, <1>0 DEF OrigenInv, OrigenDeSelect
    <3>2. d >= d /\ d \in Timestamps
      BY <1>0, TimestampsSonEnteros
    <3>3. \A r \in insertados[t] : Cubre(EnTabla(t), r)
      BY <1>0 DEF NadaSePierde
    <3> QED BY <1>a, <3>1, <3>2, <3>3, VistoEnCobertura
  <2> QED BY <2>1, <2>3, <2>4 DEF AlDia
<1>3. CASE BloquearPropio(c)
  <2>1. /\ sel'[c].pc = "leeTmp" /\ sel'[c].tabla = t /\ sel'[c].key = k
        /\ sel'[c].debidos = s.debidos /\ sel'[c].leidos = s.leidos
        /\ UNCHANGED <<archivos, comp>> /\ s.pc = "esperaMutex"
    BY <1>s, <1>0, <1>3 DEF BloquearPropio, EstadosDeSelect
  <2>2. EnArchivos(t)' = EnArchivos(t)
    BY <2>1 DEF archivos, EnArchivos, EnTemporales, EnParticiones, EnVuelo, EnPreparacion
  <2>3. Alcanzables(c)' = Alcanzables(c)
    <3>1. Alcanzables(c)' = sel'[c].leidos \cup TimestampsDe(EnArchivos(t)', k)
      BY <2>1 DEF Alcanzables
    <3>2. Alcanzables(c) = s.leidos \cup TimestampsDe(EnArchivos(t), k)
      BY <1>s, <2>1 DEF Alcanzables
    <3> QED BY <2>1, <2>2, <3>1, <3>2
  <2> QED BY <1>s, <2>1, <2>3 DEF AlDia
<1>4. CASE LeerTmp(c)
  <2>1. /\ sel'[c].pc = "leeParticion" /\ sel'[c].tabla = t /\ sel'[c].key = k
        /\ sel'[c].debidos = s.debidos
        /\ sel'[c].leidos = s.leidos \cup TimestampsDe(EnTemporales(t), k)
        /\ bin' = bin /\ s.pc = "leeTmp"
    BY <1>s, <1>0, <1>4 DEF LeerTmp, EstadosDeSelect, archivos
  <2>2. EnVuelo(t) = {}
    BY <1>s, <1>0, <2>1, ExclusionDeMutexInv DEF Exclusion, Leyendo, Reescribiendo, EnVuelo
  <2>3. Alcanzables(c)' = Alcanzables(c)
    <3>1. Alcanzables(c)' = sel'[c].leidos \cup TimestampsDe(EnParticiones(t)', k)
      BY <2>1 DEF Alcanzables
    <3>2. Alcanzables(c) = s.leidos \cup TimestampsDe(EnArchivos(t), k)
      BY <1>s, <2>1 DEF Alcanzables
    <3>3. EnParticiones(t)' = EnParticiones(t)
      BY <2>1 DEF EnParticiones
    <3> QED BY <2>1, <2>2, <3>1, <3>2, <3>3 DEF EnArchivos, TimestampsDe
  <2> QED BY <1>s, <2>1, <2>3 DEF AlDia
<1>5. CASE LeerParticion(c)
  <2> DEFINE enParticion == Range(bin[t][Particion(k)].registros)
  <2>1. /\ sel'[c].pc = "leyo" /\ sel'[c].tabla = t /\ sel'[c].key = k
        /\ sel'[c].debidos = s.debidos
        /\ sel'[c].leidos = s.leidos \cup TimestampsDe(enParticion, k)
        /\ s.pc = "leeParticion"
    BY <1>s, <1>0, <1>5 DEF LeerParticion, EstadosDeSelect
  <2>2. TimestampsDe(EnParticiones(t), k) \subseteq TimestampsDe(enParticion, k)
    <3>1. ASSUME NEW r \in EnParticiones(t), r.key = k PROVE r \in enParticion
      <4>1. PICK p \in Particiones : r \in Range(bin[t][p].registros)
        BY <3>1 DEF EnParticiones
      <4>2. Particion(k) = p
        BY <1>0, <3>1, <4>1 DEF ArchivosInv, ArchivosDeTabla, EsDeSusClaves
      <4> QED BY <4>1, <4>2
    <3> QED BY <3>1 DEF TimestampsDe
  <2>3. /\ Alcanzables(c)' = sel'[c].leidos
        /\ Alcanzables(c) = s.leidos \cup TimestampsDe(EnParticiones(t), k)
    BY <1>s, <2>1 DEF Alcanzables
  <2>4. Alcanzables(c) \subseteq Alcanzables(c)'
    BY <2>1, <2>2, <2>3
  <2> QED BY <1>s, <2>1, <2>4 DEF AlDia
<1>6. CASE Responder(c)
  <2>1. PICK r \in Primeros(s.leidos) :
          sel' = [sel EXCEPT ![c].pc = "respondido", ![c].leidos = {}, ![c].respuesta = r]
    BY <1>s, <1>6 DEF Responder
  <2>2. /\ sel'[c].pc = "respondido" /\ sel'[c].respuesta = r
        /\ sel'[c].debidos = s.debidos /\ s.pc = "leyo"
    BY <1>s, <1>0, <1>6, <2>1 DEF Responder, EstadosDeSelect
  <2>3. Alcanzables(c) = s.leidos
    BY <1>s, <2>2 DEF Alcanzables
  <2>4. ASSUME NEW d \in s.debidos PROVE r >= d
    <3>1. PICK x \in s.leidos : x >= d
      BY <1>s, <2>2, <2>3 DEF AlDia
    <3>2. r \in s.leidos /\ x <= r
      BY <2>1, <3>1 DEF Primeros
    <3>3. r \in Int /\ x \in Int /\ d \in Int
      BY <1>0, <3>1, <3>2, TimestampsSonEnteros
    <3> QED BY <3>1, <3>2, <3>3
  <2> QED BY <2>2, <2>4 DEF AlDia
<1>7. CASE Enviar(c)
  <2>1. sel'[c].pc = "ocioso"
    BY <1>0, <1>7 DEF Enviar, Ocioso
  <2> QED BY <2>1 DEF AlDia
<1> QED BY <1>1, <1>2, <1>3, <1>4, <1>5, <1>6, <1>7
        DEF AccionesDeCliente, Insertar, LeerTmpIncompleto

\* Only its own thread changes the SELECT of a client.
LEMMA SoloElCliente ==
  ASSUME TypeOK, [Next]_vars, NEW c \in Clientes
  PROVE  AccionesDeCliente(c) \/ sel'[c] = sel[c]
<1>1. ASSUME NEW d \in Clientes, d # c, AccionesDeCliente(d)
      PROVE  sel'[c] = sel[c]
  BY <1>1 DEF AccionesDeCliente, Insertar, PedirSelect, LeerMemtable, BloquearPropio,
       LeerTmp, LeerTmpIncompleto, LeerParticion, Responder, Enviar, TypeOK
<1>2. ASSUME AccionesDeDump PROVE sel' = sel
  BY <1>2 DEF AccionesDeDump, ComenzarDump, AbrirTmp, SaltearTabla, EscribirTmp,
       TerminarDump
<1>3. ASSUME NEW u \in Tablas, AccionesDeCompactacion(u) PROVE sel' = sel
  BY <1>3 DEF AccionesDeCompactacion, ComenzarCompactacion, Bloquear, Desbloquear,
       Renombrar, Mezclar, NadaQueCompactar, LiberarBloques, GuardarParticion,
       Guardado, TerminarCompactacion
<1>4. ASSUME Caido \/ UNCHANGED vars PROVE sel' = sel
  BY <1>4 DEF Caido, vars
<1> QED BY <1>1, <1>2, <1>3, <1>4 DEF Next

LEMMA SelectInvInductivo ==
  /\ Init => SelectInv
  /\ DatosInv /\ SelectInv /\ [Next]_vars => SelectInv'
<1>1. ASSUME Init PROVE SelectInv
  <2>1. \A c \in Clientes : sel[c].pc = "ocioso"
    BY <1>1 DEF Init, Ocioso
  <2> QED BY <2>1 DEF SelectInv, AlDia
<1>2. ASSUME DatosInv, SelectInv, [Next]_vars PROVE SelectInv'
  <2>1. ASSUME NadaSalteado', NEW c \in Clientes PROVE AlDia(c)'
    <3>1. TypeOK /\ NadaSalteado /\ ~sinBloques'
      BY <1>2, <2>1, SalteadoQueda DEF DatosInv
    <3>2. AlDia(c)
      BY <1>2, <3>1 DEF SelectInv
    <3>3. CASE sel'[c] = sel[c]
      BY <1>2, <3>1, <3>2, <3>3, AlDiaSiOtroSeMueve
    <3>4. CASE sel'[c] # sel[c]
      BY <1>2, <3>1, <3>2, <3>4, SoloElCliente, AlDiaSiAvanza
    <3> QED BY <3>3, <3>4
  <2> QED BY <2>1 DEF SelectInv
<1> QED BY <1>1, <1>2

\* A SELECT answers with a record at least as new as every INSERT of its key
\* acknowledged before it arrived, for any number of clients, tables and
\* partitions, as long as the disk has blocks and every dump opens its files.
THEOREM LecturasFrescas == Spec => []Frescura
<1>1. Init => DatosInv /\ SelectInv
  BY DatosInvInductivo, SelectInvInductivo
<1>2. DatosInv /\ SelectInv /\ [Next]_vars => (DatosInv /\ SelectInv)'
  BY DatosInvInductivo, SelectInvInductivo
<1>3. SelectInv => Frescura
  BY DEF SelectInv, AlDia, Frescura
<1> QED BY <1>1, <1>2, <1>3, PTL DEF Spec

------------------------------------------------------------------------------
(* LFS implements TablaAbstracta.                                          *)

\* The abstract state, as a definition of this module.
pedidos == [c \in Clientes |-> Pedido(sel[c])]

LEMMA InitImplementa == Init => Abstracta!Init
<1> SUFFICES ASSUME Init PROVE Abstracta!Init
  OBVIOUS
<1>1. \A c \in Clientes : sel[c].pc = "ocioso"
  BY DEF Init, Ocioso
<1>2. \A c \in Clientes : Pedido(sel[c]) = [estado |-> "ninguno"]
  BY <1>1 DEF Pedido
<1>3. (~NadaSalteado) = FALSE
  BY DEF Init, NadaSalteado
<1> QED BY <1>2, <1>3 DEF Init, Abstracta!Init, Abstracta!SinPedido

\* A step of one client's SELECT changes its abstract request only.
LEMMA PedidosTrasPaso ==
  ASSUME TypeOK, [Next]_vars, NEW c \in Clientes, AccionesDeCliente(c)
  PROVE  pedidos' = [pedidos EXCEPT ![c] = Pedido(sel'[c])]
<1>1. \A d \in Clientes : d # c => sel'[d] = sel[d]
  BY DEF AccionesDeCliente, Insertar, PedirSelect, LeerMemtable, BloquearPropio,
         LeerTmp, LeerTmpIncompleto, LeerParticion, Responder, Enviar, TypeOK
<1>2. \A d \in Clientes : Pedido(sel[d])' = Pedido(sel'[d])
  BY DEF Pedido
<1> QED BY <1>1, <1>2 DEF pedidos

LEMMA PasoDeClienteImplementa ==
  ASSUME DatosInv, SelectInv, [Next]_vars, NEW c \in Clientes, AccionesDeCliente(c)
  PROVE  [Abstracta!Next]_(Abstracta!vars)
<1> USE DEF Abstracta!SinPedido
<1>s. PICK s \in EstadosDeSelect : s = sel[c]
  BY DEF DatosInv, TypeOK
<1> DEFINE t == s.tabla
           k == s.key
           n == sel'[c]
<1>0. /\ t \in Tablas /\ k \in Claves /\ sel \in [Clientes -> EstadosDeSelect]
      /\ TypeOK /\ pedidos[c] = Pedido(s)
      /\ pedidos' = [pedidos EXCEPT ![c] = Pedido(n)]
      /\ pedidos \in [Clientes -> {Pedido(x) : x \in EstadosDeSelect}]
  BY <1>s, PedidosTrasPaso DEF DatosInv, TypeOK, EstadosDeSelect, pedidos
\* A step of the SELECT that its client does not see.
<1>a. ASSUME UNCHANGED <<insertados, NadaSalteado>>, Pedido(n) = Pedido(s)
      PROVE  [Abstracta!Next]_(Abstracta!vars)
  <2>1. pedidos' = pedidos
    BY <1>0, <1>a
  <2> QED BY <1>a, <2>1 DEF Abstracta!vars, pedidos
<1>1. ASSUME NEW u \in Tablas, NEW r \in Registro, Insertar(c, u, r)
      PROVE  [Abstracta!Next]_(Abstracta!vars)
  <2>1. sel' = sel /\ NadaSalteado' = NadaSalteado
    BY <1>1 DEF Insertar, archivos, NadaSalteado
  <2>2. pedidos' = pedidos
    BY <2>1 DEF pedidos
  <2>3. Abstracta!Insertar(u, r)
    BY <1>1, <2>1, <2>2 DEF Insertar, Abstracta!Insertar, pedidos
  <2> QED BY <2>3 DEF Abstracta!Next, Abstracta!Registro, Registro
<1>2. ASSUME NEW u \in Tablas, NEW q \in Claves, PedirSelect(c, u, q)
      PROVE  [Abstracta!Next]_(Abstracta!vars)
  <2>1. /\ n.pc = "pedido" /\ n.tabla = u /\ n.key = q
        /\ n.debidos = TimestampsDe(insertados[u], q)
        /\ s.pc = "ocioso" /\ UNCHANGED <<insertados, NadaSalteado>>
    BY <1>s, <1>0, <1>2 DEF PedirSelect, Ocioso, historia, archivos,
        NadaSalteado
  <2>2. /\ Pedido(s) = [estado |-> "ninguno"]
        /\ Pedido(n) = [estado |-> "pendiente", tabla |-> u, key |-> q,
                        debidos |-> Abstracta!DeLaClave(u, q)]
    BY <2>1 DEF Pedido, TimestampsDe, Abstracta!DeLaClave
  <2>3. Abstracta!Pedir(c, u, q)
    BY <1>0, <2>1, <2>2 DEF Abstracta!Pedir, pedidos
  <2> QED BY <2>3 DEF Abstracta!Next
<1>3. CASE LeerMemtable(c)
  <2>1. /\ n.pc = "esperaMutex" /\ s.pc = "pedido" /\ n.tabla = t /\ n.key = k
        /\ n.debidos = s.debidos /\ UNCHANGED <<insertados, NadaSalteado>>
    BY <1>s, <1>0, <1>3 DEF LeerMemtable, EstadosDeSelect, historia, archivos,
        NadaSalteado
  <2> QED BY <1>a, <2>1 DEF Pedido
<1>4. CASE BloquearPropio(c)
  <2>1. /\ n.pc = "leeTmp" /\ s.pc = "esperaMutex" /\ n.tabla = t /\ n.key = k
        /\ n.debidos = s.debidos /\ UNCHANGED <<insertados, NadaSalteado>>
    BY <1>s, <1>0, <1>4 DEF BloquearPropio, EstadosDeSelect, historia, archivos,
        NadaSalteado
  <2> QED BY <1>a, <2>1 DEF Pedido
<1>5. CASE LeerTmp(c)
  <2>1. /\ n.pc = "leeParticion" /\ s.pc = "leeTmp" /\ n.tabla = t /\ n.key = k
        /\ n.debidos = s.debidos /\ UNCHANGED <<insertados, NadaSalteado>>
    BY <1>s, <1>0, <1>5 DEF LeerTmp, EstadosDeSelect, historia, archivos,
        NadaSalteado
  <2> QED BY <1>a, <2>1 DEF Pedido
<1>6. CASE LeerTmpIncompleto(c)
  BY <1>s, <1>a, <1>6 DEF LeerTmpIncompleto, historia, archivos,
        NadaSalteado
<1>7. CASE LeerParticion(c)
  <2>1. /\ n.pc = "leyo" /\ s.pc = "leeParticion" /\ n.tabla = t /\ n.key = k
        /\ n.debidos = s.debidos /\ UNCHANGED <<insertados, NadaSalteado>>
    BY <1>s, <1>0, <1>7 DEF LeerParticion, EstadosDeSelect, historia, archivos,
        NadaSalteado
  <2> QED BY <1>a, <2>1 DEF Pedido
<1>8. CASE Responder(c)
  <2>1. PICK r \in Primeros(s.leidos) :
          sel' = [sel EXCEPT ![c].pc = "respondido", ![c].leidos = {}, ![c].respuesta = r]
    BY <1>s, <1>8 DEF Responder
  <2>2. /\ n.pc = "respondido" /\ n.respuesta = r /\ s.pc = "leyo"
        /\ n.tabla = t /\ n.key = k /\ n.debidos = s.debidos
        /\ UNCHANGED <<insertados, NadaSalteado>>
    BY <1>s, <1>0, <1>8, <2>1 DEF Responder, EstadosDeSelect, historia, archivos,
        NadaSalteado
  <2>3. r \in Abstracta!DeLaClave(t, k) \cup {Abstracta!KEY_NO_EXISTE}
    <3>1. s.leidos \subseteq TimestampsDe(insertados[t], k)
      BY <1>s DEF DatosInv, OrigenInv, OrigenDeSelect
    <3>2. r \in s.leidos \cup {KEY_NO_EXISTE}
      BY <2>1 DEF Primeros
    <3> QED BY <3>1, <3>2
            DEF TimestampsDe, Abstracta!DeLaClave, Abstracta!KEY_NO_EXISTE, KEY_NO_EXISTE
  <2>4. ~NadaSalteado \/ \A d \in s.debidos : r >= d
    <3>1. ASSUME NadaSalteado PROVE AlDia(c)'
      <4>1. NadaSalteado'
        BY <2>2, <3>1
      <4>2. SelectInv'
        BY SelectInvInductivo
      <4> QED BY <4>1, <4>2 DEF SelectInv
    <3> QED BY <2>2, <3>1 DEF AlDia
  <2>5. /\ Pedido(s) = [estado |-> "pendiente", tabla |-> t, key |-> k,
                        debidos |-> s.debidos]
        /\ Pedido(n) = [estado |-> "respondido", respuesta |-> r]
    BY <2>2 DEF Pedido
  <2>6. r \in Abstracta!Permitidas(Pedido(s))
    BY <2>3, <2>4, <2>5 DEF Abstracta!Permitidas
  <2>7. Abstracta!Responder(c)
    <3>1. pedidos[c].estado = "pendiente"
      BY <1>0, <2>5
    <3>2. \E x \in Abstracta!Permitidas(pedidos[c]) :
            pedidos' = [pedidos EXCEPT ![c] = [estado |-> "respondido", respuesta |-> x]]
      BY <1>0, <2>5, <2>6
    <3> QED BY <2>2, <3>1, <3>2, Zenon DEF Abstracta!Responder, pedidos
  <2> QED BY <2>7 DEF Abstracta!Next
<1>9. CASE Enviar(c)
  <2>1. /\ n.pc = "ocioso" /\ s.pc = "respondido"
        /\ UNCHANGED <<insertados, NadaSalteado>>
    BY <1>s, <1>0, <1>9 DEF Enviar, Ocioso, historia, archivos,
        NadaSalteado
  <2>2. /\ Pedido(s) = [estado |-> "respondido", respuesta |-> s.respuesta]
        /\ Pedido(n) = [estado |-> "ninguno"]
    BY <2>1 DEF Pedido
  <2>3. Abstracta!Olvidar(c)
    BY <1>0, <2>1, <2>2 DEF Abstracta!Olvidar, pedidos
  <2> QED BY <2>3 DEF Abstracta!Next
<1> QED BY <1>1, <1>2, <1>3, <1>4, <1>5, <1>6, <1>7, <1>8, <1>9
        DEF AccionesDeCliente

\* The dump and the compactors only degrade the table, when they drop records.
LEMMA OtroPasoImplementa ==
  ASSUME DatosInv, [Next]_vars, sel' = sel, insertados' = insertados
  PROVE  [Abstracta!Next]_(Abstracta!vars)
<1>1. pedidos' = pedidos
  BY DEF pedidos
<1>2. (NadaSalteado \in BOOLEAN) /\ (NadaSalteado' \in BOOLEAN)
      /\ (NadaSalteado' => NadaSalteado)
  BY SalteadoQueda DEF DatosInv, NadaSalteado
<1>3. CASE NadaSalteado' = NadaSalteado
  BY <1>1, <1>3 DEF Abstracta!vars, pedidos
<1>4. CASE (~NadaSalteado') = TRUE
  <2>1. Abstracta!Degradar
    BY <1>1, <1>4, Zenon DEF Abstracta!Degradar, pedidos
  <2> QED BY <2>1 DEF Abstracta!Next
<1> QED BY <1>2, <1>3, <1>4

\* Every behaviour of the storage engine is one of the abstract table: with the
\* memtable, the temporaries, the partitions and their mutexes hidden, a SELECT
\* is answered from the records inserted, and from none older than it owes until
\* a dump drops records (no free block, a .tmp that does not open).
THEOREM LFSImplementaTabla == Spec => ImplementaTabla
<1>1. Init => DatosInv /\ SelectInv
  BY DatosInvInductivo, SelectInvInductivo
<1>2. DatosInv /\ SelectInv /\ [Next]_vars => (DatosInv /\ SelectInv)'
  BY DatosInvInductivo, SelectInvInductivo
<1>3. DatosInv /\ SelectInv /\ [Next]_vars => [Abstracta!Next]_(Abstracta!vars)
  <2> SUFFICES ASSUME DatosInv, SelectInv, [Next]_vars
               PROVE  [Abstracta!Next]_(Abstracta!vars)
    OBVIOUS
  <2>1. CASE \E c \in Clientes : AccionesDeCliente(c)
    BY <2>1, PasoDeClienteImplementa
  <2>2. ASSUME AccionesDeDump PROVE UNCHANGED <<sel, insertados>>
    BY <2>2 DEF AccionesDeDump, ComenzarDump, AbrirTmp, SaltearTabla, EscribirTmp,
       TerminarDump, historia
  <2>3. ASSUME NEW u \in Tablas, AccionesDeCompactacion(u)
        PROVE  UNCHANGED <<sel, insertados>>
    BY <2>3 DEF AccionesDeCompactacion, ComenzarCompactacion, Bloquear, Desbloquear,
         Renombrar, Mezclar, NadaQueCompactar, LiberarBloques, GuardarParticion,
         Guardado, TerminarCompactacion, historia
  <2>4. ASSUME Caido \/ UNCHANGED vars PROVE UNCHANGED <<sel, insertados>>
    BY <2>4 DEF Caido, vars, historia
  <2> QED BY <2>1, <2>2, <2>3, <2>4, OtroPasoImplementa DEF Next
<1> QED BY <1>1, <1>2, <1>3, InitImplementa, PTL DEF Spec, ImplementaTabla, Abstracta!Spec

------------------------------------------------------------------------------
(* Lists of blocks, whatever they belong to: f gives the blocks of each.   *)

Exacto(bm, f) ==
  /\ bm = UNION {f[l] : l \in DOMAIN f}
  /\ \A l, m \in DOMAIN f : l # m => f[l] \cap f[m] = {}

\* A list that takes free blocks.
LEMMA ExactoAlAgregar ==
  ASSUME NEW bm, NEW f, Exacto(bm, f), NEW x, x \notin DOMAIN f,
         NEW S, S \cap bm = {}, NEW g, DOMAIN g = DOMAIN f \cup {x}, g[x] = S,
         \A l \in DOMAIN f : g[l] = f[l]
  PROVE  Exacto(bm \cup S, g)
<1>1. bm \cup S = UNION {g[l] : l \in DOMAIN g}
  BY DEF Exacto
<1>2. \A l \in DOMAIN f : f[l] \subseteq bm
  BY DEF Exacto
<1>3. ASSUME NEW l \in DOMAIN g, NEW m \in DOMAIN g, l # m PROVE g[l] \cap g[m] = {}
  <2>1. CASE l \in DOMAIN f /\ m \in DOMAIN f
    BY <1>3, <2>1 DEF Exacto
  <2>2. CASE l = x /\ m \in DOMAIN f
    BY <1>2, <2>2
  <2>3. CASE l \in DOMAIN f /\ m = x
    BY <1>2, <2>3
  <2> QED BY <1>3, <2>1, <2>2, <2>3
<1> QED BY <1>1, <1>3, Zenon DEF Exacto

\* Lists that go and give their blocks back.
LEMMA ExactoAlQuitar ==
  ASSUME NEW bm, NEW f, Exacto(bm, f), NEW g, DOMAIN g \subseteq DOMAIN f,
         \A l \in DOMAIN g : g[l] = f[l]
  PROVE  Exacto(bm \ UNION {f[l] : l \in DOMAIN f \ DOMAIN g}, g)
<1>1. \A l \in DOMAIN f, m \in DOMAIN f : l # m => f[l] \cap f[m] = {}
  BY DEF Exacto
<1> DEFINE quitados == UNION {f[l] : l \in DOMAIN f \ DOMAIN g}
<1>2. bm \ quitados = UNION {g[l] : l \in DOMAIN g}
  <2>1. ASSUME NEW b \in bm \ quitados PROVE \E l \in DOMAIN g : b \in g[l]
    <3>1. PICK l \in DOMAIN f : b \in f[l]
      BY DEF Exacto
    <3>2. l \in DOMAIN g
      BY <3>1
    <3> QED BY <3>1, <3>2
  <2>2. ASSUME NEW l \in DOMAIN g, NEW b \in g[l] PROVE b \in bm \ quitados
    <3>1. l \in DOMAIN f /\ b \in f[l] /\ b \in bm
      BY DEF Exacto
    <3>2. ASSUME NEW m \in DOMAIN f \ DOMAIN g PROVE b \notin f[m]
      BY <1>1, <3>1
    <3> QED BY <3>1, <3>2
  <2> QED BY <2>1, <2>2
<1>3. \A l, m \in DOMAIN g : l # m => g[l] \cap g[m] = {}
  BY <1>1
<1> QED BY <1>2, <1>3, Zenon DEF Exacto

\* Lists that change hands; those that are left out have no blocks.
LEMMA ExactoAlMudar ==
  ASSUME NEW bm, NEW f, Exacto(bm, f), NEW g, NEW h \in [DOMAIN g -> DOMAIN f],
         \A l \in DOMAIN g : g[l] = f[h[l]],
         \A l, m \in DOMAIN g : h[l] = h[m] => l = m,
         \A l \in DOMAIN f : f[l] = {} \/ \E m \in DOMAIN g : h[m] = l
  PROVE  Exacto(bm, g)
<1>1. bm = UNION {g[l] : l \in DOMAIN g}
  <2>1. ASSUME NEW b \in bm PROVE \E l \in DOMAIN g : b \in g[l]
    <3>1. PICK l \in DOMAIN f : b \in f[l]
      BY DEF Exacto
    <3>2. PICK m \in DOMAIN g : h[m] = l
      BY <3>1
    <3> QED BY <3>1, <3>2
  <2>2. ASSUME NEW l \in DOMAIN g, NEW b \in g[l] PROVE b \in bm
    <3>1. h[l] \in DOMAIN f /\ b \in f[h[l]]
      OBVIOUS
    <3> QED BY <3>1 DEF Exacto
  <2> QED BY <2>1, <2>2
<1>2. ASSUME NEW l \in DOMAIN g, NEW m \in DOMAIN g, l # m PROVE g[l] \cap g[m] = {}
  <2>1. h[l] # h[m] /\ h[l] \in DOMAIN f /\ h[m] \in DOMAIN f
    BY <1>2
  <2> QED BY <2>1 DEF Exacto
<1> QED BY <1>1, <1>2, Zenon DEF Exacto

------------------------------------------------------------------------------
(* The files of the tables.                                                *)

Listado == [l \in ListasDeBloques |-> BloquesListados(l)]

LEMMA BitmapExactoEsExacto == BitmapExacto <=> Exacto(bitmap, Listado)
BY DEF BitmapExacto, Exacto, Listado

LEMMA BitmapExactoEsExactoDespues == BitmapExacto' <=> Exacto(bitmap', Listado')
BY DEF BitmapExacto, Exacto, Listado

\* The lists of the i-th file of a table, or of its i-th partition.
DeBin(t, i) == <<"bin", t, i>>
DeTmp(t, i) == <<"tmp", t, i>>
DeTmpc(t, i) == <<"tmpc", t, i>>

LEMMA SonDistintas ==
  ASSUME NEW t, NEW i, NEW u, NEW j
  PROVE  /\ DeBin(t, i) = DeBin(u, j) => t = u /\ i = j
         /\ DeTmp(t, i) = DeTmp(u, j) => t = u /\ i = j
         /\ DeTmpc(t, i) = DeTmpc(u, j) => t = u /\ i = j
         /\ DeBin(t, i) # DeTmp(u, j) /\ DeBin(t, i) # DeTmpc(u, j)
         /\ DeTmp(t, i) # DeTmpc(u, j)
BY DEF DeBin, DeTmp, DeTmpc

\* The lists there are, kind by kind, and the blocks of each.
ListadoPorTipo ==
  /\ \A l \in DOMAIN Listado : \E t, i : l = DeBin(t, i) \/ l = DeTmp(t, i) \/ l = DeTmpc(t, i)
  /\ \A t, i : /\ DeBin(t, i) \in DOMAIN Listado <=>
                    t \in Tablas /\ i \in Particiones /\ ~EnReescritura(t, i)
               /\ DeTmp(t, i) \in DOMAIN Listado <=> t \in Tablas /\ i \in DOMAIN tmp[t]
               /\ DeTmpc(t, i) \in DOMAIN Listado <=> t \in Tablas /\ i \in DOMAIN tmpc[t]
               /\ DeBin(t, i) \in DOMAIN Listado => Listado[DeBin(t, i)] = bin[t][i].bloques
               /\ DeTmp(t, i) \in DOMAIN Listado => Listado[DeTmp(t, i)] = tmp[t][i].bloques
               /\ DeTmpc(t, i) \in DOMAIN Listado => Listado[DeTmpc(t, i)] = tmpc[t][i].bloques

LEMMA QueEsListado == ListadoPorTipo
<1>1. \A l : l \in ListasDeBloques <=>
        \/ \E t \in Tablas : \E p \in Particiones : l = <<"bin", t, p>> /\ ~EnReescritura(t, p)
        \/ \E t \in Tablas : \E i \in DOMAIN tmp[t] : l = <<"tmp", t, i>>
        \/ \E t \in Tablas : \E i \in DOMAIN tmpc[t] : l = <<"tmpc", t, i>>
  BY DEF ListasDeBloques
<1>2. \A l : l \in ListasDeBloques <=>
        \/ \E t \in Tablas : \E p \in Particiones : l = DeBin(t, p) /\ ~EnReescritura(t, p)
        \/ \E t \in Tablas : \E i \in DOMAIN tmp[t] : l = DeTmp(t, i)
        \/ \E t \in Tablas : \E i \in DOMAIN tmpc[t] : l = DeTmpc(t, i)
  BY <1>1, Zenon DEF DeBin, DeTmp, DeTmpc
<1>3. /\ \A t, i : BloquesListados(DeBin(t, i)) = bin[t][i].bloques
      /\ \A t, i : BloquesListados(DeTmp(t, i)) = tmp[t][i].bloques
      /\ \A t, i : BloquesListados(DeTmpc(t, i)) = tmpc[t][i].bloques
  BY DEF BloquesListados, DeBin, DeTmp, DeTmpc
<1>4. DOMAIN Listado = ListasDeBloques /\ \A l \in ListasDeBloques : Listado[l] = BloquesListados(l)
  BY DEF Listado
<1>5. \A l \in DOMAIN Listado : \E t, i : l = DeBin(t, i) \/ l = DeTmp(t, i) \/ l = DeTmpc(t, i)
  BY <1>2, <1>4
<1>6. ASSUME NEW t, NEW i
      PROVE  /\ DeBin(t, i) \in ListasDeBloques <=>
                  t \in Tablas /\ i \in Particiones /\ ~EnReescritura(t, i)
             /\ DeTmp(t, i) \in ListasDeBloques <=> t \in Tablas /\ i \in DOMAIN tmp[t]
             /\ DeTmpc(t, i) \in ListasDeBloques <=> t \in Tablas /\ i \in DOMAIN tmpc[t]
  <2>a. \A x, y : /\ DeBin(t, i) = DeBin(x, y) => x = t /\ y = i
                  /\ DeTmp(t, i) = DeTmp(x, y) => x = t /\ y = i
                  /\ DeTmpc(t, i) = DeTmpc(x, y) => x = t /\ y = i
                  /\ DeBin(t, i) # DeTmp(x, y) /\ DeBin(t, i) # DeTmpc(x, y)
                  /\ DeTmp(t, i) # DeTmpc(x, y) /\ DeTmp(t, i) # DeBin(x, y)
                  /\ DeTmpc(t, i) # DeTmp(x, y) /\ DeTmpc(t, i) # DeBin(x, y)
    BY SonDistintas
  <2>1. DeBin(t, i) \in ListasDeBloques <=>
          t \in Tablas /\ i \in Particiones /\ ~EnReescritura(t, i)
    BY <1>2, <2>a
  <2>2. DeTmp(t, i) \in ListasDeBloques <=> t \in Tablas /\ i \in DOMAIN tmp[t]
    BY <1>2, <2>a
  <2>3. DeTmpc(t, i) \in ListasDeBloques <=> t \in Tablas /\ i \in DOMAIN tmpc[t]
    BY <1>2, <2>a
  <2> QED BY <2>1, <2>2, <2>3
<1>7. ASSUME NEW t, NEW i
      PROVE  /\ DeBin(t, i) \in DOMAIN Listado => Listado[DeBin(t, i)] = bin[t][i].bloques
             /\ DeTmp(t, i) \in DOMAIN Listado => Listado[DeTmp(t, i)] = tmp[t][i].bloques
             /\ DeTmpc(t, i) \in DOMAIN Listado => Listado[DeTmpc(t, i)] = tmpc[t][i].bloques
  BY <1>3, <1>4
<1> QED BY <1>4, <1>5, <1>6, <1>7 DEF ListadoPorTipo

LEMMA QueEsListadoDespues == ListadoPorTipo'
BY QueEsListado, PTL

LEMMA TipoDeListado ==
  ASSUME NEW l, l \in DOMAIN Listado \/ l \in DOMAIN Listado'
  PROVE  \E u, i : l = DeBin(u, i) \/ l = DeTmp(u, i) \/ l = DeTmpc(u, i)
BY QueEsListado, QueEsListadoDespues DEF ListadoPorTipo

\* A step that touches no file and no bit.
LEMMA BitmapExactoSinCambios ==
  ASSUME BitmapExacto, UNCHANGED <<tmp, tmpc, bin, bitmap>>,
         \A t \in Tablas, p \in Particiones : EnReescritura(t, p)' = EnReescritura(t, p)
  PROVE  BitmapExacto'
<1>1. ListasDeBloques' = ListasDeBloques
  BY DEF ListasDeBloques
<1>2. \A l : BloquesListados(l)' = BloquesListados(l)
  BY DEF BloquesListados
<1> QED BY <1>1, <1>2 DEF BitmapExacto

------------------------------------------------------------------------------
(* The steps that take or free blocks.                                     *)

\* The blocks of a file that is written were free.
LEMMA ArchivoEscritoTomaLibres ==
  ASSUME NEW rs
  PROVE  ArchivoEscrito(rs).bloques \cap bitmap = {}
BY DEF ArchivoEscrito, BloquesDisponibles, BloquesLibres

LEMMA BitmapExactoTrasEscribirTmp ==
  ASSUME TypeOK, BitmapExacto, EscribirTmp
  PROVE  BitmapExacto'
<1> DEFINE t == dump.tabla
           a == ArchivoEscrito(memtable[t])
           n == Len(tmp[t]) + 1
           x == DeTmp(t, n)
<1>1. /\ t \in Tablas /\ tmp \in [Tablas -> Seq(Archivo)] /\ tmp[t] \in Seq(Archivo)
      /\ DOMAIN tmp[t] = 1..Len(tmp[t]) /\ Len(tmp[t]) \in Nat
  BY DEF TypeOK, EstadosDeDump
<1>2. /\ tmp' = [tmp EXCEPT ![t] = Append(@, a)]
      /\ bitmap' = bitmap \cup a.bloques /\ UNCHANGED <<tmpc, bin, comp>>
  BY DEF EscribirTmp
<1>3. a.bloques \cap bitmap = {}
  BY ArchivoEscritoTomaLibres
<1> HIDE DEF a
<1>4. /\ DOMAIN Append(tmp[t], a) = 1..n
      /\ Append(tmp[t], a)[n] = a
      /\ \A i \in 1..Len(tmp[t]) : Append(tmp[t], a)[i] = tmp[t][i]
  BY <1>1
<1>5. /\ DOMAIN tmp'[t] = DOMAIN tmp[t] \cup {n} /\ n \notin DOMAIN tmp[t]
      /\ tmp'[t][n] = a
      /\ \A i \in DOMAIN tmp[t] : tmp'[t][i] = tmp[t][i]
      /\ \A u \in Tablas : u # t => tmp'[u] = tmp[u]
  BY <1>1, <1>2, <1>4
<1>6. \A u, p : EnReescritura(u, p)' = EnReescritura(u, p)
  BY <1>2 DEF EnReescritura
<1>7. x \notin DOMAIN Listado /\ x \in DOMAIN Listado' /\ Listado'[x] = a.bloques
  BY <1>1, <1>5, QueEsListado, QueEsListadoDespues, SonDistintas DEF ListadoPorTipo
<1>8. ASSUME NEW u, NEW i
      PROVE  /\ DeBin(u, i) \in DOMAIN Listado' <=> DeBin(u, i) \in DOMAIN Listado
             /\ DeBin(u, i) \in DOMAIN Listado =>
                  Listado'[DeBin(u, i)] = Listado[DeBin(u, i)]
             /\ DeTmp(u, i) \in DOMAIN Listado' <=>
                  DeTmp(u, i) \in DOMAIN Listado \/ (u = t /\ i = n)
             /\ DeTmp(u, i) \in DOMAIN Listado =>
                  Listado'[DeTmp(u, i)] = Listado[DeTmp(u, i)]
             /\ DeTmpc(u, i) \in DOMAIN Listado' <=> DeTmpc(u, i) \in DOMAIN Listado
             /\ DeTmpc(u, i) \in DOMAIN Listado =>
                  Listado'[DeTmpc(u, i)] = Listado[DeTmpc(u, i)]
  BY <1>1, <1>2, <1>5, <1>6, QueEsListado, QueEsListadoDespues, SonDistintas DEF ListadoPorTipo
<1>9. ASSUME NEW l, l \in DOMAIN Listado \/ l \in DOMAIN Listado', l # x
      PROVE  l \in DOMAIN Listado /\ l \in DOMAIN Listado' /\ Listado'[l] = Listado[l]
  <2>1. PICK u, i : l = DeBin(u, i) \/ l = DeTmp(u, i) \/ l = DeTmpc(u, i)
    BY <1>9, TipoDeListado
  <2> QED BY <1>8, <1>9, <2>1, SonDistintas
<1> HIDE DEF x
<1>10. DOMAIN Listado' = DOMAIN Listado \cup {x}
  BY <1>7, <1>9
<1>11. Exacto(bitmap \cup a.bloques, Listado')
  BY <1>3, <1>7, <1>9, <1>10, BitmapExactoEsExacto, ExactoAlAgregar
<1> QED BY <1>2, <1>11, BitmapExactoEsExactoDespues

\* A file that takes the place of another, as rename() does, keeps its blocks;
\* the .tmpc files that were there had none.
LEMMA BitmapExactoTrasRenombrar ==
  ASSUME TypeOK, BitmapExacto, NEW t \in Tablas, Renombrar(t),
         \A i \in DOMAIN tmpc[t] : tmpc[t][i].bloques = {}
  PROVE  BitmapExacto'
<1> DEFINE es(l, i) == i \in DOMAIN tmp[t] /\ l = DeTmpc(t, i)
           h == [l \in DOMAIN Listado' |->
                   IF \E i : es(l, i) THEN DeTmp(t, CHOOSE i : es(l, i)) ELSE l]
<1>1. /\ tmpc' = [tmpc EXCEPT ![t] = Renombrados(@, tmp[t])]
      /\ tmp' = [tmp EXCEPT ![t] = <<>>]
      /\ UNCHANGED <<bin, bitmap>>
  BY DEF Renombrar
<1>2. /\ tmp \in [Tablas -> Seq(Archivo)] /\ tmpc \in [Tablas -> Seq(Archivo)]
      /\ comp \in [Tablas -> EstadosDeCompactacion]
  BY DEF TypeOK
<1>3. /\ DOMAIN tmp'[t] = {}
      /\ DOMAIN tmpc'[t] = DOMAIN tmpc[t] \cup DOMAIN tmp[t]
      /\ \A i \in DOMAIN tmp[t] : tmpc'[t][i] = tmp[t][i]
      /\ \A i \in DOMAIN tmpc[t] \ DOMAIN tmp[t] : tmpc'[t][i] = tmpc[t][i]
      /\ \A u \in Tablas : u # t => tmp'[u] = tmp[u] /\ tmpc'[u] = tmpc[u]
  BY <1>1, <1>2 DEF Renombrados
<1>4. \A u \in Tablas : \A p : EnReescritura(u, p)' = EnReescritura(u, p)
  BY <1>2 DEF EnReescritura, Renombrar, EstadosDeCompactacion
<1>5. ASSUME NEW u, NEW i
      PROVE  /\ DeBin(u, i) \in DOMAIN Listado' <=> DeBin(u, i) \in DOMAIN Listado
             /\ DeBin(u, i) \in DOMAIN Listado =>
                  Listado'[DeBin(u, i)] = Listado[DeBin(u, i)]
             /\ DeTmp(u, i) \in DOMAIN Listado' <=>
                  DeTmp(u, i) \in DOMAIN Listado /\ u # t
             /\ DeTmp(u, i) \in DOMAIN Listado' =>
                  Listado'[DeTmp(u, i)] = Listado[DeTmp(u, i)]
  BY <1>1, <1>3, <1>4, QueEsListado, QueEsListadoDespues, SonDistintas DEF ListadoPorTipo
<1>6. ASSUME NEW u, NEW i
      PROVE  /\ DeTmpc(u, i) \in DOMAIN Listado /\ u = t => Listado[DeTmpc(u, i)] = {}
             /\ DeTmpc(u, i) \in DOMAIN Listado /\ u # t =>
                  /\ DeTmpc(u, i) \in DOMAIN Listado'
                  /\ Listado'[DeTmpc(u, i)] = Listado[DeTmpc(u, i)]
             /\ i \in DOMAIN tmp[t] => /\ DeTmp(t, i) \in DOMAIN Listado
                                       /\ DeTmpc(t, i) \in DOMAIN Listado'
                                       /\ Listado'[DeTmpc(t, i)] = Listado[DeTmp(t, i)]
             /\ DeTmpc(u, i) \in DOMAIN Listado' /\ ~(u = t /\ i \in DOMAIN tmp[t]) =>
                  /\ DeTmpc(u, i) \in DOMAIN Listado
                  /\ Listado'[DeTmpc(u, i)] = Listado[DeTmpc(u, i)]
  BY <1>3, QueEsListado, QueEsListadoDespues, SonDistintas DEF ListadoPorTipo
<1>7. ASSUME NEW u, NEW i
      PROVE  /\ DeBin(u, i) \in DOMAIN Listado' => h[DeBin(u, i)] = DeBin(u, i)
             /\ DeTmp(u, i) \in DOMAIN Listado' => h[DeTmp(u, i)] = DeTmp(u, i)
             /\ DeTmpc(u, i) \in DOMAIN Listado' =>
                  h[DeTmpc(u, i)] = IF u = t /\ i \in DOMAIN tmp[t] THEN DeTmp(t, i)
                                                                      ELSE DeTmpc(u, i)
  BY SonDistintas
<1> HIDE DEF h
<1>8. ASSUME NEW u, NEW i
      PROVE  /\ DeBin(u, i) \in DOMAIN Listado' =>
                  /\ h[DeBin(u, i)] \in DOMAIN Listado
                  /\ Listado'[DeBin(u, i)] = Listado[h[DeBin(u, i)]]
             /\ DeTmp(u, i) \in DOMAIN Listado' =>
                  /\ h[DeTmp(u, i)] \in DOMAIN Listado
                  /\ Listado'[DeTmp(u, i)] = Listado[h[DeTmp(u, i)]]
             /\ DeTmpc(u, i) \in DOMAIN Listado' =>
                  /\ h[DeTmpc(u, i)] \in DOMAIN Listado
                  /\ Listado'[DeTmpc(u, i)] = Listado[h[DeTmpc(u, i)]]
  BY <1>5, <1>6, <1>7
<1>9. ASSUME NEW l \in DOMAIN Listado'
      PROVE  h[l] \in DOMAIN Listado /\ Listado'[l] = Listado[h[l]]
  <2>1. PICK u, i : l = DeBin(u, i) \/ l = DeTmp(u, i) \/ l = DeTmpc(u, i)
    BY TipoDeListado
  <2> QED BY <1>8, <2>1
<1>10. ASSUME NEW l \in DOMAIN Listado', NEW m \in DOMAIN Listado', h[l] = h[m]
       PROVE  l = m
  <2>1. PICK u, i : l = DeBin(u, i) \/ l = DeTmp(u, i) \/ l = DeTmpc(u, i)
    BY TipoDeListado
  <2>2. PICK v, j : m = DeBin(v, j) \/ m = DeTmp(v, j) \/ m = DeTmpc(v, j)
    BY TipoDeListado
  <2>3. /\ l = DeTmp(u, i) => u # t
        /\ m = DeTmp(v, j) => v # t
    BY <1>5
  <2>4. /\ l = DeBin(u, i) => h[l] = DeBin(u, i)
        /\ l = DeTmp(u, i) => h[l] = DeTmp(u, i)
    BY <1>7
  <2>5. l = DeTmpc(u, i) => h[l] = DeTmpc(u, i) \/ (h[l] = DeTmp(t, i) /\ u = t)
    BY <1>7
  <2>6. /\ m = DeBin(v, j) => h[m] = DeBin(v, j)
        /\ m = DeTmp(v, j) => h[m] = DeTmp(v, j)
    BY <1>7
  <2>7. m = DeTmpc(v, j) => h[m] = DeTmpc(v, j) \/ (h[m] = DeTmp(t, j) /\ v = t)
    BY <1>7
  <2> QED BY <1>10, <2>1, <2>2, <2>3, <2>4, <2>5, <2>6, <2>7, SonDistintas
<1>11. ASSUME NEW l \in DOMAIN Listado
       PROVE  Listado[l] = {} \/ \E m \in DOMAIN Listado' : h[m] = l
  <2>1. PICK u, i : l = DeBin(u, i) \/ l = DeTmp(u, i) \/ l = DeTmpc(u, i)
    BY TipoDeListado
  <2>2. DeBin(u, i) \in DOMAIN Listado =>
          DeBin(u, i) \in DOMAIN Listado' /\ h[DeBin(u, i)] = DeBin(u, i)
    BY <1>5, <1>7
  <2>3. DeTmp(u, i) \in DOMAIN Listado /\ u # t =>
          DeTmp(u, i) \in DOMAIN Listado' /\ h[DeTmp(u, i)] = DeTmp(u, i)
    BY <1>5, <1>7
  <2>4. DeTmp(u, i) \in DOMAIN Listado /\ u = t =>
          DeTmpc(u, i) \in DOMAIN Listado' /\ h[DeTmpc(u, i)] = DeTmp(u, i)
    BY <1>6, <1>7, QueEsListado DEF ListadoPorTipo
  <2>5. DeTmpc(u, i) \in DOMAIN Listado /\ u # t =>
          DeTmpc(u, i) \in DOMAIN Listado' /\ h[DeTmpc(u, i)] = DeTmpc(u, i)
    BY <1>6, <1>7
  <2>6. DeTmpc(u, i) \in DOMAIN Listado /\ u = t => Listado[DeTmpc(u, i)] = {}
    BY <1>6
  <2> QED BY <2>1, <2>2, <2>3, <2>4, <2>5, <2>6
<1>12. h \in [DOMAIN Listado' -> DOMAIN Listado]
  <2>1. h = [l \in DOMAIN Listado' |-> h[l]]
    BY DEF h
  <2> QED BY <1>9, <2>1
<1>13. Exacto(bitmap, Listado')
  BY <1>9, <1>10, <1>11, <1>12, BitmapExactoEsExacto, ExactoAlMudar
<1> QED BY <1>1, <1>13, BitmapExactoEsExactoDespues

\* liberarBloquesDeTmpCyParticiones gives back the blocks of the .tmpc files and
\* of the partitions to rewrite, and no others.
LEMMA BitmapExactoTrasLiberar ==
  ASSUME TypeOK, BitmapExacto, NEW t \in Tablas, LiberarBloques(t)
  PROVE  BitmapExacto'
<1> DEFINE k == comp[t]
<1>1. /\ bitmap' = bitmap \ (BloquesDe(tmpc[t]) \cup UNION {bin[t][p].bloques : p \in k.porGuardar})
      /\ tmpc' = [tmpc EXCEPT ![t] = <<>>] /\ tmp' = tmp
      /\ k.pc = "bloqueando2"
  BY DEF LiberarBloques
<1>2. /\ tmp \in [Tablas -> Seq(Archivo)] /\ tmpc \in [Tablas -> Seq(Archivo)]
      /\ bin \in [Tablas -> [Particiones -> Archivo]]
      /\ comp \in [Tablas -> EstadosDeCompactacion] /\ k.porGuardar \subseteq Particiones
  BY DEF TypeOK, EstadosDeCompactacion
<1>3. /\ DOMAIN tmpc'[t] = {}
      /\ \A u \in Tablas : u # t => tmpc'[u] = tmpc[u] /\ bin'[u] = bin[u]
      /\ \A p \in Particiones : bin'[t][p].bloques = bin[t][p].bloques
  BY <1>1, <1>2 DEF LiberarBloques, Archivo
<1>4. /\ \A u \in Tablas : \A p : u # t => EnReescritura(u, p)' = EnReescritura(u, p)
      /\ \A p : ~EnReescritura(t, p) /\ (EnReescritura(t, p)' <=> p \in k.porGuardar)
  BY <1>1, <1>2 DEF EnReescritura, LiberarBloques, EstadosDeCompactacion
<1>5. ASSUME NEW u, NEW i
      PROVE  /\ DeBin(u, i) \in DOMAIN Listado' <=>
                  DeBin(u, i) \in DOMAIN Listado /\ ~(u = t /\ i \in k.porGuardar)
             /\ DeBin(u, i) \in DOMAIN Listado' =>
                  Listado'[DeBin(u, i)] = Listado[DeBin(u, i)]
             /\ DeTmp(u, i) \in DOMAIN Listado' <=> DeTmp(u, i) \in DOMAIN Listado
             /\ DeTmp(u, i) \in DOMAIN Listado' =>
                  Listado'[DeTmp(u, i)] = Listado[DeTmp(u, i)]
             /\ DeTmpc(u, i) \in DOMAIN Listado' <=>
                  DeTmpc(u, i) \in DOMAIN Listado /\ u # t
             /\ DeTmpc(u, i) \in DOMAIN Listado' =>
                  Listado'[DeTmpc(u, i)] = Listado[DeTmpc(u, i)]
  BY <1>1, <1>3, <1>4, QueEsListado, QueEsListadoDespues, SonDistintas DEF ListadoPorTipo
<1>6. ASSUME NEW l \in DOMAIN Listado'
      PROVE  l \in DOMAIN Listado /\ Listado'[l] = Listado[l]
  <2>1. PICK u, i : l = DeBin(u, i) \/ l = DeTmp(u, i) \/ l = DeTmpc(u, i)
    BY TipoDeListado
  <2> QED BY <1>5, <2>1
<1> DEFINE quitados == UNION {Listado[l] : l \in DOMAIN Listado \ DOMAIN Listado'}
<1>7. quitados = BloquesDe(tmpc[t]) \cup UNION {bin[t][p].bloques : p \in k.porGuardar}
  <2>1. ASSUME NEW i \in DOMAIN tmpc[t], NEW b \in tmpc[t][i].bloques
        PROVE  b \in quitados
    <3>1. /\ DeTmpc(t, i) \in DOMAIN Listado \ DOMAIN Listado'
          /\ b \in Listado[DeTmpc(t, i)]
      BY <1>5, QueEsListado DEF ListadoPorTipo
    <3> QED BY <3>1
  <2>2. ASSUME NEW p \in k.porGuardar, NEW b \in bin[t][p].bloques
        PROVE  b \in quitados
    <3>1. /\ DeBin(t, p) \in DOMAIN Listado \ DOMAIN Listado'
          /\ b \in Listado[DeBin(t, p)]
      BY <1>2, <1>4, <1>5, QueEsListado DEF ListadoPorTipo
    <3> QED BY <3>1
  <2>3. ASSUME NEW l \in DOMAIN Listado \ DOMAIN Listado', NEW b \in Listado[l]
        PROVE  \/ b \in BloquesDe(tmpc[t])
               \/ \E p \in k.porGuardar : b \in bin[t][p].bloques
    <3>1. PICK u, i : l = DeBin(u, i) \/ l = DeTmp(u, i) \/ l = DeTmpc(u, i)
      BY TipoDeListado
    <3>2. \/ l = DeBin(u, i) /\ u = t /\ i \in k.porGuardar
          \/ l = DeTmpc(u, i) /\ u = t
      BY <1>5, <3>1
    <3>3. CASE l = DeBin(u, i) /\ u = t /\ i \in k.porGuardar
      BY <3>3, QueEsListado DEF ListadoPorTipo
    <3>4. CASE l = DeTmpc(u, i) /\ u = t
      BY <3>4, QueEsListado, SonDistintas DEF ListadoPorTipo, BloquesDe
    <3> QED BY <3>2, <3>3, <3>4
  <2> HIDE DEF quitados
  <2>4. quitados \subseteq BloquesDe(tmpc[t]) \cup UNION {bin[t][p].bloques : p \in k.porGuardar}
    BY <2>3 DEF quitados
  <2> QED BY <2>1, <2>2, <2>4 DEF BloquesDe
<1>8. Exacto(bitmap \ quitados, Listado')
  <2>1. DOMAIN Listado' \subseteq DOMAIN Listado
    BY <1>6
  <2> QED BY <1>6, <2>1, BitmapExactoEsExacto, ExactoAlQuitar
<1> QED BY <1>1, <1>7, <1>8, BitmapExactoEsExactoDespues

\* guardarDatosNuevos writes the partition in blocks that were free.
LEMMA BitmapExactoTrasGuardar ==
  ASSUME TypeOK, BitmapExacto, NEW t \in Tablas, NEW p \in Particiones,
         GuardarParticion(t, p)
  PROVE  BitmapExacto'
<1> DEFINE k == comp[t]
           a == ArchivoEscrito(k.nuevos[p])
           x == DeBin(t, p)
<1>1. /\ bin' = [bin EXCEPT ![t][p] = a] /\ bitmap' = bitmap \cup a.bloques
      /\ UNCHANGED <<tmp, tmpc>> /\ EnReescritura(t, p)
  BY DEF GuardarParticion, EnReescritura
<1>2. /\ bin \in [Tablas -> [Particiones -> Archivo]]
      /\ comp \in [Tablas -> EstadosDeCompactacion]
  BY DEF TypeOK
<1>3. a.bloques \cap bitmap = {}
  BY ArchivoEscritoTomaLibres
<1>4. /\ \A u \in Tablas : \A q : ~(u = t /\ q = p) => EnReescritura(u, q)' = EnReescritura(u, q)
      /\ ~EnReescritura(t, p)'
  BY <1>2 DEF EnReescritura, GuardarParticion, EstadosDeCompactacion
<1> HIDE DEF a
<1>5. /\ bin'[t][p] = a
      /\ \A u \in Tablas, q \in Particiones : ~(u = t /\ q = p) => bin'[u][q] = bin[u][q]
  BY <1>1, <1>2
<1>6. ASSUME NEW u, NEW i
      PROVE  /\ DeBin(u, i) \in DOMAIN Listado' <=>
                  DeBin(u, i) \in DOMAIN Listado \/ (u = t /\ i = p)
             /\ DeBin(u, i) \in DOMAIN Listado =>
                  Listado'[DeBin(u, i)] = Listado[DeBin(u, i)]
             /\ DeTmp(u, i) \in DOMAIN Listado' <=> DeTmp(u, i) \in DOMAIN Listado
             /\ DeTmp(u, i) \in DOMAIN Listado =>
                  Listado'[DeTmp(u, i)] = Listado[DeTmp(u, i)]
             /\ DeTmpc(u, i) \in DOMAIN Listado' <=> DeTmpc(u, i) \in DOMAIN Listado
             /\ DeTmpc(u, i) \in DOMAIN Listado =>
                  Listado'[DeTmpc(u, i)] = Listado[DeTmpc(u, i)]
  BY <1>1, <1>4, <1>5, QueEsListado, QueEsListadoDespues, SonDistintas DEF ListadoPorTipo
<1>7. x \notin DOMAIN Listado /\ x \in DOMAIN Listado' /\ Listado'[x] = a.bloques
  BY <1>1, <1>4, <1>5, QueEsListado, QueEsListadoDespues, SonDistintas DEF ListadoPorTipo
<1>8. ASSUME NEW l, l \in DOMAIN Listado \/ l \in DOMAIN Listado', l # x
      PROVE  l \in DOMAIN Listado /\ l \in DOMAIN Listado' /\ Listado'[l] = Listado[l]
  <2>1. PICK u, i : l = DeBin(u, i) \/ l = DeTmp(u, i) \/ l = DeTmpc(u, i)
    BY <1>8, TipoDeListado
  <2> QED BY <1>6, <1>8, <2>1, SonDistintas
<1> HIDE DEF x
<1>9. DOMAIN Listado' = DOMAIN Listado \cup {x}
  BY <1>7, <1>8
<1>10. Exacto(bitmap \cup a.bloques, Listado')
  BY <1>3, <1>7, <1>8, <1>9, BitmapExactoEsExacto, ExactoAlAgregar
<1> QED BY <1>1, <1>10, BitmapExactoEsExactoDespues

------------------------------------------------------------------------------
(* A file without records has no blocks: rename() over such a .tmpc loses   *)
(* none.                                                                   *)

VaciosSinBloques(fs) == \A i \in DOMAIN fs : fs[i].registros = <<>> => fs[i].bloques = {}

VaciosInv == \A t \in Tablas : VaciosSinBloques(tmp[t]) /\ VaciosSinBloques(tmpc[t])

LEMMA BloquesFinitos == IsFiniteSet(Bloques)
BY BloquesAssumption, FS_Interval DEF Bloques

LEMMA SinPedidosNoHayBloques == BloquesDisponibles(0) = {}
<1> SUFFICES ASSUME NEW b \in BloquesLibres,
                    Cardinality({c \in BloquesLibres : c <= b}) <= 0
             PROVE  FALSE
  BY DEF BloquesDisponibles
<1> DEFINE S == {c \in BloquesLibres : c <= b}
<1>1. BloquesLibres \subseteq Bloques /\ IsFiniteSet(Bloques) /\ b \in Int
  BY BloquesAssumption, FS_Interval DEF BloquesLibres, Bloques
<1>2. S \subseteq Bloques
  BY <1>1
<1>3. IsFiniteSet(S)
  BY <1>1, <1>2, FS_Subset
<1>4. Cardinality(S) \in Nat /\ (Cardinality(S) = 0 <=> S = {})
  BY <1>3, FS_CardinalityType, FS_EmptySet
<1>5. b \in S
  BY <1>1
<1> QED BY <1>4, <1>5

LEMMA ArchivoVacioSinBloques ==
  ASSUME NEW rs \in Seq(Registro), ArchivoEscrito(rs).registros = <<>>
  PROVE  ArchivoEscrito(rs).bloques = {}
<1> DEFINE otorgados == BloquesDisponibles(Len(rs))
           n == Cardinality(otorgados)
<1>1. Len(rs) \in Nat
  OBVIOUS
<1>2. otorgados \subseteq Bloques /\ n \in Nat
  BY <1>1, BloquesDisponiblesSonBloques
<1>3. IsFiniteSet(otorgados)
  BY <1>2, BloquesFinitos, FS_Subset
<1>4. n = 0 => otorgados = {}
  BY <1>3, FS_EmptySet
<1>5. ArchivoEscrito(rs).bloques = otorgados
  BY DEF ArchivoEscrito
<1>6. ArchivoEscrito(rs).registros = IF n < Len(rs) THEN SubSeq(rs, 1, n) ELSE rs
  BY DEF ArchivoEscrito, FaltanBloques
<1> HIDE DEF otorgados, n
<1>7. CASE n < Len(rs)
  <2>1. Len(SubSeq(rs, 1, n)) = n
    BY <1>2, <1>7
  <2>2. SubSeq(rs, 1, n) = <<>>
    BY <1>6, <1>7
  <2>3. n = 0
    BY <2>1, <2>2
  <2> QED BY <1>4, <1>5, <2>3
<1>8. CASE ~(n < Len(rs))
  <2>1. Len(rs) = 0
    BY <1>6, <1>8
  <2>2. otorgados = {}
    BY <2>1, SinPedidosNoHayBloques DEF otorgados
  <2> QED BY <1>5, <2>2
<1> QED BY <1>7, <1>8

LEMMA VaciosInvInductivo ==
  /\ Init => VaciosInv
  /\ TypeOK /\ VaciosInv /\ [Next]_vars => VaciosInv'
<1>1. ASSUME Init PROVE VaciosInv
  BY <1>1 DEF Init, VaciosInv, VaciosSinBloques
<1>2. ASSUME TypeOK, VaciosInv, [Next]_vars, NEW t \in Tablas
      PROVE  VaciosSinBloques(tmp'[t]) /\ VaciosSinBloques(tmpc'[t])
  <2>1. /\ VaciosSinBloques(tmp[t]) /\ VaciosSinBloques(tmpc[t])
        /\ tmp[t] \in Seq(Archivo) /\ tmpc[t] \in Seq(Archivo)
    BY <1>2 DEF VaciosInv, TypeOK
  <2>2. VaciosSinBloques(tmp'[t])
    <3>1. CASE EscribirTmp
      <4>1. CASE t = dump.tabla
        <5> DEFINE a == ArchivoEscrito(memtable[t])
        <5>1. a.registros = <<>> => a.bloques = {}
          BY <1>2, ArchivoVacioSinBloques DEF TypeOK
        <5>2. tmp'[t] = Append(tmp[t], a)
          BY <1>2, <3>1, <4>1 DEF EscribirTmp, TypeOK
        <5> HIDE DEF a
        <5>3. ASSUME NEW i \in DOMAIN Append(tmp[t], a)
              PROVE  \/ i \in DOMAIN tmp[t] /\ Append(tmp[t], a)[i] = tmp[t][i]
                     \/ Append(tmp[t], a)[i] = a
          BY <2>1
        <5> QED BY <2>1, <5>1, <5>2, <5>3 DEF VaciosSinBloques
      <4>2. CASE t # dump.tabla
        BY <1>2, <2>1, <3>1, <4>2 DEF EscribirTmp, TypeOK
      <4> QED BY <4>1, <4>2
    <3>2. CASE AccionesDeCompactacion(t)
      <4>1. tmp'[t] = tmp[t] \/ tmp'[t] = <<>>
        BY <1>2, <3>2
           DEF AccionesDeCompactacion, ComenzarCompactacion, Bloquear, Desbloquear,
               Renombrar, Mezclar, NadaQueCompactar, LiberarBloques, GuardarParticion,
               Guardado, TerminarCompactacion, archivos, TypeOK
      <4>2. VaciosSinBloques(<<>>)
        BY DEF VaciosSinBloques
      <4> QED BY <2>1, <4>1, <4>2
    <3>3. CASE tmp'[t] = tmp[t]
      BY <2>1, <3>3
    <3> QED BY <1>2, <3>1, <3>2, <3>3, SoloElDumpEscribeTmp
  <2>3. VaciosSinBloques(tmpc'[t])
    <3>1. CASE Renombrar(t)
      <4>1. tmpc'[t] = Renombrados(tmpc[t], tmp[t])
        BY <1>2, <3>1 DEF Renombrar, TypeOK
      <4> QED BY <2>1, <4>1 DEF Renombrados, VaciosSinBloques
    <3>2. CASE AccionesDeCompactacion(t) /\ ~Renombrar(t)
      <4>1. tmpc'[t] = tmpc[t] \/ tmpc'[t] = <<>>
        BY <1>2, <3>2
           DEF AccionesDeCompactacion, ComenzarCompactacion, Bloquear, Desbloquear,
               Mezclar, NadaQueCompactar, LiberarBloques, GuardarParticion,
               Guardado, TerminarCompactacion, archivos, TypeOK
      <4>2. VaciosSinBloques(<<>>)
        BY DEF VaciosSinBloques
      <4> QED BY <2>1, <4>1, <4>2
    <3>3. CASE tmpc'[t] = tmpc[t]
      BY <2>1, <3>3
    <3> QED BY <1>2, <3>1, <3>2, <3>3, SoloElCompactador
  <2> QED BY <2>2, <2>3
<1>3. ASSUME TypeOK, VaciosInv, [Next]_vars PROVE VaciosInv'
  BY <1>2, <1>3 DEF VaciosInv, VaciosSinBloques
<1> QED BY <1>1, <1>3

LEMMA TmpcVaciosAlRenombrar ==
  ASSUME TypeOK, ArchivosInv, VaciosInv, NEW t \in Tablas, Renombrar(t)
  PROVE  \A i \in DOMAIN tmpc[t] : tmpc[t][i].bloques = {}
<1>1. RegistrosDe(tmpc[t]) = {}
  BY DEF Renombrar, ArchivosInv, ArchivosDeTabla
<1>2. ASSUME NEW i \in DOMAIN tmpc[t] PROVE tmpc[t][i].bloques = {}
  <2>1. tmpc[t][i].registros \in Seq(Registro)
    <3>1. tmpc[t] \in Seq(Archivo)
      BY DEF TypeOK
    <3>2. tmpc[t][i] \in Archivo
      BY <3>1
    <3> QED BY <3>2 DEF Archivo
  <2>2. Range(tmpc[t][i].registros) = {}
    BY <1>1 DEF RegistrosDe
  <2>3. tmpc[t][i].registros = <<>>
    <3>1. PICK rs \in Seq(Registro) : rs = tmpc[t][i].registros
      BY <2>1
    <3>2. DOMAIN rs = {}
      BY <2>2, <3>1 DEF Range
    <3>3. Len(rs) = 0
      BY <3>2
    <3> QED BY <3>1, <3>3
  <2> QED BY <2>3 DEF VaciosInv, VaciosSinBloques
<1> QED BY <1>2

------------------------------------------------------------------------------
(* The bitmap.                                                             *)

LEMMA BitmapExactoAlIniciar == Init => BitmapExacto
<1> SUFFICES ASSUME Init PROVE BitmapExacto
  OBVIOUS
<1>1. PICK bloque \in [Tablas \X Particiones -> Bloques] :
        /\ IsInjective(bloque)
        /\ bin = [t \in Tablas |-> [p \in Particiones |->
                    [registros |-> <<>>, bloques |-> {bloque[<<t, p>>]}]]]
        /\ bitmap = Range(bloque)
  BY DEF Init
<1>2. \A t \in Tablas : tmp[t] = <<>> /\ tmpc[t] = <<>> /\ comp[t].pc = "dormido"
  BY DEF Init
<1>3. /\ \A t \in Tablas : DOMAIN tmp[t] = {} /\ DOMAIN tmpc[t] = {}
      /\ \A t \in Tablas : \A p : ~EnReescritura(t, p)
  BY <1>2 DEF EnReescritura
<1>4. ASSUME NEW t, NEW i
      PROVE  /\ DeBin(t, i) \in DOMAIN Listado <=> t \in Tablas /\ i \in Particiones
             /\ DeTmp(t, i) \notin DOMAIN Listado /\ DeTmpc(t, i) \notin DOMAIN Listado
  BY <1>3, QueEsListado DEF ListadoPorTipo
<1>b. ASSUME NEW t \in Tablas, NEW p \in Particiones
      PROVE  Listado[DeBin(t, p)] = {bloque[<<t, p>>]}
  <2>1. Listado[DeBin(t, p)] = bin[t][p].bloques
    BY <1>4, QueEsListado DEF ListadoPorTipo
  <2> QED BY <1>1, <2>1
<1>5. ASSUME NEW l \in DOMAIN Listado
      PROVE  \E t \in Tablas, p \in Particiones :
               l = DeBin(t, p) /\ Listado[l] = {bloque[<<t, p>>]}
  <2>1. PICK t, i : l = DeBin(t, i) \/ l = DeTmp(t, i) \/ l = DeTmpc(t, i)
    BY TipoDeListado
  <2>2. l = DeBin(t, i)
    BY <1>4, <2>1
  <2>3. t \in Tablas /\ i \in Particiones
    BY <1>4, <2>2
  <2> QED BY <1>b, <2>2, <2>3
<1>6. bitmap = UNION {Listado[l] : l \in DOMAIN Listado}
  <2>1. ASSUME NEW b \in bitmap PROVE \E l \in DOMAIN Listado : b \in Listado[l]
    <3>1. PICK x \in Tablas \X Particiones : b = bloque[x]
      BY <1>1 DEF Range
    <3>2. PICK t \in Tablas, p \in Particiones : x = <<t, p>>
      BY <3>1
    <3>3. DeBin(t, p) \in DOMAIN Listado /\ b \in Listado[DeBin(t, p)]
      BY <1>4, <1>b, <3>1, <3>2
    <3> QED BY <3>3
  <2>2. ASSUME NEW l \in DOMAIN Listado, NEW b \in Listado[l] PROVE b \in bitmap
    <3>1. PICK t \in Tablas, p \in Particiones : b = bloque[<<t, p>>]
      BY <1>5, <2>2
    <3> QED BY <1>1, <3>1 DEF Range
  <2> QED BY <2>1, <2>2
<1>7. ASSUME NEW l \in DOMAIN Listado, NEW m \in DOMAIN Listado, l # m
      PROVE  Listado[l] \cap Listado[m] = {}
  <2>1. PICK t \in Tablas, p \in Particiones :
          l = DeBin(t, p) /\ Listado[l] = {bloque[<<t, p>>]}
    BY <1>5
  <2>2. PICK u \in Tablas, q \in Particiones :
          m = DeBin(u, q) /\ Listado[m] = {bloque[<<u, q>>]}
    BY <1>5
  <2>3. <<t, p>> # <<u, q>>
    BY <1>7, <2>1, <2>2
  <2>4. bloque[<<t, p>>] # bloque[<<u, q>>]
    BY <1>1, <2>3 DEF IsInjective
  <2> QED BY <2>1, <2>2, <2>4
<1> QED BY <1>6, <1>7, BitmapExactoEsExacto DEF Exacto

LEMMA BitmapExactoInductivo ==
  TypeOK /\ ArchivosInv /\ VaciosInv /\ BitmapExacto /\ [Next]_vars => BitmapExacto'
<1> SUFFICES ASSUME TypeOK, ArchivosInv, VaciosInv, BitmapExacto, [Next]_vars
             PROVE  BitmapExacto'
  OBVIOUS
<1>a. ASSUME UNCHANGED <<tmp, tmpc, bin, bitmap, comp>> PROVE BitmapExacto'
  BY <1>a, BitmapExactoSinCambios DEF EnReescritura
<1>1. CASE \E c \in Clientes : AccionesDeCliente(c)
  BY <1>1, <1>a
     DEF AccionesDeCliente, Insertar, PedirSelect, LeerMemtable, BloquearPropio,
         LeerTmp, LeerTmpIncompleto, LeerParticion, Responder, Enviar, archivos
<1>2. CASE AccionesDeDump
  <2>1. CASE EscribirTmp
    BY <2>1, BitmapExactoTrasEscribirTmp
  <2>2. CASE \/ ComenzarDump \/ TerminarDump
             \/ \E t \in Tablas : AbrirTmp(t) \/ SaltearTabla(t)
    BY <2>2, <1>a DEF ComenzarDump, AbrirTmp, SaltearTabla, TerminarDump, archivos
  <2> QED BY <1>2, <2>1, <2>2 DEF AccionesDeDump
<1>3. ASSUME NEW t \in Tablas, AccionesDeCompactacion(t) PROVE BitmapExacto'
  <2>1. CASE Renombrar(t)
    BY <2>1, TmpcVaciosAlRenombrar, BitmapExactoTrasRenombrar
  <2>2. CASE LiberarBloques(t)
    BY <2>2, BitmapExactoTrasLiberar
  <2>3. CASE \E p \in Particiones : GuardarParticion(t, p)
    BY <2>3, BitmapExactoTrasGuardar
  <2>4. CASE \/ ComenzarCompactacion(t) \/ Bloquear(t) \/ Desbloquear(t) \/ Mezclar(t)
             \/ NadaQueCompactar(t) \/ Guardado(t) \/ TerminarCompactacion(t)
    <3>1. UNCHANGED <<tmp, tmpc, bin, bitmap>>
      BY <2>4 DEF ComenzarCompactacion, Bloquear, Desbloquear, Mezclar, NadaQueCompactar,
                  Guardado, TerminarCompactacion, archivos
    <3>2. /\ comp \in [Tablas -> EstadosDeCompactacion]
          /\ comp[t] \in EstadosDeCompactacion
      BY DEF TypeOK
    <3>3. \A u \in Tablas : u # t => comp'[u] = comp[u]
      BY <2>4, <3>2 DEF ComenzarCompactacion, Bloquear, Desbloquear, Mezclar,
                  NadaQueCompactar, Guardado, TerminarCompactacion
    <3>4. \A p : EnReescritura(t, p)' = EnReescritura(t, p)
      BY <2>4, <3>2
         DEF ComenzarCompactacion, Bloquear, Desbloquear, Mezclar, NadaQueCompactar,
             Guardado, TerminarCompactacion, EnReescritura, EstadosDeCompactacion
    <3>5. \A u \in Tablas, p \in Particiones : EnReescritura(u, p)' = EnReescritura(u, p)
      BY <3>3, <3>4 DEF EnReescritura
    <3> QED BY <3>1, <3>5, BitmapExactoSinCambios
  <2> QED BY <1>3, <2>1, <2>2, <2>3, <2>4 DEF AccionesDeCompactacion
<1>4. CASE Caido \/ UNCHANGED vars
  BY <1>4, <1>a DEF Caido, vars, archivos
<1> QED BY <1>1, <1>2, <1>3, <1>4 DEF Next

\* However the dump and the compactions of the tables interleave, a block is
\* marked exactly when some file lists it and no two files share one, even when
\* blocks run out: no block leaks and none is overwritten.
THEOREM BloquesBienRepartidos == Spec => []BitmapExacto
<1> DEFINE DiscoInv == TypeOK /\ ArchivosInv /\ VaciosInv /\ BitmapExacto
<1>1. Init => DiscoInv
  BY InitTypeOK, ArchivosInvInductivo, VaciosInvInductivo, BitmapExactoAlIniciar
<1>2. DiscoInv /\ [Next]_vars => DiscoInv'
  BY TypeOKInductivo, ArchivosInvInductivo, VaciosInvInductivo, BitmapExactoInductivo
<1> QED BY <1>1, <1>2, PTL DEF Spec

------------------------------------------------------------------------------
(* The first record of a key.                                              *)

\* What PrimeroEsElMayor says of one list, without the minimum: a record that
\* has none of its key before it is at least as new as all of its key.
PrimeroManda(rs) ==
  \A i, j \in DOMAIN rs :
    /\ rs[i].key = rs[j].key
    /\ \A h \in DOMAIN rs : h < i => rs[h].key # rs[i].key
    => rs[i].timestamp >= rs[j].timestamp

LEMMA MandaElMinimo ==
  ASSUME NEW rs \in Seq(Registro), PrimeroManda(rs), NEW j \in DOMAIN rs
  PROVE  rs[Min(ConClave(rs, {rs[j].key}))].timestamp >= rs[j].timestamp
<1> DEFINE c == ConClave(rs, {rs[j].key})
           i == Min(c)
<1>1. c # {} /\ DOMAIN rs = 1..Len(rs)
  BY DEF ConClave
<1>2. i \in 1..Len(rs) /\ rs[i].key = rs[j].key /\ \A h \in c : i <= h
  BY <1>1, PrimeroConClave
<1>3. \A h \in DOMAIN rs : rs[h].key = rs[j].key => h \in c
  BY DEF ConClave
<1> HIDE DEF c, i
<1>4. \A h \in DOMAIN rs : h < i => rs[h].key # rs[i].key
  BY <1>1, <1>2, <1>3
<1>5. rs[i].timestamp >= rs[j].timestamp
  BY <1>1, <1>2, <1>4 DEF PrimeroManda
<1> QED BY <1>5 DEF i, c

\* A list that was cut short because blocks ran out keeps its first records.
LEMMA MandaEnElArchivo ==
  ASSUME NEW rs \in Seq(Registro), PrimeroManda(rs)
  PROVE  PrimeroManda(ArchivoEscrito(rs).registros)
<1> DEFINE n == Cardinality(BloquesDisponibles(Len(rs)))
<1>1. Len(rs) \in Nat /\ DOMAIN rs = 1..Len(rs)
  OBVIOUS
<1>2. n \in Nat
  BY <1>1, BloquesDisponiblesSonBloques
<1>3. ArchivoEscrito(rs).registros = IF n < Len(rs) THEN SubSeq(rs, 1, n) ELSE rs
  BY DEF ArchivoEscrito, FaltanBloques
<1> HIDE DEF n
<1>4. CASE n < Len(rs)
  <2>1. /\ DOMAIN SubSeq(rs, 1, n) = 1..n
        /\ \A i \in 1..n : SubSeq(rs, 1, n)[i] = rs[i]
    BY <1>1, <1>2, <1>4
  <2>2. \A i \in 1..n : i \in 1..Len(rs) /\ \A h \in 1..Len(rs) : h < i => h \in 1..n
    BY <1>1, <1>2, <1>4
  <2>3. PrimeroManda(SubSeq(rs, 1, n))
    BY <1>1, <2>1, <2>2 DEF PrimeroManda
  <2> QED BY <1>3, <1>4, <2>3
<1>5. CASE ~(n < Len(rs))
  BY <1>3, <1>5
<1> QED BY <1>4, <1>5

\* A record may be taken out if its key is of those that do not count.
LEMMA MandaEnElResto ==
  ASSUME NEW rs \in Seq(Registro), PrimeroManda(rs), NEW ks,
         NEW elegida \in BOOLEAN, elegida => ConClave(rs, ks) # {},
         NEW resto, resto = Resto(rs, ks, elegida),
         NEW i \in DOMAIN resto, NEW j \in DOMAIN resto,
         resto[i].key = resto[j].key, resto[i].key \notin ks,
         \A h \in DOMAIN resto : h < i => resto[h].key # resto[i].key
  PROVE  resto[i].timestamp >= resto[j].timestamp
<1>1. CASE ~elegida
  BY <1>1 DEF Resto, PrimeroManda
<1>2. CASE elegida
  <2> DEFINE k == Min(ConClave(rs, ks))
             sitio(x) == IF x < k THEN x ELSE x + 1
  <2>1. k \in 1..Len(rs) /\ rs[k].key \in ks
    BY <1>2, PrimeroConClave
  <2>2. resto = RemoveAt(rs, k)
    BY <1>2 DEF Resto
  <2> HIDE DEF k
  <2>3. /\ resto \in Seq(Registro) /\ Len(resto) = Len(rs) - 1
        /\ \A x \in 1..(Len(rs) - 1) : resto[x] = IF x < k THEN rs[x] ELSE rs[x + 1]
    BY <2>1, <2>2, ElementosDeRemoveAt
  <2>4. DOMAIN resto = 1..(Len(rs) - 1) /\ DOMAIN rs = 1..Len(rs) /\ Len(rs) \in Nat
    BY <2>3
  <2>5. /\ sitio(i) \in 1..Len(rs) /\ sitio(j) \in 1..Len(rs)
        /\ resto[i] = rs[sitio(i)] /\ resto[j] = rs[sitio(j)]
    BY <2>1, <2>3, <2>4
  <2>6. ASSUME NEW h \in 1..Len(rs), h < sitio(i), rs[h].key = rs[sitio(i)].key
        PROVE  FALSE
    <3>1. h # k
      BY <2>1, <2>5, <2>6
    <3>2. CASE h < k
      <4>1. h \in 1..(Len(rs) - 1) /\ h < i
        BY <2>1, <2>4, <2>6, <3>2
      <4>2. resto[h] = rs[h]
        BY <2>3, <3>2, <4>1
      <4> QED BY <2>4, <2>5, <2>6, <4>1, <4>2
    <3>3. CASE h > k
      <4>1. h - 1 \in 1..(Len(rs) - 1) /\ h - 1 < i /\ ~(h - 1 < k) /\ (h - 1) + 1 = h
        BY <2>1, <2>4, <2>6, <3>3
      <4>2. resto[h - 1] = rs[h]
        BY <2>3, <4>1
      <4> QED BY <2>4, <2>5, <2>6, <4>1, <4>2
    <3> QED BY <2>1, <2>4, <3>1, <3>2, <3>3
  <2> HIDE DEF sitio
  <2> QED BY <2>4, <2>5, <2>6 DEF PrimeroManda
<1> QED BY <1>1, <1>2

\* The winners go first: one of each key, none older than what is left.
LEMMA MandaEnLaConcatenacion ==
  ASSUME NEW lg \in Seq(Registro), NEW resto \in Seq(Registro),
         \A x, y \in Range(lg) : x.key = y.key => x = y,
         \A x \in Range(lg), y \in Range(resto) :
           x.key = y.key => x.timestamp >= y.timestamp,
         \A i, j \in DOMAIN resto :
           /\ resto[i].key = resto[j].key
           /\ \A x \in Range(lg) : x.key # resto[i].key
           /\ \A h \in DOMAIN resto : h < i => resto[h].key # resto[i].key
           => resto[i].timestamp >= resto[j].timestamp
  PROVE  PrimeroManda(lg \o resto)
<1> DEFINE l == lg \o resto
           n == Len(lg)
<1>1. /\ n \in Nat /\ Len(resto) \in Nat /\ DOMAIN lg = 1..n /\ DOMAIN resto = 1..Len(resto)
      /\ DOMAIN l = 1..(n + Len(resto))
      /\ \A x \in 1..(n + Len(resto)) : l[x] = IF x <= n THEN lg[x] ELSE resto[x - n]
  OBVIOUS
<1> HIDE DEF l, n
<1>2. \A x \in 1..n : x \in DOMAIN l /\ l[x] = lg[x] /\ lg[x] \in Range(lg)
  BY <1>1 DEF Range
<1>3. \A x \in 1..Len(resto) : /\ x + n \in DOMAIN l /\ l[x + n] = resto[x]
                               /\ resto[x] \in Range(resto)
  <2>1. \A x \in 1..Len(resto) : resto[x] \in Range(resto)
    BY <1>1 DEF Range
  <2>2. \A x \in 1..Len(resto) : /\ x + n \in 1..(n + Len(resto)) /\ ~(x + n <= n)
                                 /\ (x + n) - n = x
    BY <1>1
  <2> QED BY <1>1, <2>1, <2>2
<1>4. ASSUME NEW x \in Range(lg) PROVE x.timestamp >= x.timestamp
  BY RangoDeSecuencia, TimestampsSonEnteros
<1>b. ASSUME NEW m \in Nat, NEW k \in Nat, NEW x \in 1..(m + k)
      PROVE  /\ x <= m => x \in 1..m
             /\ x > m => x - m \in 1..k /\ (x - m) + m = x
  OBVIOUS
<1>c. ASSUME NEW x \in DOMAIN l
      PROVE  /\ x <= n => x \in 1..n
             /\ x > n => x - n \in 1..Len(resto) /\ (x - n) + n = x
  BY <1>1, <1>b
<1>5. ASSUME NEW i \in DOMAIN l, NEW j \in DOMAIN l, l[i].key = l[j].key,
             \A h \in DOMAIN l : h < i => l[h].key # l[i].key
      PROVE  l[i].timestamp >= l[j].timestamp
  <2>1. CASE i <= n /\ j <= n
    <3>1. i \in 1..n /\ j \in 1..n
      BY <1>1, <2>1
    <3>2. l[i] \in Range(lg) /\ l[j] \in Range(lg)
      BY <1>2, <3>1
    <3>3. l[i] = l[j]
      BY <1>5, <3>2
    <3> QED BY <1>4, <3>2, <3>3
  <2>2. CASE i <= n /\ j > n
    <3>1. i \in 1..n /\ j - n \in 1..Len(resto) /\ (j - n) + n = j
      BY <1>c, <2>2
    <3>2. l[i] \in Range(lg) /\ l[j] \in Range(resto)
      BY <1>2, <1>3, <3>1
    <3> QED BY <1>5, <3>2
  <2>3. CASE i > n /\ j <= n
    <3>1. j < i
      BY <1>1, <2>3
    <3>2. l[j].key # l[i].key
      BY <1>5, <3>1
    <3> QED BY <1>5, <3>2
  <2>4. CASE i > n /\ j > n
    <3>1. /\ i - n \in 1..Len(resto) /\ (i - n) + n = i
          /\ j - n \in 1..Len(resto) /\ (j - n) + n = j
      BY <1>c, <2>4
    <3>2. l[i] = resto[i - n] /\ l[j] = resto[j - n]
      BY <1>3, <3>1
    <3>3. ASSUME NEW x \in Range(lg) PROVE x.key # resto[i - n].key
      <4>1. PICK h \in 1..n : x = lg[h]
        BY <1>1 DEF Range
      <4>2. h < i
        BY <1>1, <2>4, <4>1
      <4> QED BY <1>2, <1>5, <3>2, <4>1, <4>2
    <3>4. ASSUME NEW h \in DOMAIN resto, h < i - n PROVE resto[h].key # resto[i - n].key
      <4>1. h + n < i
        BY <1>1, <3>4
      <4> QED BY <1>1, <1>3, <1>5, <3>2, <4>1
    <3>5. resto[i - n].timestamp >= resto[j - n].timestamp
      BY <1>1, <1>5, <3>1, <3>2, <3>3, <3>4
    <3> QED BY <3>2, <3>5
  <2> QED BY <1>1, <2>1, <2>2, <2>3, <2>4
<1>6. PrimeroManda(l)
  BY <1>5 DEF PrimeroManda
<1> QED BY <1>6 DEF l

\* The list the merge writes for a partition.
LEMMA MandaEnLaLista ==
  ASSUME NEW S \in SUBSET Registro, NEW b \in [Particiones -> Archivo],
         NEW p \in Particiones, PrimeroManda(b[p].registros),
         EsDeSusClaves(b[p].registros, p),
         NEW e, p = e => ConClave(b[p].registros, ClavesDe(MasNuevos(S))) # {},
         NEW l \in Listas(S, b, p, e)
  PROVE  PrimeroManda(l)
<1> DEFINE nuevos == MasNuevos(S)
           ks == ClavesDe(nuevos)
           rs == b[p].registros
           g == Ganadores(nuevos, p, rs)
           elegida == p = e
           resto == Resto(rs, ks, elegida)
<1>1. CASE p \notin Tocadas(S)
  <2>1. l = <<>>
    BY <1>1 DEF Listas
  <2> QED BY <2>1 DEF PrimeroManda
<1>2. CASE p \in Tocadas(S)
  <2>1. rs \in Seq(Registro) /\ PrimeroManda(rs) /\ EsDeSusClaves(rs, p)
    BY DEF Archivo
  <2>2. \A x, y \in nuevos : x \in S /\ (x.key = y.key => x.timestamp <= y.timestamp)
    BY DEF MasNuevos
  <2>3. PICK lg \in Listados(g) : l = AEscribir(lg, resto)
    BY <1>2 DEF Listas
  <2>4. \A r \in nuevos : Particion(r.key) = p => MasAlto(r, rs) \in g
    BY DEF Ganadores
  <2>5. \A x \in g : \E r \in nuevos : Particion(r.key) = p /\ x = MasAlto(r, rs)
    BY DEF Ganadores
  <2>6. \A k : k \in ks <=> \E r \in nuevos : r.key = k
    BY DEF ClavesDe
  <2>7. elegida \in BOOLEAN /\ (elegida => ConClave(rs, ks) # {})
    OBVIOUS
  <2> HIDE DEF nuevos, rs, g, elegida, ks
  <2>8. /\ resto \in Seq(Registro) /\ Range(resto) \subseteq Range(rs)
        /\ DOMAIN resto = 1..Len(resto)
    BY <2>1, <2>7, RestoPierdeUno
  <2>9. \A i, j \in DOMAIN resto :
          /\ resto[i].key = resto[j].key /\ resto[i].key \notin ks
          /\ \A h \in DOMAIN resto : h < i => resto[h].key # resto[i].key
          => resto[i].timestamp >= resto[j].timestamp
    BY <2>1, <2>7, MandaEnElResto
  <2> HIDE DEF resto
  <2>10. ASSUME NEW r \in nuevos
         PROVE  /\ r \in Registro /\ MasAlto(r, rs) \in Registro
                /\ MasAlto(r, rs).key = r.key
                /\ \A y \in Range(rs) :
                     y.key = r.key => MasAlto(r, rs).timestamp >= y.timestamp
    <3>1. r \in Registro
      BY <2>2
    <3>2. MasAlto(r, rs) \in Registro /\ MasAlto(r, rs).key = r.key
      BY <2>1, <3>1, MasAltoGana
    <3>3. ASSUME NEW y \in Range(rs), y.key = r.key
          PROVE  MasAlto(r, rs).timestamp >= y.timestamp
      <4>1. PICK j \in DOMAIN rs : y = rs[j]
        BY DEF Range
      <4>2. j \in ConClave(rs, {r.key})
        BY <3>3, <4>1 DEF ConClave
      <4> DEFINE i == Min(ConClave(rs, {r.key}))
      <4>3. i \in 1..Len(rs) /\ rs[i] \in Registro
        BY <2>1, <4>2, PrimeroConClave
      <4>4. MasAlto(r, rs).timestamp >= rs[i].timestamp
        BY <2>1, <3>1, <4>2, MasAltoGana
      <4>5. rs[i].timestamp >= y.timestamp
        BY <2>1, <3>3, <4>1, MandaElMinimo
      <4> HIDE DEF i
      <4>6. y \in Registro
        BY <2>1, RangoDeSecuencia
      <4>7. /\ MasAlto(r, rs).timestamp \in Int /\ rs[i].timestamp \in Int
            /\ y.timestamp \in Int
        BY <3>2, <4>3, <4>6, TimestampsSonEnteros
      <4> QED BY <4>4, <4>5, <4>7
    <3> QED BY <3>1, <3>2, <3>3
  <2>11. g \subseteq Registro
    BY <2>5, <2>10
  <2>12. lg \in Seq(Registro) /\ Range(lg) = g
    BY <2>11, ListadoEsLista
  <2>13. ASSUME NEW x \in g, NEW y \in g, x.key = y.key PROVE x = y
    <3>1. PICK r \in nuevos : x = MasAlto(r, rs)
      BY <2>5
    <3>2. PICK q \in nuevos : y = MasAlto(q, rs)
      BY <2>5
    <3>3. r.key = q.key /\ r \in Registro /\ q \in Registro
      BY <2>10, <2>13, <3>1, <3>2
    <3>4. r.timestamp <= q.timestamp /\ q.timestamp <= r.timestamp
      BY <2>2, <3>3
    <3>5. r.timestamp = q.timestamp
      BY <3>3, <3>4, TimestampsSonEnteros
    <3>6. r = q
      BY <3>3, <3>5 DEF Registro
    <3> QED BY <3>1, <3>2, <3>6
  <2>14. ASSUME NEW x \in g, NEW y \in Range(resto), x.key = y.key
         PROVE  x.timestamp >= y.timestamp
    <3>1. PICK r \in nuevos : x = MasAlto(r, rs)
      BY <2>5
    <3> QED BY <2>8, <2>10, <2>14, <3>1
  <2>15. ASSUME NEW y \in Range(resto), \A x \in g : x.key # y.key
         PROVE  y.key \notin ks
    <3> SUFFICES ASSUME NEW r \in nuevos, r.key = y.key PROVE FALSE
      BY <2>6
    <3>1. Particion(r.key) = p
      BY <2>1, <2>8 DEF EsDeSusClaves
    <3> QED BY <2>4, <2>10, <2>15, <3>1
  <2>16. \A i, j \in DOMAIN resto :
           /\ resto[i].key = resto[j].key
           /\ \A x \in Range(lg) : x.key # resto[i].key
           /\ \A h \in DOMAIN resto : h < i => resto[h].key # resto[i].key
           => resto[i].timestamp >= resto[j].timestamp
    <3>1. \A i \in DOMAIN resto : resto[i] \in Range(resto)
      BY DEF Range
    <3> QED BY <2>9, <2>12, <2>15, <3>1
  <2>17. PrimeroManda(lg \o resto)
    BY <2>8, <2>12, <2>13, <2>14, <2>16, MandaEnLaConcatenacion
  <2> QED BY <2>3, <2>17 DEF AEscribir, resto
<1> QED BY <1>1, <1>2

LEMMA MandaEnLaMezcla ==
  ASSUME NEW S \in SUBSET Registro, NEW b \in [Particiones -> Archivo],
         NEW m \in Mezclas(S, b), NEW p \in Particiones,
         PrimeroManda(b[p].registros), EsDeSusClaves(b[p].registros, p)
  PROVE  PrimeroManda(m[p])
<1>1. PICK e \in Elegibles(S, b) :
        m \in {f \in [Particiones -> UNION {Listas(S, b, q, e) : q \in Particiones}] :
                 \A q \in Particiones : f[q] \in Listas(S, b, q, e)}
  BY Zenon DEF Mezclas
<1>2. m[p] \in Listas(S, b, p, e)
  BY <1>1
<1>3. p = e => ConClave(b[p].registros, ClavesDe(MasNuevos(S))) # {}
  <2> SUFFICES ASSUME p = e
               PROVE  ConClave(b[p].registros, ClavesDe(MasNuevos(S))) # {}
    OBVIOUS
  <2>1. e # -1
    BY ParticionesAssumption DEF Particiones
  <2>2. p \in Repetidas(S, b)
    BY <1>1, <2>1, Zenon DEF Elegibles
  <2> QED BY <2>2, Zenon DEF Repetidas
<1> QED BY <1>2, <1>3, MandaEnLaLista

\* The partitions and the lists that will replace them.
OrdenInv ==
  \A t \in Tablas, p \in Particiones :
    PrimeroManda(bin[t][p].registros) /\ PrimeroManda(comp[t].nuevos[p])

LEMMA OrdenInvInductivo ==
  /\ Init => OrdenInv
  /\ TypeOK /\ ArchivosInv /\ OrdenInv /\ [Next]_vars => OrdenInv'
<1>a. PrimeroManda(<<>>)
  BY DEF PrimeroManda
<1>1. ASSUME Init PROVE OrdenInv
  <2>1. \A t \in Tablas, p \in Particiones :
          bin[t][p].registros = <<>> /\ comp[t].nuevos[p] = <<>>
    BY <1>1 DEF Init
  <2> QED BY <1>a, <2>1 DEF OrdenInv
<1>2. ASSUME TypeOK, ArchivosInv, OrdenInv, [Next]_vars,
             NEW t \in Tablas, NEW p \in Particiones
      PROVE  PrimeroManda(bin'[t][p].registros) /\ PrimeroManda(comp'[t].nuevos[p])
  <2> DEFINE k == comp[t]
  <2>1. /\ PrimeroManda(bin[t][p].registros) /\ PrimeroManda(k.nuevos[p])
        /\ EsDeSusClaves(bin[t][p].registros, p)
    BY <1>2 DEF OrdenInv, ArchivosInv, ArchivosDeTabla
  <2>2. /\ k \in EstadosDeCompactacion /\ comp \in [Tablas -> EstadosDeCompactacion]
        /\ k.nuevos \in [Particiones -> Seq(Registro)]
        /\ bin \in [Tablas -> [Particiones -> Archivo]] /\ tmpc[t] \in Seq(Archivo)
    BY <1>2 DEF TypeOK, EstadosDeCompactacion
  <2>3. CASE Mezclar(t)
    <3> DEFINE S == RegistrosDe(tmpc[t])
    <3>1. PICK m \in Mezclas(S, bin[t]) : comp'[t].nuevos = m /\ bin' = bin
      BY <2>2, <2>3 DEF Mezclar, archivos
    <3>2. S \in SUBSET Registro /\ bin[t] \in [Particiones -> Archivo]
      BY <2>2, RegistrosBienTipados
    <3> HIDE DEF S
    <3>3. PrimeroManda(m[p])
      BY <2>1, <3>2, MandaEnLaMezcla
    <3> QED BY <2>1, <3>1, <3>3
  <2>4. CASE LiberarBloques(t)
    <3>1. /\ bin'[t][p].registros \in {<<>>, bin[t][p].registros}
          /\ comp'[t].nuevos = k.nuevos
      BY <2>2, <2>4 DEF LiberarBloques, EstadosDeCompactacion
    <3> QED BY <1>a, <2>1, <3>1
  <2>5. ASSUME NEW q \in Particiones, GuardarParticion(t, q)
        PROVE  PrimeroManda(bin'[t][p].registros) /\ PrimeroManda(comp'[t].nuevos[p])
    <3>1. CASE q = p
      <4>1. bin'[t][p] = ArchivoEscrito(k.nuevos[p]) /\ comp'[t].nuevos[p] = <<>>
        BY <2>2, <2>5, <3>1 DEF GuardarParticion, EstadosDeCompactacion
      <4> QED BY <1>a, <2>1, <2>2, <4>1, MandaEnElArchivo
    <3>2. CASE q # p
      <4>1. bin'[t][p] = bin[t][p] /\ comp'[t].nuevos[p] = k.nuevos[p]
        BY <2>2, <2>5, <3>2 DEF GuardarParticion, EstadosDeCompactacion
      <4> QED BY <2>1, <4>1
    <3> QED BY <3>1, <3>2
  <2>6. CASE \/ ComenzarCompactacion(t) \/ Bloquear(t) \/ Desbloquear(t) \/ Renombrar(t)
             \/ NadaQueCompactar(t) \/ Guardado(t) \/ TerminarCompactacion(t)
    <3>1. bin' = bin /\ comp'[t].nuevos = k.nuevos
      BY <2>2, <2>6
         DEF ComenzarCompactacion, Bloquear, Desbloquear, Renombrar, NadaQueCompactar,
             Guardado, TerminarCompactacion, archivos, EstadosDeCompactacion
    <3> QED BY <2>1, <3>1
  <2>7. CASE UNCHANGED <<bin[t], comp[t]>>
    BY <2>1, <2>7
  <2>8. AccionesDeCompactacion(t) \/ UNCHANGED <<bin[t], comp[t]>>
    BY <1>2, SoloElCompactador
  <2> QED BY <2>3, <2>4, <2>5, <2>6, <2>7, <2>8 DEF AccionesDeCompactacion
<1>3. ASSUME TypeOK, ArchivosInv, OrdenInv, [Next]_vars PROVE OrdenInv'
  BY <1>2, <1>3 DEF OrdenInv
<1> QED BY <1>1, <1>3

\* The first record of a key in a partition is never older than the others of
\* the key, though a compaction may leave the key twice: the merge that looks
\* only at the first (list_find) never prefers an older record.
THEOREM PrimeroSiempreElMayor == Spec => []PrimeroEsElMayor
<1> DEFINE Inv == TypeOK /\ ArchivosInv /\ OrdenInv
<1>1. Init => Inv
  BY InitTypeOK, ArchivosInvInductivo, OrdenInvInductivo
<1>2. Inv /\ [Next]_vars => Inv'
  BY TypeOKInductivo, ArchivosInvInductivo, OrdenInvInductivo
<1>3. Inv => PrimeroEsElMayor
  <2> SUFFICES ASSUME Inv, NEW t \in Tablas, NEW p \in Particiones,
                      NEW rs, rs = bin[t][p].registros, NEW j \in DOMAIN rs
               PROVE  rs[Min(ConClave(rs, {rs[j].key}))].timestamp >= rs[j].timestamp
    BY DEF PrimeroEsElMayor
  <2>1. rs \in Seq(Registro) /\ PrimeroManda(rs)
    BY DEF TypeOK, Archivo, OrdenInv
  <2> QED BY <2>1, MandaElMinimo
<1> QED BY <1>1, <1>2, <1>3, PTL DEF Spec

==============================================================================
