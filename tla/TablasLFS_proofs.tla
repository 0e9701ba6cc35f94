--------------------------- MODULE TablasLFS_proofs ---------------------------
(***************************************************************************)
(* Proofs about the life of the tables of the file system, module          *)
(* TablasLFS, for any tables, clients, partitions and blocks, and any      *)
(* number of requests, failed threads and restarts.                        *)
(*                                                                         *)
(* Each section proves one invariant of that module inductive, with the    *)
(* types: VigenteInv (a table that is there has an entry nobody has        *)
(* condemned), HilosInv (no more threads than entries), MutexInv (the      *)
(* mutex of an entry has one holder, so that the compactions and the DROP  *)
(* of a table exclude one another) and BloquesInv, which rests on it (each *)
(* block one owner, between any two steps of a compaction).                *)
(***************************************************************************)
EXTENDS TablasLFS, Secuencias_lemas

------------------------------------------------------------------------------
(* What a step of compactar, and one of who finds an entry freed, leave.   *)

LEMMA CompactarEs ==
  ASSUME NEW i, Compactar(i)
  PROVE  /\ UNCHANGED <<dir, metadata, creados, memtable, tablasParaCompactaciones, cliente, dump>>
         /\ UNCHANGED cuentas
<1> DEFINE Bien == /\ UNCHANGED <<dir, metadata, creados, memtable, tablasParaCompactaciones,
                                  cliente, dump>>
                   /\ UNCHANGED cuentas
<1>1. \A h : SoloHilo(i, h) => UNCHANGED <<memtable, cliente, dump>> /\ UNCHANGED cuentas
  BY DEF SoloHilo
<1>2. Revienta => Bien
  BY DEF Revienta, disco, listas
<1>3. \A h : TerminarDeCompactar(i, h) => UNCHANGED <<memtable, cliente, dump>> /\ UNCHANGED cuentas
  BY <1>1 DEF TerminarDeCompactar
<1>4. Renombrar(i) => Bien
  BY <1>1, <1>2, <1>3 DEF Renombrar, listas
<1>5. BloquearTabla(i) => Bien
  BY <1>1 DEF BloquearTabla, disco, listas
<1>6. LiberarBloques(i) => Bien
  BY <1>1, <1>2 DEF LiberarBloques, listas
<1>7. PedirBloqueNuevo(i) => Bien
  BY <1>1 DEF PedirBloqueNuevo, listas
<1>8. GuardarParticion(i) => Bien
  BY <1>1, <1>2, <1>3 DEF GuardarParticion
<1> QED BY <1>4, <1>5, <1>6, <1>7, <1>8 DEF Compactar

LEMMA UsarLiberadaEs ==
  ASSUME UsarLiberada
  PROVE  /\ UNCHANGED disco /\ UNCHANGED <<dir, metadata, archivos, bitmap, creados>>
         /\ UNCHANGED listas /\ UNCHANGED <<entradas, tablasParaCompactaciones>>
         /\ UNCHANGED <<memtable, hilos, cliente>> /\ UNCHANGED cuentas
         /\ UNCHANGED dump \/ (DumpColgado /\ dump' = [dump EXCEPT !.pc = "crearTmp"])
BY DEF UsarLiberada, Revienta, SoloDump, disco, listas

------------------------------------------------------------------------------
(* Types.                                                                  *)

LEMMA LibreEsPedido == Libre \in Pedido /\ EnSuLugar(Libre) /\ Libre.pc = "libre"
<1> DEFINE x == CHOOSE t \in Tablas : TRUE
<1>1. Libre = [pc |-> "libre", op |-> "INSERT", tabla |-> x, dir |-> 0, entrada |-> 0,
               nombre |-> 0, bloque |-> -1, debe |-> {}]
  BY DEF Libre, NULL, Tmp
<1> HIDE DEF x
<1> QED BY <1>1 DEF Pedido, EnSuLugar, PasosDeInsert, PasosDeCreate, PasosDeDrop

\* A request that has just been made.
LEMMA PedidoNuevo ==
  ASSUME NEW op \in {"INSERT", "CREATE", "DROP"}, NEW t
  PROVE  /\ [Libre EXCEPT !.pc = op, !.op = op, !.tabla = t].pc = op
         /\ [Libre EXCEPT !.pc = op, !.op = op, !.tabla = t].entrada = NULL
         /\ [Libre EXCEPT !.pc = op, !.op = op, !.tabla = t].bloque = -1
<1> DEFINE x == CHOOSE u \in Tablas : TRUE
<1>1. Libre = [pc |-> "libre", op |-> "INSERT", tabla |-> x, dir |-> 0, entrada |-> NULL,
               nombre |-> Tmp, bloque |-> -1, debe |-> {}]
  BY DEF Libre
<1> HIDE DEF x
<1> QED BY <1>1

\* The first clear bit is clear, and a block.
LEMMA HayBloque ==
  /\ BloqueDisponible \in (Bloques \ bitmap) \cup {-1}
  /\ BloqueDisponible = -1 => Bloques \subseteq bitmap
<1> DEFINE libres == Bloques \ bitmap
<1>1. CASE libres = {}
  BY <1>1 DEF BloqueDisponible
<1>2. CASE libres # {}
  <2>1. libres \subseteq Nat
    BY BloquesAssumption DEF Bloques
  <2>2. Min(libres) \in libres /\ BloqueDisponible = Min(libres)
    BY <1>2, <2>1, HayMinimo DEF BloqueDisponible, Min
  <2>3. -1 \notin libres
    BY <2>1
  <2> QED BY <2>2, <2>3
<1> QED BY <1>1, <1>2

\* What list_find returns is the first of the entries of the table.
LEMMA EncontrarTablaDa ==
  ASSUME TiposDeListas, NEW t
  PROVE  /\ EncontrarTabla(t) \in EntradasDe(t) \cup {NULL}
         /\ EncontrarTabla(t) = NULL <=> EntradasDe(t) = {}
         /\ EncontrarTabla(t) # NULL => /\ EncontrarTabla(t) \in Listadas \cap DOMAIN entradas
                                        /\ entradas[EncontrarTabla(t)].tabla = t
<1> DEFINE s == tablasParaCompactaciones
           ps == {i \in DOMAIN s : entradas[s[i]].tabla = t}
<1>1. /\ s \in Seq(Nat) /\ DOMAIN s = 1..Len(s) /\ Len(s) \in Nat
      /\ entradas \in Seq(UnaEntrada)
  BY DEF TiposDeListas
<1>2. Listadas = {s[i] : i \in DOMAIN s} /\ Listadas \subseteq DOMAIN entradas
  BY <1>1 DEF TiposDeListas, Listadas, ToSet
<1>3. EntradasDe(t) = {s[i] : i \in ps}
  BY <1>2 DEF EntradasDe
<1>4. NULL \notin EntradasDe(t)
  BY <1>1, <1>2 DEF EntradasDe, NULL
<1>5. \A x \in EntradasDe(t) : x \in Listadas \cap DOMAIN entradas /\ entradas[x].tabla = t
  BY <1>2 DEF EntradasDe
<1>6. CASE ps = {}
  BY <1>3, <1>6 DEF EncontrarTabla
<1>7. CASE ps # {}
  <2>1. Min(ps) \in ps
    <3>1. ps \subseteq Nat
      BY <1>1
    <3> HIDE DEF ps
    <3> QED BY <1>7, <3>1, HayMinimo
  <2>2. EncontrarTabla(t) = s[Min(ps)]
    <3>1. Min(ps) = CHOOSE i \in ps : \A j \in ps : i <= j
      BY DEF Min
    <3>2. EncontrarTabla(t) = s[CHOOSE i \in ps : \A j \in ps : i <= j]
      BY <1>7, Zenon DEF EncontrarTabla
    <3> QED BY <3>1, <3>2, Zenon
  <2>3. EncontrarTabla(t) \in EntradasDe(t)
    BY <1>3, <2>1, <2>2
  <2> QED BY <1>4, <1>5, <2>3
<1> QED BY <1>6, <1>7

LEMMA EntradasSonNat ==
  ASSUME TiposDeListas
  PROVE  DOMAIN entradas \subseteq Nat \ {0} /\ Listadas \subseteq DOMAIN entradas
BY DEF TiposDeListas, Listadas, ToSet

LEMMA OtraParticionVa ==
  ASSUME NEW r \in Pedido, r.tabla \in Tablas, r.op = "CREATE", r.nombre \in 1..Particiones
  PROVE  /\ OtraParticion(r) \in Pedido /\ EnSuLugar(OtraParticion(r))
         /\ OtraParticion(r).pc \in {"abrirParticion", "agregarEntrada"}
         /\ OtraParticion(r).bloque = -1 /\ OtraParticion(r).nombre = r.nombre + 1
<1>1. r.nombre \in Nat /\ r.nombre + 1 \in Nat /\ Particiones \in Nat
  BY ParticionesAssumption
<1>2. CASE r.nombre < Particiones
  <2>1. OtraParticion(r) = [r EXCEPT !.bloque = -1, !.nombre = @ + 1, !.pc = "abrirParticion"]
    BY <1>2 DEF OtraParticion
  <2>2. r.nombre + 1 \in 1..Particiones
    BY <1>1, <1>2
  <2> QED BY <1>1, <2>1, <2>2 DEF Pedido, EnSuLugar, PasosDeCreate
<1>3. CASE ~(r.nombre < Particiones)
  <2>1. OtraParticion(r) = [r EXCEPT !.bloque = -1, !.nombre = @ + 1, !.pc = "agregarEntrada"]
    BY <1>3 DEF OtraParticion
  <2> QED BY <1>1, <2>1 DEF Pedido, EnSuLugar, PasosDeCreate
<1> QED BY <1>2, <1>3

\* What a client does leaves it where a client can be.
LEMMA AtenderPasa ==
  ASSUME TiposDeClientes, TiposDelDisco, TiposDeListas, NEW c \in Clientes, Atender(c)
  PROVE  \/ Revienta
         \/ \E r \in Pedido : EnSuLugar(r) /\ cliente' = [cliente EXCEPT ![c] = r]
<1> DEFINE r == cliente[c]
           Va(s) == s \in Pedido /\ EnSuLugar(s) /\ cliente' = [cliente EXCEPT ![c] = s]
<1>1. r \in Pedido /\ EnSuLugar(r)
  BY DEF TiposDeClientes
<1>2. \A s : Va(s) => \E q \in Pedido : EnSuLugar(q) /\ cliente' = [cliente EXCEPT ![c] = q]
  OBVIOUS
<1>3. ASSUME BuscarTablaDeInsert(c) PROVE Revienta \/ \E s : Va(s)
  BY <1>1, <1>3, LibreEsPedido, HayBloque, ParticionesAssumption
     DEF BuscarTablaDeInsert, SoloCliente, EnDisco, Pasa, Pedido, EnSuLugar, TiposDelDisco, Nombres,
         OtraParticion, PasosDeInsert, PasosDeCreate, PasosDeDrop
<1>4. ASSUME Insertar(c) PROVE Revienta \/ \E s : Va(s)
  BY <1>1, <1>4, LibreEsPedido, HayBloque, ParticionesAssumption
     DEF Insertar, SoloCliente, EnDisco, Pasa, Pedido, EnSuLugar, TiposDelDisco, Nombres,
         OtraParticion, PasosDeInsert, PasosDeCreate, PasosDeDrop
<1>5. ASSUME BuscarDirectorio(c) PROVE Revienta \/ \E s : Va(s)
  BY <1>1, <1>5, LibreEsPedido, HayBloque, ParticionesAssumption
     DEF BuscarDirectorio, SoloCliente, EnDisco, Pasa, Pedido, EnSuLugar, TiposDelDisco, Nombres,
         OtraParticion, PasosDeInsert, PasosDeCreate, PasosDeDrop
<1>6. ASSUME CrearDirectorio(c) PROVE Revienta \/ \E s : Va(s)
  BY <1>1, <1>6, LibreEsPedido, HayBloque, ParticionesAssumption
     DEF CrearDirectorio, SoloCliente, EnDisco, Pasa, Pedido, EnSuLugar, TiposDelDisco, Nombres,
         OtraParticion, PasosDeInsert, PasosDeCreate, PasosDeDrop
<1>7. ASSUME AbrirMetadata(c) PROVE Revienta \/ \E s : Va(s)
  BY <1>1, <1>7, LibreEsPedido, HayBloque, ParticionesAssumption
     DEF AbrirMetadata, SoloCliente, EnDisco, Pasa, Pedido, EnSuLugar, TiposDelDisco, Nombres,
         OtraParticion, PasosDeInsert, PasosDeCreate, PasosDeDrop
<1>8. ASSUME GuardarMetadata(c) PROVE Revienta \/ \E s : Va(s)
  <2>1. CASE metadata[r.tabla] = "no"
    BY <1>8, <2>1 DEF GuardarMetadata
  <2>2. CASE metadata[r.tabla] # "no"
    <3> DEFINE q == [r EXCEPT !.pc = "abrirParticion", !.nombre = 1]
    <3>1. r.pc = "guardarMetadata" /\ r.tabla \in Tablas /\ r.op = "CREATE"
      BY <1>1, <1>8 DEF GuardarMetadata, EnSuLugar, PasosDeInsert, PasosDeDrop
    <3>2. 1 \in 1..Particiones /\ 1 \in Nat
      BY ParticionesAssumption
    <3>3. q \in Pedido /\ EnSuLugar(q)
      BY <1>1, <3>1, <3>2 DEF Pedido, EnSuLugar, PasosDeCreate
    <3>4. cliente' = [cliente EXCEPT ![c] = q]
      BY <1>8, <2>2, Zenon DEF GuardarMetadata, EnDisco, Pasa
    <3> QED BY <3>3, <3>4
  <2> QED BY <2>1, <2>2
<1>9. ASSUME AbrirParticion(c) PROVE Revienta \/ \E s : Va(s)
  BY <1>1, <1>9, LibreEsPedido, HayBloque, ParticionesAssumption
     DEF AbrirParticion, SoloCliente, EnDisco, Pasa, Pedido, EnSuLugar, TiposDelDisco, Nombres,
         OtraParticion, PasosDeInsert, PasosDeCreate, PasosDeDrop
<1>10. ASSUME PedirBloque(c) PROVE Revienta \/ \E s : Va(s)
  <2> DEFINE q == [r EXCEPT !.pc = "escribirParticion", !.bloque = BloqueDisponible]
  <2>1. r.pc = "pedirBloque" /\ r.tabla \in Tablas /\ r.op = "CREATE" /\ r.nombre \in 1..Particiones
    BY <1>1, <1>10 DEF PedirBloque, EnSuLugar, PasosDeInsert, PasosDeDrop
  <2>2. BloqueDisponible # -1 => q \in Pedido /\ EnSuLugar(q)
    BY <1>1, <2>1, HayBloque DEF Pedido, EnSuLugar, PasosDeCreate
  <2>3. OtraParticion(r) \in Pedido /\ EnSuLugar(OtraParticion(r))
    BY <1>1, <2>1, OtraParticionVa
  <2>4. \/ cliente' = [cliente EXCEPT ![c] = OtraParticion(r)]
        \/ BloqueDisponible # -1 /\ cliente' = [cliente EXCEPT ![c] = q]
    BY <1>10 DEF PedirBloque, EnDisco, Pasa
  <2> QED BY <2>2, <2>3, <2>4
<1>11. ASSUME EscribirParticion(c) PROVE Revienta \/ \E s : Va(s)
  <2>1. r.pc = "escribirParticion" /\ r.tabla \in Tablas /\ r.op = "CREATE"
        /\ r.nombre \in 1..Particiones
    BY <1>1, <1>11 DEF EscribirParticion, EnSuLugar, PasosDeInsert, PasosDeDrop
  <2>2. OtraParticion(r) \in Pedido /\ EnSuLugar(OtraParticion(r))
    BY <1>1, <2>1, OtraParticionVa
  <2> QED BY <1>11, <2>2 DEF EscribirParticion, EnDisco, Pasa
<1>12. ASSUME AgregarEntrada(c) PROVE Revienta \/ \E s : Va(s)
  BY <1>1, <1>12, LibreEsPedido, HayBloque, ParticionesAssumption
     DEF AgregarEntrada, SoloCliente, EnDisco, Pasa, Pedido, EnSuLugar, TiposDelDisco, Nombres,
         OtraParticion, PasosDeInsert, PasosDeCreate, PasosDeDrop
<1>13. ASSUME CrearHilo(c) PROVE Revienta \/ \E s : Va(s)
  BY <1>1, <1>13, LibreEsPedido, HayBloque, ParticionesAssumption
     DEF CrearHilo, SoloCliente, EnDisco, Pasa, Pedido, EnSuLugar, TiposDelDisco, Nombres,
         OtraParticion, PasosDeInsert, PasosDeCreate, PasosDeDrop
<1>14. ASSUME BuscarEntrada(c) PROVE Revienta \/ \E s : Va(s)
  <2> DEFINE e == EncontrarTabla(r.tabla)
             q == [r EXCEPT !.entrada = e, !.pc = IF e = NULL THEN "opendir" ELSE "bloquear"]
  <2>1. e \in Nat
    BY EncontrarTablaDa, EntradasSonNat DEF NULL, EntradasDe
  <2>2. r.pc = "DROP" /\ r.tabla \in Tablas /\ r.op = "DROP"
    BY <1>1, <1>14 DEF BuscarEntrada, EnSuLugar, PasosDeInsert, PasosDeCreate
  <2> HIDE DEF e
  <2>3. Va(q)
    BY <1>1, <1>14, <2>1, <2>2
       DEF BuscarEntrada, SoloCliente, Pasa, Pedido, EnSuLugar, PasosDeDrop, e
  <2> QED BY <2>3
<1>15. ASSUME BloquearEntrada(c) PROVE Revienta \/ \E s : Va(s)
  BY <1>1, <1>15, LibreEsPedido, HayBloque, ParticionesAssumption
     DEF BloquearEntrada, SoloCliente, EnDisco, Pasa, Pedido, EnSuLugar, TiposDelDisco, Nombres,
         OtraParticion, PasosDeInsert, PasosDeCreate, PasosDeDrop
<1>16. ASSUME AbrirDirectorio(c) PROVE Revienta \/ \E s : Va(s)
  <2>1. r.pc = "opendir" /\ r.tabla \in Tablas /\ r.op = "DROP"
    BY <1>1, <1>16 DEF AbrirDirectorio, EnSuLugar, PasosDeInsert, PasosDeCreate
  <2>2. dir[r.tabla] \in Nat
    BY <2>1 DEF TiposDelDisco
  <2>3. Va([r EXCEPT !.pc = "desbloquear"])
        \/ Va([r EXCEPT !.pc = "borrarMetadata", !.dir = dir[r.tabla]])
    BY <1>1, <1>16, <2>1, <2>2
       DEF AbrirDirectorio, SoloCliente, Pasa, Pedido, EnSuLugar, PasosDeDrop
  <2> QED BY <2>3
<1>17. ASSUME BorrarMetadata(c) PROVE Revienta \/ \E s : Va(s)
  BY <1>1, <1>17, LibreEsPedido, HayBloque, ParticionesAssumption
     DEF BorrarMetadata, SoloCliente, EnDisco, Pasa, Pedido, EnSuLugar, TiposDelDisco, Nombres,
         OtraParticion, PasosDeInsert, PasosDeCreate, PasosDeDrop
<1>18. ASSUME LiberarArchivo(c) PROVE Revienta \/ \E s : Va(s)
  <2>1. r.pc = "readdir" /\ r.tabla \in Tablas /\ r.op = "DROP"
    BY <1>1, <1>18 DEF LiberarArchivo, EnSuLugar, PasosDeInsert, PasosDeCreate
  <2>2. SUFFICES ASSUME ~Revienta PROVE \E s : Va(s)
    OBVIOUS
  <2>3. PICK n \in DOMAIN archivos[r.tabla] :
          cliente' = [cliente EXCEPT ![c] = [r EXCEPT !.pc = "remove", !.nombre = n]]
    BY <1>18, <2>2 DEF LiberarArchivo, EnDisco, Pasa
  <2>4. n \in Nat
    BY <2>1, ParticionesAssumption DEF TiposDelDisco, Nombres
  <2>5. Va([r EXCEPT !.pc = "remove", !.nombre = n])
    BY <1>1, <2>1, <2>3, <2>4 DEF Pedido, EnSuLugar, PasosDeDrop
  <2> QED BY <2>5
<1>19. ASSUME BorrarArchivo(c) PROVE Revienta \/ \E s : Va(s)
  BY <1>1, <1>19, LibreEsPedido, HayBloque, ParticionesAssumption
     DEF BorrarArchivo, SoloCliente, EnDisco, Pasa, Pedido, EnSuLugar, TiposDelDisco, Nombres,
         OtraParticion, PasosDeInsert, PasosDeCreate, PasosDeDrop
<1>20. ASSUME BorrarDirectorio(c) PROVE Revienta \/ \E s : Va(s)
  BY <1>1, <1>20, LibreEsPedido, HayBloque, ParticionesAssumption
     DEF BorrarDirectorio, SoloCliente, EnDisco, Pasa, Pedido, EnSuLugar, TiposDelDisco, Nombres,
         OtraParticion, PasosDeInsert, PasosDeCreate, PasosDeDrop
<1>21. ASSUME Condenar(c) PROVE Revienta \/ \E s : Va(s)
  BY <1>1, <1>21, LibreEsPedido, HayBloque, ParticionesAssumption
     DEF Condenar, SoloCliente, EnDisco, Pasa, Pedido, EnSuLugar, TiposDelDisco, Nombres,
         OtraParticion, PasosDeInsert, PasosDeCreate, PasosDeDrop
<1>22. ASSUME BuscarEnMemtable(c) PROVE Revienta \/ \E s : Va(s)
  BY <1>1, <1>22, LibreEsPedido, HayBloque, ParticionesAssumption
     DEF BuscarEnMemtable, SoloCliente, EnDisco, Pasa, Pedido, EnSuLugar, TiposDelDisco, Nombres,
         OtraParticion, PasosDeInsert, PasosDeCreate, PasosDeDrop
<1>23. ASSUME DesbloquearEntrada(c) PROVE Revienta \/ \E s : Va(s)
  BY <1>1, <1>23, LibreEsPedido, HayBloque, ParticionesAssumption
     DEF DesbloquearEntrada, SoloCliente, EnDisco, Pasa, Pedido, EnSuLugar, TiposDelDisco, Nombres,
         OtraParticion, PasosDeInsert, PasosDeCreate, PasosDeDrop
<1> QED BY <1>2, <1>3, <1>4, <1>5, <1>6, <1>7, <1>8, <1>9, <1>10, <1>11, <1>12, <1>13, <1>14, <1>15, <1>16, <1>17, <1>18, <1>19, <1>20, <1>21, <1>22, <1>23 DEF Atender, Create, Drop

LEMMA InitClientes == Init => TiposDeClientes
BY LibreEsPedido DEF Init, TiposDeClientes

LEMMA NextClientes ==
  ASSUME TiposDeClientes, TiposDelDisco, TiposDeListas, [Next]_vars
  PROVE  TiposDeClientes'
<1>1. ASSUME NEW c \in Clientes, NEW r \in Pedido, EnSuLugar(r),
             cliente' = [cliente EXCEPT ![c] = r]
      PROVE  TiposDeClientes'
  <2>1. \A d \in Clientes : cliente'[d] = IF d = c THEN r ELSE cliente[d]
    BY <1>1 DEF TiposDeClientes
  <2>2. cliente' \in [Clientes -> Pedido]
    BY <1>1 DEF TiposDeClientes
  <2>3. \A d \in Clientes : EnSuLugar(cliente'[d])
    BY <1>1, <2>1 DEF TiposDeClientes
  <2> QED BY <2>2, <2>3 DEF TiposDeClientes, EnSuLugar
<1>2. UNCHANGED cliente => TiposDeClientes'
  BY DEF TiposDeClientes, EnSuLugar
<1>3. ASSUME NEW c \in Clientes, NEW t \in Tablas, NEW op \in {"INSERT", "CREATE", "DROP"},
             Pedir(c, op, t)
      PROVE  TiposDeClientes'
  <2> DEFINE r == [Libre EXCEPT !.pc = op, !.op = op, !.tabla = t]
  <2>1. r \in Pedido /\ EnSuLugar(r)
    BY LibreEsPedido DEF Pedido, EnSuLugar, PasosDeInsert, PasosDeCreate, PasosDeDrop
  <2>2. cliente' = [cliente EXCEPT ![c] = r]
    BY <1>3 DEF Pedir
  <2> QED BY <1>1, <2>1, <2>2
<1>4. ASSUME NEW c \in Clientes, Atender(c) PROVE TiposDeClientes'
  BY <1>1, <1>2, <1>4, AtenderPasa DEF Revienta
<1>5. ASSUME NEW i \in DOMAIN hilos, Compactacion(i) PROVE TiposDeClientes'
  BY <1>2, <1>5, CompactarEs DEF Compactacion, LeerMetadata, BuscarEntradaDeHilo, Despertar, FinalizarHilo,
                    SoloHilo, Revienta
<1>6. Dumpear => TiposDeClientes'
  BY <1>2 DEF Dumpear, ComenzarDump, MirarTabla, BloquearTmp, CrearTmp, EscribirTmp, TerminarDump, SoloDump,
              Revienta
<1>7. Reiniciar => TiposDeClientes'
  BY LibreEsPedido DEF Reiniciar, Levantado, TiposDeClientes, EnSuLugar
<1> QED BY <1>2, <1>3, <1>4, <1>5, <1>6, <1>7, UsarLiberadaEs DEF Next, vars

------------------------------------------------------------------------------
(* Types of the disk.                                                      *)

LEMMA InitDisco == Init => TiposDelDisco
<1> SUFFICES ASSUME Init PROVE TiposDelDisco
  OBVIOUS
<1>1. {t \in Tablas : dir[t] # 0} = {}
  BY DEF Init
<1>2. DOMAIN <<>> = {}
  OBVIOUS
<1> QED BY <1>1, <1>2, FS_EmptySet DEF Init, TiposDelDisco

\* What Escribe leaves.
LEMMA EscribeDa ==
  ASSUME TiposDelDisco, NEW t \in Tablas, NEW n, NEW f, Escribe(t, n, f)
  PROVE  /\ archivos' = [u \in Tablas |-> archivos'[u]]
         /\ \A u \in Tablas : u # t => archivos'[u] = archivos[u]
         /\ DOMAIN archivos'[t] = DOMAIN archivos[t] \cup {n}
         /\ archivos'[t][n] = f
         /\ \A m \in DOMAIN archivos[t] : m # n => archivos'[t][m] = archivos[t][m]
<1> DEFINE g == [m \in DOMAIN archivos[t] \cup {n} |-> IF m = n THEN f ELSE archivos[t][m]]
<1>1. archivos' = [archivos EXCEPT ![t] = g]
  BY Zenon DEF Escribe
<1>2. DOMAIN g = DOMAIN archivos[t] \cup {n} /\ g[n] = f
      /\ \A m \in DOMAIN archivos[t] : m # n => g[m] = archivos[t][m]
  OBVIOUS
<1> HIDE DEF g
<1>3. DOMAIN archivos = Tablas
  BY DEF TiposDelDisco
<1> QED BY <1>1, <1>2, <1>3

\* What removing a file leaves.
LEMMA QuitaDa ==
  ASSUME TiposDelDisco, NEW t \in Tablas, NEW n,
         archivos' = [archivos EXCEPT ![t] = Restrict(@, DOMAIN @ \ {n})]
  PROVE  /\ archivos' = [u \in Tablas |-> archivos'[u]]
         /\ \A u \in Tablas : u # t => archivos'[u] = archivos[u]
         /\ DOMAIN archivos'[t] = DOMAIN archivos[t] \ {n}
         /\ \A m \in DOMAIN archivos'[t] : archivos'[t][m] = archivos[t][m]
<1> DEFINE g == [m \in DOMAIN archivos[t] \ {n} |-> archivos[t][m]]
<1>1. archivos' = [archivos EXCEPT ![t] = g]
  BY DEF Restrict
<1>2. DOMAIN g = DOMAIN archivos[t] \ {n} /\ \A m \in DOMAIN g : g[m] = archivos[t][m]
  OBVIOUS
<1> HIDE DEF g
<1>3. DOMAIN archivos = Tablas
  BY DEF TiposDelDisco
<1> QED BY <1>1, <1>2, <1>3

Archivo == [completo : BOOLEAN, bloques : SUBSET Bloques]

LEMMA EscribeTipos ==
  ASSUME TiposDelDisco, NEW t \in Tablas, NEW n \in Nombres, NEW f \in Archivo,
         dir[t] # 0, ~f.completo => f.bloques = {}, Escribe(t, n, f),
         bitmap' \subseteq Bloques, UNCHANGED <<dir, metadata, creados>>
  PROVE  TiposDelDisco'
<1>1. \A u \in Tablas : \A m \in DOMAIN archivos'[u] :
        /\ m \in Nombres /\ archivos'[u][m] \in [completo : BOOLEAN, bloques : SUBSET Bloques]
        /\ ~archivos'[u][m].completo => archivos'[u][m].bloques = {}
  <2> SUFFICES ASSUME NEW u \in Tablas, NEW m \in DOMAIN archivos'[u]
               PROVE  /\ m \in Nombres /\ archivos'[u][m] \in Archivo
                      /\ ~archivos'[u][m].completo => archivos'[u][m].bloques = {}
    BY DEF Archivo
  <2>1. CASE u = t /\ m = n
    BY <2>1, EscribeDa
  <2>2. CASE u # t \/ m # n
    <3>1. m \in DOMAIN archivos[u] /\ archivos'[u][m] = archivos[u][m]
      BY <2>2, EscribeDa
    <3> QED BY <3>1 DEF TiposDelDisco, Archivo
  <2> QED BY <2>1, <2>2
<1>2. \A u \in Tablas : dir'[u] = 0 => metadata'[u] = "no" /\ DOMAIN archivos'[u] = {}
  BY EscribeDa DEF TiposDelDisco
<1> QED BY <1>1, <1>2, EscribeDa DEF TiposDelDisco

LEMMA QuitaTipos ==
  ASSUME TiposDelDisco, NEW t \in Tablas, NEW n,
         archivos' = [archivos EXCEPT ![t] = Restrict(@, DOMAIN @ \ {n})],
         bitmap' \subseteq Bloques, UNCHANGED <<dir, metadata, creados>>
  PROVE  TiposDelDisco'
<1>1. \A u \in Tablas : \A m \in DOMAIN archivos'[u] :
        m \in DOMAIN archivos[u] /\ archivos'[u][m] = archivos[u][m]
  BY QuitaDa
<1>2. \A u \in Tablas : dir'[u] = 0 => metadata'[u] = "no" /\ DOMAIN archivos'[u] = {}
  BY <1>1, QuitaDa DEF TiposDelDisco
<1>3. \A u \in Tablas : \A m \in DOMAIN archivos'[u] :
        /\ m \in Nombres /\ archivos'[u][m] \in [completo : BOOLEAN, bloques : SUBSET Bloques]
        /\ ~archivos'[u][m].completo => archivos'[u][m].bloques = {}
  BY <1>1 DEF TiposDelDisco
<1>4. archivos' = [u \in Tablas |-> archivos'[u]]
  BY QuitaDa
<1> QED BY <1>2, <1>3, <1>4 DEF TiposDelDisco

\* Whatever keeps directories and files keeps their types.
LEMMA MetadataTipos ==
  ASSUME TiposDelDisco, NEW t \in Tablas, NEW m \in {"no", "vacia", "completa"},
         dir[t] # 0 \/ m = "no", metadata' = [metadata EXCEPT ![t] = m],
         UNCHANGED <<dir, archivos, bitmap, creados>>
  PROVE  TiposDelDisco'
BY DEF TiposDelDisco

LEMMA IgualDisco ==
  ASSUME TiposDelDisco, UNCHANGED <<dir, metadata, archivos, creados>>, bitmap' \subseteq Bloques
  PROVE  TiposDelDisco'
BY DEF TiposDelDisco

\* The steps of a client, each at its place.
LEMMA LugarDe ==
  ASSUME TiposDeClientes, NEW c \in Clientes
  PROVE  /\ cliente[c] \in Pedido
         /\ cliente[c].pc # "libre" => cliente[c].tabla \in Tablas
         /\ cliente[c].pc \in PasosDeInsert => cliente[c].op = "INSERT"
         /\ cliente[c].pc \in PasosDeCreate => cliente[c].op = "CREATE"
         /\ cliente[c].pc \in PasosDeDrop => cliente[c].op = "DROP"
         /\ cliente[c].pc \in {"abrirParticion", "pedirBloque", "escribirParticion"} =>
              cliente[c].nombre \in Nombres \ Temporales
         /\ cliente[c].bloque # -1 <=> cliente[c].pc = "escribirParticion"
BY ParticionesAssumption
   DEF TiposDeClientes, EnSuLugar, PasosDeInsert, PasosDeCreate, PasosDeDrop, Nombres,
       Temporales, Tmp, TmpC

LEMMA SinBloquesEsArchivo ==
  /\ SinBloques \in Archivo /\ ~SinBloques.completo /\ SinBloques.bloques = {}
  /\ \A bs \in SUBSET Bloques : /\ ConBloques(bs) \in Archivo /\ ConBloques(bs).completo
                                /\ ConBloques(bs).bloques = bs
BY DEF SinBloques, ConBloques, Archivo

LEMMA HiloDe ==
  ASSUME TiposDeListas, NEW i \in DOMAIN hilos
  PROVE  /\ hilos[i].tabla \in Tablas
         /\ hilos[i].entrada \in DOMAIN entradas \cup {NULL}
         /\ hilos[i] \in UnHilo
<1>1. hilos[i] \in UnHilo
  BY DEF TiposDeListas
<1> QED BY <1>1 DEF TiposDeListas, UnHilo

\* What the rename of the .tmp leaves.
LEMMA RenombradosDa ==
  ASSUME TiposDelDisco, NEW t \in Tablas,
         archivos' = [archivos EXCEPT ![t] = Renombrados(archivos[t])]
  PROVE  /\ archivos' = [u \in Tablas |-> archivos'[u]]
         /\ \A u \in Tablas : u # t => archivos'[u] = archivos[u]
         /\ archivos'[t] = Renombrados(archivos[t])
         /\ Tmp \notin DOMAIN archivos'[t] /\ Tmp # TmpC
         /\ \A n \in DOMAIN archivos'[t] :
              \/ n # TmpC /\ n \in DOMAIN archivos[t] /\ archivos'[t][n] = archivos[t][n]
              \/ /\ n = TmpC /\ Tmp \in DOMAIN archivos[t]
                 /\ archivos'[t][TmpC] = archivos[t][Tmp]
              \/ /\ n = TmpC /\ Tmp \notin DOMAIN archivos[t]
                 /\ TmpC \in DOMAIN archivos[t] /\ archivos'[t][TmpC] = archivos[t][TmpC]
         /\ \A n \in DOMAIN archivos[t] \ {Tmp} : n \in DOMAIN archivos'[t]
         /\ Tmp \in DOMAIN archivos[t] => TmpC \in DOMAIN archivos'[t]
<1> DEFINE fs == archivos[t]
           gs == Renombrados(fs)
<1>1. Tmp # TmpC
  BY ParticionesAssumption DEF Tmp, TmpC
<1>2. /\ archivos'[t] = gs /\ archivos' = [u \in Tablas |-> archivos'[u]]
      /\ \A u \in Tablas : u # t => archivos'[u] = archivos[u]
  <2>1. DOMAIN archivos = Tablas
    BY DEF TiposDelDisco
  <2>2. archivos' = [archivos EXCEPT ![t] = gs]
    OBVIOUS
  <2> HIDE DEF gs
  <2> QED BY <2>1, <2>2
<1>3. CASE Tmp \notin DOMAIN fs
  <2>1. gs = fs
    BY <1>3 DEF Renombrados
  <2>2. archivos'[t] = fs
    BY <1>2, <2>1
  <2> QED BY <1>1, <1>2, <1>3, <2>1, <2>2, Zenon
<1>4. CASE Tmp \in DOMAIN fs
  <2>1. gs = [n \in (DOMAIN fs \ {Tmp}) \cup {TmpC} |-> IF n = TmpC THEN fs[Tmp] ELSE fs[n]]
    BY <1>4 DEF Renombrados
  <2>2. /\ DOMAIN gs = (DOMAIN fs \ {Tmp}) \cup {TmpC} /\ gs[TmpC] = fs[Tmp]
        /\ \A n \in DOMAIN fs \ {Tmp} : n # TmpC => gs[n] = fs[n]
    BY <2>1
  <2>3. \A n \in DOMAIN gs : \/ n # TmpC /\ n \in DOMAIN fs /\ gs[n] = fs[n]
                            \/ n = TmpC
    BY <2>2
  <2>4. Tmp \notin DOMAIN gs /\ \A n \in DOMAIN fs \ {Tmp} : n \in DOMAIN gs
    BY <1>1, <2>2
  <2> QED BY <1>1, <1>2, <1>4, <2>2, <2>3, <2>4, Zenon
<1> QED BY <1>3, <1>4

LEMMA RenombradosTipos ==
  ASSUME TiposDelDisco, NEW t \in Tablas,
         archivos' = [archivos EXCEPT ![t] = Renombrados(archivos[t])],
         UNCHANGED <<dir, metadata, bitmap, creados>>
  PROVE  TiposDelDisco'
<1>1. ASSUME NEW u \in Tablas, NEW m \in DOMAIN archivos'[u]
      PROVE  /\ m \in Nombres /\ archivos'[u][m] \in Archivo
             /\ ~archivos'[u][m].completo => archivos'[u][m].bloques = {}
  <2>1. TmpC \in Nombres
    BY ParticionesAssumption DEF TmpC, Nombres
  <2>2. \E n \in DOMAIN archivos[u] : archivos'[u][m] = archivos[u][n] /\ (m = n \/ m = TmpC)
    BY <1>1, RenombradosDa
  <2> QED BY <2>1, <2>2 DEF TiposDelDisco, Archivo
<1>2. \A u \in Tablas : dir'[u] = 0 => metadata'[u] = "no" /\ DOMAIN archivos'[u] = {}
  BY RenombradosDa DEF TiposDelDisco
<1> QED BY <1>1, <1>2, RenombradosDa DEF TiposDelDisco, Archivo

LEMMA NextDisco ==
  ASSUME TiposDeClientes, TiposDelDisco, TiposDelDump, TiposDeListas, [Next]_vars
  PROVE  TiposDelDisco'
<1>1. bitmap \subseteq Bloques
  BY DEF TiposDelDisco
<1>2. UNCHANGED disco => TiposDelDisco'
  BY <1>1, IgualDisco DEF disco
<1>3. ASSUME NEW c \in Clientes, Create(c) PROVE TiposDelDisco'
  <2> DEFINE r == cliente[c]
             t == r.tabla
  <2>1. r.pc # "libre"
    BY <1>3 DEF Create, BuscarDirectorio, CrearDirectorio, AbrirMetadata, GuardarMetadata,
                AbrirParticion, PedirBloque, EscribirParticion, AgregarEntrada, CrearHilo
  <2>2. t \in Tablas
    BY <2>1, LugarDe
  <2>3. BuscarDirectorio(c) \/ AgregarEntrada(c) \/ CrearHilo(c) => UNCHANGED disco
    BY DEF BuscarDirectorio, SoloCliente, AgregarEntrada, CrearHilo
  <2>4. ASSUME CrearDirectorio(c), ~UNCHANGED disco PROVE TiposDelDisco'
    <3>1. /\ dir[t] = 0 /\ creados' = creados + 1 /\ dir' = [dir EXCEPT ![t] = creados + 1]
          /\ UNCHANGED <<metadata, archivos, bitmap>>
      BY <2>4 DEF CrearDirectorio, SoloCliente
    <3>2. {u \in Tablas : dir'[u] # 0} = {u \in Tablas : dir[u] # 0} \cup {t}
      <4>1. creados + 1 # 0
        BY DEF TiposDelDisco
      <4>2. \A u \in Tablas : dir'[u] = IF u = t THEN creados + 1 ELSE dir[u]
        BY <2>2, <3>1 DEF TiposDelDisco
      <4> QED BY <2>2, <4>1, <4>2
    <3>3. IsFiniteSet({u \in Tablas : dir'[u] # 0})
      <4>1. IsFiniteSet({u \in Tablas : dir[u] # 0})
        BY DEF TiposDelDisco
      <4> DEFINE S == {u \in Tablas : dir[u] # 0}
      <4> HIDE DEF S
      <4>2. IsFiniteSet(S \cup {t})
        BY <4>1, FS_AddElement DEF S
      <4> QED BY <3>2, <4>2 DEF S
    <3>4. creados' \in Nat /\ dir' \in [Tablas -> 0..creados']
      <4> creados \in Nat
        BY DEF TiposDelDisco
      <4>1. creados + 1 \in 0..(creados + 1) /\ 0..creados \subseteq 0..(creados + 1)
        OBVIOUS
      <4>2. dir \in [Tablas -> 0..(creados + 1)]
        BY <4>1 DEF TiposDelDisco
      <4>3. dir' \in [Tablas -> 0..(creados + 1)]
        BY <3>1, <4>1, <4>2
      <4> QED BY <3>1, <4>3
    <3>5. \A u \in Tablas : dir'[u] = 0 => dir[u] = 0
      BY <2>2, <3>1 DEF TiposDelDisco
    <3> QED BY <3>1, <3>3, <3>4, <3>5 DEF TiposDelDisco
  <2>5. ASSUME AbrirMetadata(c), ~UNCHANGED disco PROVE TiposDelDisco'
    BY <2>2, <2>5, MetadataTipos DEF AbrirMetadata, SoloCliente
  <2>6. ASSUME GuardarMetadata(c), ~UNCHANGED disco PROVE TiposDelDisco'
    <3>1. dir[t] # 0
      BY <2>2, <2>6 DEF GuardarMetadata, Revienta, TiposDelDisco
    <3> QED BY <2>2, <2>6, <3>1, MetadataTipos DEF GuardarMetadata, Revienta
  <2>7. ASSUME AbrirParticion(c), ~UNCHANGED disco PROVE TiposDelDisco'
    <3>1. r.nombre \in Nombres
      BY <2>7, LugarDe DEF AbrirParticion
    <3> QED BY <1>1, <2>2, <2>7, <3>1, SinBloquesEsArchivo, EscribeTipos
            DEF AbrirParticion, Revienta
  <2>8. ASSUME PedirBloque(c) PROVE TiposDelDisco'
    <3>1. bitmap' \subseteq Bloques
      BY <1>1, <2>8, HayBloque DEF PedirBloque, Marcado
    <3> QED BY <2>8, <3>1, IgualDisco DEF PedirBloque
  <2>9. ASSUME EscribirParticion(c), ~UNCHANGED disco PROVE TiposDelDisco'
    <3>1. r.nombre \in Nombres /\ {r.bloque} \in SUBSET Bloques
      BY <2>9, LugarDe DEF EscribirParticion, Pedido
    <3>2. dir[t] # 0
      BY <2>2, <2>9 DEF EscribirParticion, Revienta, TiposDelDisco
    <3>3. Escribe(t, r.nombre, ConBloques({r.bloque})) /\ UNCHANGED <<dir, metadata, bitmap, creados>>
      BY <2>9 DEF EscribirParticion, Revienta
    <3> QED BY <1>1, <2>2, <3>1, <3>2, <3>3, SinBloquesEsArchivo, EscribeTipos
  <2> QED BY <1>2, <1>3, <2>3, <2>4, <2>5, <2>6, <2>7, <2>8, <2>9 DEF Create
<1>4. ASSUME NEW c \in Clientes, Drop(c) PROVE TiposDelDisco'
  <2> DEFINE r == cliente[c]
             t == r.tabla
  <2>1. r.pc # "libre"
    BY <1>4 DEF Drop, BuscarEntrada, BloquearEntrada, AbrirDirectorio, BorrarMetadata,
                LiberarArchivo, BorrarArchivo, BorrarDirectorio, Condenar, BuscarEnMemtable,
                DesbloquearEntrada
  <2>2. t \in Tablas
    BY <2>1, LugarDe
  <2>3. \/ BuscarEntrada(c) \/ BloquearEntrada(c) \/ AbrirDirectorio(c) \/ Condenar(c)
        \/ BuscarEnMemtable(c) \/ DesbloquearEntrada(c)
        => UNCHANGED disco
    BY DEF BuscarEntrada, SoloCliente, BloquearEntrada, AbrirDirectorio, Condenar,
           BuscarEnMemtable, DesbloquearEntrada, Revienta
  <2>4. ASSUME BorrarMetadata(c) PROVE TiposDelDisco'
    BY <2>2, <2>4, MetadataTipos DEF BorrarMetadata
  <2>5. ASSUME LiberarArchivo(c), ~UNCHANGED disco PROVE TiposDelDisco'
    <3>1. bitmap' \subseteq bitmap /\ UNCHANGED <<dir, metadata, archivos, creados>>
      BY <2>5 DEF LiberarArchivo, Revienta
    <3> QED BY <1>1, <3>1, IgualDisco
  <2>6. ASSUME BorrarArchivo(c) PROVE TiposDelDisco'
    BY <1>1, <2>2, <2>6, QuitaTipos DEF BorrarArchivo
  <2>7. ASSUME BorrarDirectorio(c) PROVE TiposDelDisco'
    <3>1. UNCHANGED <<metadata, archivos, bitmap, creados>>
      BY <2>7 DEF BorrarDirectorio
    <3>2. CASE dir' = dir
      BY <1>1, <3>1, <3>2, IgualDisco
    <3>3. CASE dir' # dir
      <4>1. /\ metadata[t] = "no" /\ DOMAIN archivos[t] = {}
            /\ dir' = [dir EXCEPT ![t] = 0]
        BY <2>7, <3>3 DEF BorrarDirectorio
      <4>2. {u \in Tablas : dir'[u] # 0} \subseteq {u \in Tablas : dir[u] # 0}
        BY <4>1 DEF TiposDelDisco
      <4>3. IsFiniteSet({u \in Tablas : dir'[u] # 0})
        BY <4>2, FS_Subset DEF TiposDelDisco
      <4>4. dir' \in [Tablas -> 0..creados]
        <5>1. 0 \in 0..creados
          BY DEF TiposDelDisco
        <5> QED BY <4>1, <5>1 DEF TiposDelDisco
      <4>5. \A u \in Tablas : dir'[u] = 0 => metadata[u] = "no" /\ DOMAIN archivos[u] = {}
        BY <4>1 DEF TiposDelDisco
      <4> QED BY <3>1, <4>3, <4>4, <4>5 DEF TiposDelDisco
    <3> QED BY <3>2, <3>3
  <2> QED BY <1>2, <1>4, <2>3, <2>4, <2>5, <2>6, <2>7 DEF Drop
<1>5. ASSUME NEW i \in DOMAIN hilos, Compactacion(i) PROVE TiposDelDisco'
  <2>1. CASE UNCHANGED disco
    BY <1>2, <2>1
  <2>2. CASE ~UNCHANGED disco
    <3> DEFINE t == hilos[i].tabla
    <3>1. Compactar(i) /\ ~Revienta
      BY <1>5, <2>2 DEF Compactacion, LeerMetadata, BuscarEntradaDeHilo, Despertar,
                        FinalizarHilo, Revienta
    <3>2. t \in Tablas /\ hilos[i] \in UnHilo
      BY HiloDe
    <3>3. UNCHANGED <<dir, metadata, creados>>
      BY <3>1, CompactarEs
    <3>4. CASE Renombrar(i)
      BY <1>1, <3>1, <3>2, <3>3, <3>4, RenombradosTipos DEF Renombrar
    <3>5. CASE BloquearTabla(i)
      BY <2>2, <3>5 DEF BloquearTabla
    <3>6. CASE LiberarBloques(i)
      <4>1. bitmap' \subseteq bitmap
            /\ \/ UNCHANGED archivos
               \/ archivos' = [archivos EXCEPT ![t] = Restrict(@, DOMAIN @ \ {TmpC})]
        BY <3>1, <3>6 DEF LiberarBloques
      <4> QED BY <1>1, <3>2, <3>3, <4>1, IgualDisco, QuitaTipos
    <3>7. CASE PedirBloqueNuevo(i)
      <4>1. bitmap' \subseteq Bloques /\ UNCHANGED archivos
        BY <1>1, <3>7, HayBloque DEF PedirBloqueNuevo, Marcado
      <4> QED BY <3>3, <4>1, IgualDisco
    <3>8. CASE GuardarParticion(i)
      <4>1. PICK n \in hilos[i].faltan : n \in DOMAIN archivos[t]
                                        /\ Escribe(t, n, ConBloques(hilos[i].bloques))
        BY <3>1, <3>8 DEF GuardarParticion
      <4>2. hilos[i].bloques \in SUBSET Bloques /\ n \in Nombres
        BY <3>2, <4>1 DEF UnHilo, TiposDelDisco
      <4>3. dir[t] # 0
        BY <3>2, <4>1 DEF TiposDelDisco
      <4>4. UNCHANGED bitmap
        BY <3>1, <3>8 DEF GuardarParticion
      <4> QED BY <1>1, <3>2, <3>3, <4>1, <4>2, <4>3, <4>4, SinBloquesEsArchivo, EscribeTipos
    <3> QED BY <3>1, <3>4, <3>5, <3>6, <3>7, <3>8 DEF Compactar
  <2> QED BY <2>1, <2>2
<1>6. ASSUME Dumpear PROVE TiposDelDisco'
  <2> DEFINE t == dump.tabla
  <2>1. CASE UNCHANGED disco
    BY <1>2, <2>1
  <2>2. CASE ~UNCHANGED disco
    <3>1. CrearTmp \/ EscribirTmp
      BY <1>6, <2>2 DEF Dumpear, ComenzarDump, MirarTabla, BloquearTmp, TerminarDump, Revienta
    <3>2. t \in Tablas /\ Tmp \in Nombres
      BY <3>1, ParticionesAssumption DEF CrearTmp, EscribirTmp, TiposDelDump, Tmp, Nombres
    <3>3. CASE CrearTmp
      <4>1. dir[t] # 0 /\ Escribe(t, Tmp, SinBloques) /\ UNCHANGED <<dir, metadata, bitmap, creados>>
        BY <2>2, <3>3 DEF CrearTmp, disco
      <4> QED BY <1>1, <3>2, <4>1, SinBloquesEsArchivo, EscribeTipos
    <3>4. CASE EscribirTmp
      <4> DEFINE b == BloqueDisponible
      <4>1. bitmap' \subseteq Bloques /\ {b} \ {-1} \in SUBSET Bloques
        BY <1>1, <3>4, HayBloque DEF EscribirTmp, Marcado
      <4>2. CASE Tmp \in DOMAIN archivos[t]
        <5>1. dir[t] # 0
          BY <3>2, <4>2 DEF TiposDelDisco
        <5>2. Escribe(t, Tmp, ConBloques({b} \ {-1})) /\ UNCHANGED <<dir, metadata, creados>>
          BY <3>4, <4>2 DEF EscribirTmp
        <5> HIDE DEF b
        <5> QED BY <3>2, <4>1, <5>1, <5>2, SinBloquesEsArchivo, EscribeTipos
      <4>3. CASE Tmp \notin DOMAIN archivos[t]
        BY <3>4, <4>1, <4>3, IgualDisco DEF EscribirTmp
      <4> QED BY <4>2, <4>3
    <3> QED BY <3>1, <3>3, <3>4
  <2> QED BY <2>1, <2>2
<1>7. ASSUME NEW c, NEW op, NEW t, Pedir(c, op, t) \/ Reiniciar PROVE UNCHANGED disco
  BY <1>7 DEF Pedir, Reiniciar
<1> QED BY <1>2, <1>3, <1>4, <1>5, <1>6, <1>7, UsarLiberadaEs DEF Next, vars, Atender, BuscarTablaDeInsert, Insertar, SoloCliente

------------------------------------------------------------------------------
(* Types of the dump.                                                      *)

LEMMA InitDump == Init => TiposDelDump
<1> DEFINE x == CHOOSE t \in Tablas : TRUE
<1>1. Dormido = [pc |-> "dormido", tabla |-> x, entrada |-> 0, faltan |-> {}]
  BY DEF Dormido, NULL
<1> HIDE DEF x
<1> QED BY <1>1 DEF Init, TiposDelDump

LEMMA NextDump ==
  ASSUME TiposDeClientes, TiposDelDump, TiposDeListas, [Next]_vars
  PROVE  TiposDelDump'
<1> DEFINE x == CHOOSE t \in Tablas : TRUE
<1>1. Dormido = [pc |-> "dormido", tabla |-> x, entrada |-> 0, faltan |-> {}]
  BY DEF Dormido, NULL
<1> HIDE DEF x
<1>2. ASSUME UNCHANGED dump, memtable' \subseteq Tablas PROVE TiposDelDump'
  BY <1>2 DEF TiposDelDump
<1>3. UNCHANGED <<dump, memtable>> => TiposDelDump'
  BY DEF TiposDelDump
<1>4. ASSUME NEW c \in Clientes, Insertar(c) PROVE TiposDelDump'
  <2>1. cliente[c].tabla \in Tablas
    BY <1>4, LugarDe DEF Insertar
  <2> QED BY <1>2, <1>4, <2>1 DEF Insertar, Pasa, TiposDelDump
<1>5. ASSUME NEW c \in Clientes, Atender(c), ~Insertar(c) PROVE UNCHANGED <<dump, memtable>>
  BY <1>5 DEF Atender, BuscarTablaDeInsert, Create, Drop, BuscarDirectorio, CrearDirectorio,
     AbrirMetadata, GuardarMetadata, AbrirParticion, PedirBloque, EscribirParticion,
     AgregarEntrada, CrearHilo, BuscarEntrada, BloquearEntrada, AbrirDirectorio,
     BorrarMetadata, LiberarArchivo, BorrarArchivo, BorrarDirectorio, Condenar,
     BuscarEnMemtable, DesbloquearEntrada, SoloCliente, EnDisco, Pasa, Revienta
<1>6. ASSUME NEW i \in DOMAIN hilos, Compactacion(i) PROVE UNCHANGED <<dump, memtable>>
  BY <1>6, CompactarEs DEF Compactacion, LeerMetadata, BuscarEntradaDeHilo, Despertar, FinalizarHilo,
     SoloHilo, Revienta
<1>7. ASSUME Dumpear PROVE TiposDelDump'
  <2>1. ComenzarDump => TiposDelDump'
    BY DEF ComenzarDump, SoloDump, TiposDelDump
  <2>2. ASSUME NEW t \in Tablas, MirarTabla(t) PROVE TiposDelDump'
    <3>1. EncontrarTabla(t) \in Nat
      BY EncontrarTablaDa, EntradasSonNat DEF NULL
    <3> QED BY <2>2, <3>1 DEF MirarTabla, SoloDump, TiposDelDump, Revienta
  <2>6. BloquearTmp => TiposDelDump'
    BY DEF BloquearTmp, SoloDump, TiposDelDump
  <2>3. CrearTmp => TiposDelDump'
    BY DEF CrearTmp, SoloDump, TiposDelDump
  <2>4. EscribirTmp => TiposDelDump'
    BY DEF EscribirTmp, SoloDump, TiposDelDump
  <2>5. TerminarDump => TiposDelDump'
    BY <1>1 DEF TerminarDump, SoloDump, TiposDelDump
  <2> QED BY <1>7, <2>1, <2>2, <2>3, <2>4, <2>5, <2>6 DEF Dumpear
<1>10. UsarLiberada => TiposDelDump'
  BY <1>3, UsarLiberadaEs DEF TiposDelDump, DumpColgado
<1>8. Reiniciar => TiposDelDump'
  BY <1>1 DEF Reiniciar, Levantado, TiposDelDump
<1>9. ASSUME NEW c, NEW op, NEW t, Pedir(c, op, t) PROVE UNCHANGED <<dump, memtable>>
  BY <1>9 DEF Pedir
<1> QED BY <1>3, <1>4, <1>5, <1>6, <1>7, <1>8, <1>9, <1>10 DEF Next, vars

------------------------------------------------------------------------------
(* Types of the lists.                                                     *)

\* A set that is finite becomes a sequence of its elements, each once.
LEMMA SetToSeqDa ==
  ASSUME NEW S, IsFiniteSet(S)
  PROVE  /\ SetToSeq(S) \in Seq(S) /\ IsInjective(SetToSeq(S))
         /\ Len(SetToSeq(S)) = Cardinality(S)
         /\ Range(SetToSeq(S)) = S
<1> DEFINE n == Cardinality(S)
           f == SetToSeq(S)
<1>1. n \in Nat /\ ExistsBijection(1..n, S)
  BY FS_CardinalityType
<1>2. \E g \in [1..n -> S] : IsInjective(g)
  BY <1>1, Zenon DEF ExistsBijection, Bijection, Injection
<1>3. f \in [1..n -> S] /\ IsInjective(f)
  BY <1>2, Zenon DEF SetToSeq
<1> HIDE DEF f, n
<1>4. f \in Seq(S) /\ Len(f) = n
  BY <1>1, <1>3
<1>5. f \in Injection(1..n, S)
  BY <1>3 DEF Injection
<1>6. Cardinality(1..n) = n
  BY <1>1, FS_Interval
<1>7. f \in Surjection(1..n, S)
  BY <1>5, <1>6, FS_Injection DEF n
<1>8. Range(f) = S
  BY <1>3, <1>7 DEF Range, Surjection
<1> QED BY <1>3, <1>4, <1>8 DEF f, n

\* Listadas is a range, of which FinalizarHilo takes one.
LEMMA RangoListadas == Listadas = Range(tablasParaCompactaciones)
BY DEF Listadas, ToSet, Range

LEMMA InitListas == Init => TiposDeListas
<1> SUFFICES ASSUME Init PROVE TiposDeListas
  OBVIOUS
<1>1. DOMAIN <<>> = {} /\ entradas = <<>> /\ tablasParaCompactaciones = <<>> /\ hilos = <<>>
  BY DEF Init
<1>2. \A c \in Clientes : cliente[c].entrada = NULL
  BY DEF Init, Libre
<1> QED BY <1>1, <1>2 DEF TiposDeListas, Listadas, ToSet, IsInjective

\* A mutex, or a mark, of an entry.
Marca ==
  /\ entradas' \in Seq(UnaEntrada) /\ DOMAIN entradas' = DOMAIN entradas
  /\ \A e \in DOMAIN entradas : /\ entradas'[e].tabla = entradas[e].tabla
                                /\ entradas'[e].liberada = entradas[e].liberada
  /\ UNCHANGED tablasParaCompactaciones

LEMMA MarcaUna ==
  ASSUME TiposDeListas, NEW e \in DOMAIN entradas, NEW f \in UnaEntrada,
         f.tabla = entradas[e].tabla, f.liberada = entradas[e].liberada,
         entradas' = [entradas EXCEPT ![e] = f], UNCHANGED tablasParaCompactaciones
  PROVE  Marca
<1>1. entradas' \in Seq(UnaEntrada) /\ DOMAIN entradas' = DOMAIN entradas
  BY DEF TiposDeListas
<1>2. \A x \in DOMAIN entradas : entradas'[x] = IF x = e THEN f ELSE entradas[x]
  BY DEF TiposDeListas
<1> QED BY <1>1, <1>2 DEF Marca

LEMMA EntradaDe ==
  ASSUME TiposDeListas, NEW e \in DOMAIN entradas
  PROVE  entradas[e] \in UnaEntrada
BY DEF TiposDeListas

\* What a step of compactar does to its thread, and to the mutex that it gives back.
LEMMA CompactarDa ==
  ASSUME TiposDeListas, NEW i \in DOMAIN hilos, Compactar(i), ~Revienta
  PROVE  \E h \in UnHilo :
           /\ hilos' = [hilos EXCEPT ![i] = h]
           /\ h.tabla = hilos[i].tabla /\ h.entrada = hilos[i].entrada
           /\ hilos[i].pc \in {"decide", "bloquea", "libera", "pide", "guarda"}
           /\ hilos[i].pc = "decide" => ~Condenada(hilos[i].tabla)
           /\ \/ UNCHANGED entradas /\ h.pc \in {"bloquea", "libera", "pide", "guarda"}
              \/ h.pc = "duerme" /\ entradas' = [entradas EXCEPT ![hilos[i].entrada].duenio = FALSE]
<1> DEFINE h == hilos[i]
           g == [h EXCEPT !.pc = "duerme", !.faltan = {}, !.bloques = {}]
<1>1. h \in UnHilo
  BY HiloDe
<1>2. g \in UnHilo /\ g.tabla = h.tabla /\ g.entrada = h.entrada /\ g.pc = "duerme"
  BY <1>1 DEF UnHilo
<1>3. TerminarDeCompactar(i, h) => /\ hilos' = [hilos EXCEPT ![i] = g]
                                   /\ entradas' = [entradas EXCEPT ![h.entrada].duenio = FALSE]
  BY DEF TerminarDeCompactar, SoloHilo
<1>4. CASE Renombrar(i)
  <2>1. h.pc = "decide" /\ ~Condenada(h.tabla)
    BY <1>4 DEF Renombrar
  <2>2. CASE TerminarDeCompactar(i, h)
    BY <1>2, <1>3, <2>1, <2>2
  <2>3. CASE ~TerminarDeCompactar(i, h)
    <3>1. PICK ps \in SUBSET (1..Particiones) :
            /\ SoloHilo(i, [h EXCEPT !.pc = "bloquea", !.faltan = ps, !.libera = ps \cup {TmpC}])
            /\ UNCHANGED listas
      BY <1>4, <2>3 DEF Renombrar
    <3> DEFINE k == [h EXCEPT !.pc = "bloquea", !.faltan = ps, !.libera = ps \cup {TmpC}]
    <3>2. ps \cup {TmpC} \in SUBSET Nombres
      BY ParticionesAssumption DEF Nombres, TmpC
    <3>3. k \in UnHilo /\ k.tabla = h.tabla /\ k.entrada = h.entrada /\ k.pc = "bloquea"
      BY <1>1, <3>2 DEF UnHilo
    <3>4. hilos' = [hilos EXCEPT ![i] = k] /\ UNCHANGED entradas
      BY <3>1 DEF SoloHilo, listas
    <3> HIDE DEF k
    <3> QED BY <2>1, <3>3, <3>4
  <2> QED BY <2>2, <2>3
<1>5. CASE BloquearTabla(i)
  <2> DEFINE k == [h EXCEPT !.pc = "libera"]
  <2>1. k \in UnHilo /\ k.tabla = h.tabla /\ k.entrada = h.entrada /\ k.pc = "libera"
    BY <1>1 DEF UnHilo
  <2>2. hilos' = [hilos EXCEPT ![i] = k] /\ UNCHANGED entradas /\ h.pc = "bloquea"
    BY <1>5 DEF BloquearTabla, SoloHilo, listas
  <2> HIDE DEF k
  <2> QED BY <2>1, <2>2
<1>6. CASE LiberarBloques(i)
  <2>1. PICK n : hilos' = [hilos EXCEPT ![i] = SinLiberar(h, n)] /\ UNCHANGED entradas
                 /\ h.pc = "libera"
    BY <1>6 DEF LiberarBloques, SoloHilo, listas
  <2> DEFINE k == SinLiberar(h, n)
  <2>2. k \in UnHilo /\ k.tabla = h.tabla /\ k.entrada = h.entrada /\ k.pc \in {"pide", "libera"}
    <3>1. CASE h.libera = {n}
      BY <1>1, <3>1 DEF UnHilo, SinLiberar
    <3>2. CASE h.libera # {n}
      BY <1>1, <3>2 DEF UnHilo, SinLiberar
    <3> QED BY <3>1, <3>2
  <2> HIDE DEF k
  <2> QED BY <2>1, <2>2 DEF k
<1>7. CASE PedirBloqueNuevo(i)
  <2> DEFINE b == BloqueDisponible
             k == [h EXCEPT !.pc = "guarda", !.bloques = h.bloques \cup ({b} \ {-1})]
  <2>1. {b} \ {-1} \in SUBSET Bloques
    BY HayBloque
  <2>2. hilos' = [hilos EXCEPT ![i] = k] /\ UNCHANGED entradas /\ h.pc \in {"pide", "guarda"}
    BY <1>7 DEF PedirBloqueNuevo, SoloHilo, listas
  <2> HIDE DEF b
  <2>3. k \in UnHilo /\ k.tabla = h.tabla /\ k.entrada = h.entrada /\ k.pc = "guarda"
    BY <1>1, <2>1 DEF UnHilo
  <2> HIDE DEF k
  <2> QED BY <2>2, <2>3
<1>8. CASE GuardarParticion(i)
  <2>1. PICK n : \/ TerminarDeCompactar(i, h)
                 \/ /\ UNCHANGED entradas
                    /\ SoloHilo(i, [h EXCEPT !.pc = "pide", !.faltan = @ \ {n}, !.bloques = {}])
    BY <1>8 DEF GuardarParticion
  <2> DEFINE k == [h EXCEPT !.pc = "pide", !.faltan = @ \ {n}, !.bloques = {}]
  <2>2. k \in UnHilo /\ k.tabla = h.tabla /\ k.entrada = h.entrada /\ k.pc = "pide"
    BY <1>1 DEF UnHilo
  <2>3. h.pc = "guarda"
    BY <1>8 DEF GuardarParticion
  <2>4. CASE TerminarDeCompactar(i, h)
    BY <1>2, <1>3, <2>3, <2>4
  <2>5. CASE UNCHANGED entradas /\ SoloHilo(i, k)
    <3>1. hilos' = [hilos EXCEPT ![i] = k]
      BY <2>5 DEF SoloHilo
    <3> HIDE DEF k
    <3> QED BY <2>2, <2>3, <2>5, <3>1
  <2> QED BY <2>1, <2>4, <2>5
<1> QED BY <1>4, <1>5, <1>6, <1>7, <1>8 DEF Compactar

\* What each step does to the lists, when it is not a restart.
LEMMA PasosDeListas ==
  ASSUME TiposDeClientes, TiposDeListas, Next, ~Reiniciar
  PROVE  \/ Marca
         \/ \E c \in Clientes : AgregarEntrada(c)
         \/ \E i \in DOMAIN hilos : FinalizarHilo(i)
<1>1. UNCHANGED listas => Marca
  BY DEF listas, Marca, TiposDeListas
<1>2. ASSUME NEW c \in Clientes, BloquearEntrada(c) \/ Condenar(c) \/ DesbloquearEntrada(c)
      PROVE  Marca
  <2> DEFINE e == cliente[c].entrada
  <2>1. CASE UNCHANGED listas
    BY <1>1, <2>1
  <2>2. CASE ~UNCHANGED listas
    <3>1. e \in DOMAIN entradas
      BY <1>2, <2>2 DEF BloquearEntrada, Condenar, DesbloquearEntrada, Perdida, Revienta,
                        TiposDeListas, listas
    <3>2. entradas[e] \in UnaEntrada
      BY <3>1, EntradaDe
    <3>3. \E f \in UnaEntrada : /\ f.tabla = entradas[e].tabla /\ f.liberada = entradas[e].liberada
                                /\ entradas' = [entradas EXCEPT ![e] = f]
      <4>1. \/ entradas' = [entradas EXCEPT ![e] = [entradas[e] EXCEPT !.duenio = TRUE]]
            \/ entradas' = [entradas EXCEPT ![e] = [entradas[e] EXCEPT !.duenio = FALSE]]
            \/ entradas' = [entradas EXCEPT ![e] = [entradas[e] EXCEPT !.finalizar = TRUE]]
        BY <1>2, <2>2 DEF BloquearEntrada, Condenar, DesbloquearEntrada, Revienta, listas
      <4> QED BY <3>2, <4>1 DEF UnaEntrada
    <3>4. UNCHANGED tablasParaCompactaciones
      BY <1>2, <2>2 DEF BloquearEntrada, Condenar, DesbloquearEntrada, Revienta
    <3> QED BY <3>1, <3>3, <3>4, MarcaUna
  <2> QED BY <2>1, <2>2
<1>3. ASSUME NEW c \in Clientes, Atender(c), ~AgregarEntrada(c),
             ~(BloquearEntrada(c) \/ Condenar(c) \/ DesbloquearEntrada(c))
      PROVE  UNCHANGED listas
  BY <1>3 DEF Atender, BuscarTablaDeInsert, Insertar, Create, Drop, BuscarDirectorio,
     CrearDirectorio, AbrirMetadata, GuardarMetadata, AbrirParticion, PedirBloque,
     EscribirParticion, CrearHilo, BuscarEntrada, AbrirDirectorio, BorrarMetadata,
     LiberarArchivo, BorrarArchivo, BorrarDirectorio, BuscarEnMemtable, SoloCliente, EnDisco,
     Pasa, Revienta
<1>4. ASSUME NEW i \in DOMAIN hilos, Compactacion(i), ~FinalizarHilo(i) PROVE Marca
  <2> DEFINE e == hilos[i].entrada
  <2>1. CASE UNCHANGED listas
    BY <1>1, <2>1
  <2>2. CASE ~UNCHANGED listas
    <3>1. Despertar(i) \/ Compactar(i)
      BY <1>4, <2>2 DEF Compactacion, LeerMetadata, BuscarEntradaDeHilo, Revienta
    <3>2. e \in DOMAIN entradas
      <4>1. CASE Despertar(i)
        BY <2>2, <4>1, HiloDe DEF Despertar, Perdida, Revienta
      <4>2. CASE Compactar(i)
        <5>1. entradas' = [entradas EXCEPT ![e].duenio = FALSE]
              /\ UNCHANGED tablasParaCompactaciones
          BY <2>2, <4>2, CompactarEs, CompactarDa DEF Revienta, listas
        <5>2. entradas' # entradas
          BY <2>2, <5>1 DEF listas
        <5> QED BY <5>1, <5>2 DEF TiposDeListas
      <4> QED BY <3>1, <4>1, <4>2
    <3>3. entradas[e] \in UnaEntrada
      BY <3>2, EntradaDe
    <3>4. /\ \/ entradas' = [entradas EXCEPT ![e] = [entradas[e] EXCEPT !.duenio = TRUE]]
             \/ entradas' = [entradas EXCEPT ![e] = [entradas[e] EXCEPT !.duenio = FALSE]]
          /\ UNCHANGED tablasParaCompactaciones
      BY <2>2, <3>1, CompactarEs, CompactarDa DEF Despertar, Revienta, listas
    <3>5. \E f \in UnaEntrada : /\ f.tabla = entradas[e].tabla /\ f.liberada = entradas[e].liberada
                                /\ entradas' = [entradas EXCEPT ![e] = f]
      BY <3>3, <3>4 DEF UnaEntrada
    <3> QED BY <3>2, <3>4, <3>5, MarcaUna
  <2> QED BY <2>1, <2>2
<1>5. Dumpear => UNCHANGED listas
  BY DEF Dumpear, ComenzarDump, MirarTabla, BloquearTmp, CrearTmp, EscribirTmp, TerminarDump, SoloDump,
         Revienta
<1>6. ASSUME NEW c, NEW op, NEW t, Pedir(c, op, t) PROVE UNCHANGED listas
  BY <1>6 DEF Pedir
<1> QED BY <1>1, <1>2, <1>3, <1>4, <1>5, <1>6, UsarLiberadaEs DEF Next, vars

LEMMA AgregarDa ==
  ASSUME TiposDeClientes, TiposDeListas, NEW c \in Clientes, AgregarEntrada(c)
  PROVE  LET n == Len(entradas) + 1 IN
         /\ entradas' \in Seq(UnaEntrada)
         /\ DOMAIN entradas' = DOMAIN entradas \cup {n} /\ n \notin DOMAIN entradas
         /\ n \in Nat \ {0}
         /\ entradas'[n] = Entrada(cliente[c].tabla)
         /\ \A e \in DOMAIN entradas : entradas'[e] = entradas[e]
         /\ tablasParaCompactaciones' = Append(tablasParaCompactaciones, n)
         /\ Listadas' = Listadas \cup {n}
<1> DEFINE n == Len(entradas) + 1
           x == Entrada(cliente[c].tabla)
<1>1. x \in UnaEntrada
  BY LugarDe DEF AgregarEntrada, Entrada, UnaEntrada
<1>2. entradas \in Seq(UnaEntrada) /\ entradas' = Append(entradas, x)
      /\ tablasParaCompactaciones' = Append(tablasParaCompactaciones, Len(entradas'))
  BY DEF AgregarEntrada, TiposDeListas
<1> HIDE DEF x
<1>3. /\ entradas' \in Seq(UnaEntrada) /\ Len(entradas') = n
      /\ DOMAIN entradas' = DOMAIN entradas \cup {n} /\ n \notin DOMAIN entradas
      /\ n \in Nat \ {0}
      /\ entradas'[n] = x
      /\ \A e \in DOMAIN entradas : entradas'[e] = entradas[e]
  BY <1>1, <1>2
<1>4. Listadas' = Listadas \cup {n}
  <2>1. tablasParaCompactaciones \in Seq(Nat)
    BY DEF TiposDeListas
  <2>2. Range(Append(tablasParaCompactaciones, n)) = Range(tablasParaCompactaciones) \cup {n}
    BY <1>3, <2>1, RangoDeAppend
  <2> QED BY <1>2, <1>3, <2>2 DEF Listadas, ToSet, Range
<1> QED BY <1>2, <1>3, <1>4 DEF x

LEMMA FinalizarDa ==
  ASSUME TiposDeListas, NEW i \in DOMAIN hilos, FinalizarHilo(i)
  PROVE  LET e == EncontrarTabla(hilos[i].tabla) IN
         /\ e \in EntradasDe(hilos[i].tabla) /\ e \in DOMAIN entradas
         /\ entradas[e].finalizar
         /\ entradas' \in Seq(UnaEntrada) /\ DOMAIN entradas' = DOMAIN entradas
         /\ \A x \in DOMAIN entradas :
              /\ entradas'[x].tabla = entradas[x].tabla
              /\ entradas'[x].finalizar = entradas[x].finalizar
              /\ entradas'[x].duenio = entradas[x].duenio
              /\ entradas'[x].liberada = IF x = e THEN TRUE ELSE entradas[x].liberada
         /\ tablasParaCompactaciones' \in Seq(Nat) /\ IsInjective(tablasParaCompactaciones')
         /\ Listadas' = Listadas \ {e}
<1> DEFINE e == EncontrarTabla(hilos[i].tabla)
<1>1. e # NULL /\ entradas[e].finalizar
      /\ tablasParaCompactaciones' = RemoveFirst(tablasParaCompactaciones, e)
      /\ entradas' = [entradas EXCEPT ![e].liberada = TRUE]
  BY DEF FinalizarHilo, Condenada
<1>2. e \in EntradasDe(hilos[i].tabla)
  BY <1>1, EncontrarTablaDa
<1>3. e \in Listadas /\ e \in DOMAIN entradas
  BY <1>2, EntradasSonNat DEF EntradasDe
<1>4. /\ tablasParaCompactaciones' \in Seq(Nat) /\ IsInjective(tablasParaCompactaciones')
      /\ Range(tablasParaCompactaciones') = Range(tablasParaCompactaciones) \ {e}
  BY <1>1, RemoveFirstSinRepetidos DEF TiposDeListas
<1>5. Listadas' = Listadas \ {e}
  BY <1>4, RangoListadas DEF Listadas, ToSet, Range
<1> HIDE DEF e
<1>6. entradas[e] \in UnaEntrada /\ entradas \in Seq(UnaEntrada)
  BY <1>3, EntradaDe DEF TiposDeListas
<1>7. [entradas[e] EXCEPT !.liberada = TRUE] \in UnaEntrada
  BY <1>6 DEF UnaEntrada
<1>8. entradas' \in Seq(UnaEntrada) /\ DOMAIN entradas' = DOMAIN entradas
  BY <1>1, <1>3, <1>6, <1>7
<1>9. ASSUME NEW x \in DOMAIN entradas
      PROVE  /\ entradas'[x].tabla = entradas[x].tabla
             /\ entradas'[x].finalizar = entradas[x].finalizar
             /\ entradas'[x].duenio = entradas[x].duenio
             /\ entradas'[x].liberada = IF x = e THEN TRUE ELSE entradas[x].liberada
  BY <1>1, <1>3, <1>6 DEF UnaEntrada
<1> QED BY <1>1, <1>2, <1>3, <1>4, <1>5, <1>8, <1>9 DEF e

\* But for a restart, entries are not forgotten, and are always of their table.
LEMMA EntradasQuedan ==
  ASSUME TiposDeClientes, TiposDeListas, Next, ~Reiniciar
  PROVE  /\ DOMAIN entradas \subseteq DOMAIN entradas'
         /\ \A e \in DOMAIN entradas : entradas'[e].tabla = entradas[e].tabla
<1>1. Marca => /\ DOMAIN entradas \subseteq DOMAIN entradas'
               /\ \A e \in DOMAIN entradas : entradas'[e].tabla = entradas[e].tabla
  BY DEF Marca
<1> QED BY <1>1, PasosDeListas, AgregarDa, FinalizarDa

\* What a client has of the entries, after each step: none, or one of its table.
LEMMA EntradaDelCliente ==
  ASSUME TiposDeClientes, TiposDeListas, NEW c \in Clientes, Atender(c)
  PROVE  \/ UNCHANGED cliente
         \/ \E r : /\ cliente' = [cliente EXCEPT ![c] = r]
                   /\ \/ r.entrada = NULL
                      \/ r.entrada = cliente[c].entrada /\ r.tabla = cliente[c].tabla
                      \/ r.entrada \in DOMAIN entradas /\ entradas[r.entrada].tabla = r.tabla
<1> DEFINE q == cliente[c]
           Va(r) == /\ cliente' = [cliente EXCEPT ![c] = r]
                    /\ \/ r.entrada = NULL
                       \/ r.entrada = q.entrada /\ r.tabla = q.tabla
                       \/ r.entrada \in DOMAIN entradas /\ entradas[r.entrada].tabla = r.tabla
<1>1. Libre.entrada = NULL
  BY DEF Libre
<1>2. q \in Pedido
  BY LugarDe
<1>3. CASE BuscarEntrada(c)
  <2> DEFINE e == EncontrarTabla(q.tabla)
             r == [q EXCEPT !.entrada = e, !.pc = IF e = NULL THEN "opendir" ELSE "bloquear"]
  <2>1. cliente' = [cliente EXCEPT ![c] = r]
    BY <1>3 DEF BuscarEntrada, SoloCliente, Pasa
  <2>2. e = NULL \/ (e \in DOMAIN entradas /\ entradas[e].tabla = q.tabla)
    BY EncontrarTablaDa
  <2> HIDE DEF e
  <2>3. r.entrada = e /\ r.tabla = q.tabla
    BY <1>2 DEF Pedido
  <2> QED BY <2>1, <2>2, <2>3
<1>4. CASE ~BuscarEntrada(c)
  <2> DEFINE Igual(r) == r.entrada = q.entrada /\ r.tabla = q.tabla
  <2>1. \/ UNCHANGED cliente \/ cliente' = [cliente EXCEPT ![c] = Libre]
        \/ \E r : cliente' = [cliente EXCEPT ![c] = r] /\ Igual(r)
    <3> DEFINE Bien == \/ UNCHANGED cliente \/ cliente' = [cliente EXCEPT ![c] = Libre]
                       \/ \E r : cliente' = [cliente EXCEPT ![c] = r] /\ Igual(r)
    <3> USE DEF SoloCliente, EnDisco, Pasa, Revienta
    <3>1. BuscarTablaDeInsert(c) => Bien
      BY <1>2 DEF BuscarTablaDeInsert, Pedido
    <3>2. Insertar(c) => Bien
      BY <1>2 DEF Insertar, Pedido
    <3>3. BuscarDirectorio(c) => Bien
      BY <1>2 DEF BuscarDirectorio, Pedido
    <3>4. CrearDirectorio(c) => Bien
      BY <1>2 DEF CrearDirectorio, Pedido
    <3>5. AbrirMetadata(c) => Bien
      BY <1>2 DEF AbrirMetadata, Pedido
    <3>6. GuardarMetadata(c) => Bien
      BY <1>2 DEF GuardarMetadata, Pedido
    <3>7. AbrirParticion(c) => Bien
      BY <1>2 DEF AbrirParticion, Pedido
    <3>8. PedirBloque(c) => Bien
      <4> DEFINE r == [q EXCEPT !.pc = "escribirParticion", !.bloque = BloqueDisponible]
      <4>1. Igual(r) /\ Igual(OtraParticion(q))
        BY <1>2 DEF Pedido, OtraParticion
      <4>2. PedirBloque(c) => \/ cliente' = [cliente EXCEPT ![c] = r]
                              \/ cliente' = [cliente EXCEPT ![c] = OtraParticion(q)]
        BY DEF PedirBloque
      <4> HIDE DEF r, Igual
      <4> QED BY <4>1, <4>2
    <3>9. EscribirParticion(c) => Bien
      BY <1>2 DEF EscribirParticion, Pedido, OtraParticion
    <3>10. AgregarEntrada(c) => Bien
      BY <1>2 DEF AgregarEntrada, Pedido
    <3>11. CrearHilo(c) => Bien
      BY <1>2 DEF CrearHilo, Pedido
    <3>12. BloquearEntrada(c) => Bien
      BY <1>2 DEF BloquearEntrada, Pedido
    <3>13. AbrirDirectorio(c) => Bien
      BY <1>2 DEF AbrirDirectorio, Pedido
    <3>14. BorrarMetadata(c) => Bien
      BY <1>2 DEF BorrarMetadata, Pedido
    <3>15. LiberarArchivo(c) => Bien
      <4> DEFINE r(n) == [q EXCEPT !.pc = "remove", !.nombre = n]
      <4>1. \A n : Igual(r(n))
        BY <1>2 DEF Pedido
      <4>2. LiberarArchivo(c) => \/ UNCHANGED cliente
                                 \/ \E n : cliente' = [cliente EXCEPT ![c] = r(n)]
        BY DEF LiberarArchivo
      <4> HIDE DEF r, Igual
      <4> QED BY <4>1, <4>2
    <3>16. BorrarArchivo(c) => Bien
      BY <1>2 DEF BorrarArchivo, Pedido
    <3>17. BorrarDirectorio(c) => Bien
      BY <1>2 DEF BorrarDirectorio, Pedido
    <3>18. Condenar(c) => Bien
      BY <1>2 DEF Condenar, Pedido
    <3>19. BuscarEnMemtable(c) => Bien
      BY <1>2 DEF BuscarEnMemtable, Pedido
    <3>20. DesbloquearEntrada(c) => Bien
      BY <1>2 DEF DesbloquearEntrada, Pedido
    <3> QED BY <1>4, <3>1, <3>2, <3>3, <3>4, <3>5, <3>6, <3>7, <3>8, <3>9, <3>10, <3>11, <3>12, <3>13, <3>14, <3>15, <3>16, <3>17, <3>18, <3>19, <3>20 DEF Atender, Create, Drop
  <2> QED BY <1>1, <2>1
<1> QED BY <1>3, <1>4

\* What a step does to the threads.
LEMMA PasosDeHilos ==
  ASSUME TiposDeClientes, TiposDeListas, Next, ~Reiniciar
  PROVE  \/ UNCHANGED hilos
         \/ \E c \in Clientes : /\ CrearHilo(c)
                                /\ hilos' = Append(hilos, Hilo(cliente[c].tabla))
         \/ \E i \in DOMAIN hilos, h \in UnHilo :
              /\ Compactacion(i) /\ hilos[i].pc # "fin" /\ (h.pc = "fin" <=> FinalizarHilo(i))
              /\ hilos' = [hilos EXCEPT ![i] = h]
              /\ h.tabla = hilos[i].tabla /\ h.entrada \in DOMAIN entradas \cup {NULL}
<1>1. ASSUME NEW c \in Clientes, Atender(c), ~CrearHilo(c) PROVE UNCHANGED hilos
  BY <1>1 DEF Atender, BuscarTablaDeInsert, Insertar, Create, Drop, BuscarDirectorio,
     CrearDirectorio, AbrirMetadata, GuardarMetadata, AbrirParticion, PedirBloque,
     EscribirParticion, AgregarEntrada, BuscarEntrada, BloquearEntrada, AbrirDirectorio,
     BorrarMetadata, LiberarArchivo, BorrarArchivo, BorrarDirectorio, Condenar,
     BuscarEnMemtable, DesbloquearEntrada, SoloCliente, EnDisco, Pasa, Revienta
<1>2. ASSUME NEW c \in Clientes, CrearHilo(c)
      PROVE  UNCHANGED hilos \/ hilos' = Append(hilos, Hilo(cliente[c].tabla))
  BY <1>2 DEF CrearHilo
<1>3. ASSUME NEW i \in DOMAIN hilos, Compactacion(i), ~UNCHANGED hilos
      PROVE  \E h \in UnHilo :
              /\ hilos[i].pc # "fin" /\ (h.pc = "fin" <=> FinalizarHilo(i))
              /\ hilos' = [hilos EXCEPT ![i] = h]
              /\ h.tabla = hilos[i].tabla /\ h.entrada \in DOMAIN entradas \cup {NULL}
  <2> DEFINE h == hilos[i]
  <2>1. h \in UnHilo /\ h.entrada \in DOMAIN entradas \cup {NULL}
    BY HiloDe
  <2>2. EncontrarTabla(h.tabla) \in DOMAIN entradas \cup {NULL}
        /\ EncontrarTabla(h.tabla) \in Nat
    BY EncontrarTablaDa, EntradasSonNat DEF NULL
  <2>3. CASE LeerMetadata(i)
    <3> DEFINE g == [h EXCEPT !.pc = "buscar"]
    <3>1. h.pc = "inicio" /\ hilos' = [hilos EXCEPT ![i] = g]
      BY <1>3, <2>3 DEF LeerMetadata, SoloHilo, Revienta
    <3>2. ~FinalizarHilo(i)
      BY <3>1 DEF FinalizarHilo
    <3>3. g \in UnHilo /\ g.tabla = h.tabla /\ g.entrada = h.entrada /\ g.pc = "buscar"
      BY <2>1 DEF UnHilo
    <3> QED BY <2>1, <3>1, <3>2, <3>3
  <2>4. CASE BuscarEntradaDeHilo(i)
    <3> DEFINE e == EncontrarTabla(h.tabla)
               g == [h EXCEPT !.pc = "duerme", !.entrada = e]
    <3>1. h.pc = "buscar" /\ hilos' = [hilos EXCEPT ![i] = g]
      BY <2>4 DEF BuscarEntradaDeHilo, SoloHilo
    <3>2. ~FinalizarHilo(i)
      BY <3>1 DEF FinalizarHilo
    <3> HIDE DEF e
    <3>3. e \in DOMAIN entradas \cup {NULL} /\ e \in Nat
      BY <2>2 DEF e
    <3>4. g \in UnHilo /\ g.tabla = h.tabla /\ g.entrada = e /\ g.pc = "duerme"
      BY <2>1, <3>3 DEF UnHilo
    <3> QED BY <3>1, <3>2, <3>3, <3>4
  <2>5. CASE Despertar(i)
    <3> DEFINE g == [h EXCEPT !.pc = "decide"]
    <3>1. h.pc = "duerme" /\ hilos' = [hilos EXCEPT ![i] = g]
      BY <1>3, <2>5 DEF Despertar, SoloHilo, Revienta
    <3>2. ~FinalizarHilo(i)
      BY <3>1 DEF FinalizarHilo
    <3>3. g \in UnHilo /\ g.tabla = h.tabla /\ g.entrada = h.entrada /\ g.pc = "decide"
      BY <2>1 DEF UnHilo
    <3> QED BY <2>1, <3>1, <3>2, <3>3
  <2>6. CASE FinalizarHilo(i)
    <3> DEFINE g == [h EXCEPT !.pc = "fin"]
    <3>1. h.pc = "decide" /\ hilos' = [hilos EXCEPT ![i] = g]
      BY <2>6 DEF FinalizarHilo, SoloHilo
    <3>3. g \in UnHilo /\ g.tabla = h.tabla /\ g.entrada = h.entrada /\ g.pc = "fin"
      BY <2>1 DEF UnHilo
    <3> QED BY <2>1, <2>6, <3>1, <3>3
  <2>7. CASE Compactar(i)
    <3>1. ~Revienta
      BY <1>3 DEF Revienta
    <3>2. PICK g \in UnHilo :
            /\ hilos' = [hilos EXCEPT ![i] = g]
            /\ g.tabla = h.tabla /\ g.entrada = h.entrada
            /\ h.pc \in {"decide", "bloquea", "libera", "pide", "guarda"}
            /\ h.pc = "decide" => ~Condenada(h.tabla)
            /\ g.pc # "fin"
      BY <2>7, <3>1, CompactarDa
    <3>3. ~FinalizarHilo(i)
      BY <3>2 DEF FinalizarHilo
    <3> QED BY <2>1, <3>2, <3>3
  <2> QED BY <1>3, <2>3, <2>4, <2>5, <2>6, <2>7 DEF Compactacion
<1>4. Dumpear => UNCHANGED hilos
  BY DEF Dumpear, ComenzarDump, MirarTabla, BloquearTmp, CrearTmp, EscribirTmp, TerminarDump, SoloDump,
         Revienta
<1>5. ASSUME NEW c, NEW op, NEW t, Pedir(c, op, t) PROVE UNCHANGED hilos
  BY <1>5 DEF Pedir
<1> QED BY <1>1, <1>2, <1>3, <1>4, <1>5, UsarLiberadaEs DEF Next, vars

LEMMA NextListas ==
  ASSUME TiposDeClientes, TiposDelDisco, TiposDelDump, TiposDeListas, [Next]_vars
  PROVE  TiposDeListas'
<1>1. UNCHANGED vars => TiposDeListas'
  BY DEF vars, listas, TiposDeListas, Listadas
<1>2. CASE Next /\ ~Reiniciar
  <2>1. /\ entradas' \in Seq(UnaEntrada) /\ tablasParaCompactaciones' \in Seq(Nat)
        /\ IsInjective(tablasParaCompactaciones') /\ Listadas' \subseteq DOMAIN entradas'
        /\ \A e \in DOMAIN entradas' : entradas'[e].liberada <=> e \notin Listadas'
    <3>1. CASE Marca
      <4>1. Listadas' = Listadas
        BY <3>1 DEF Marca, Listadas
      <4> QED BY <3>1, <4>1 DEF Marca, TiposDeListas
    <3>2. ASSUME NEW c \in Clientes, AgregarEntrada(c)
          PROVE  /\ entradas' \in Seq(UnaEntrada) /\ tablasParaCompactaciones' \in Seq(Nat)
                 /\ IsInjective(tablasParaCompactaciones') /\ Listadas' \subseteq DOMAIN entradas'
                 /\ \A e \in DOMAIN entradas' : entradas'[e].liberada <=> e \notin Listadas'
      <4> DEFINE n == Len(entradas) + 1
      <4> HIDE DEF n
      <4>1. /\ entradas' \in Seq(UnaEntrada)
            /\ DOMAIN entradas' = DOMAIN entradas \cup {n} /\ n \notin DOMAIN entradas
            /\ n \in Nat \ {0} /\ entradas'[n] = Entrada(cliente[c].tabla)
            /\ \A e \in DOMAIN entradas : entradas'[e] = entradas[e]
            /\ tablasParaCompactaciones' = Append(tablasParaCompactaciones, n)
            /\ Listadas' = Listadas \cup {n}
        BY <3>2, AgregarDa DEF n
      <4>2. /\ tablasParaCompactaciones \in Seq(Nat) /\ IsInjective(tablasParaCompactaciones)
            /\ Listadas \subseteq DOMAIN entradas
            /\ \A e \in DOMAIN entradas : entradas[e].liberada <=> e \notin Listadas
        BY DEF TiposDeListas
      <4>3. tablasParaCompactaciones' \in Seq(Nat)
        BY <4>1, <4>2
      <4>4. IsInjective(tablasParaCompactaciones')
        BY <4>1, <4>2, RangoListadas, AppendSinRepetidos
      <4>5. ~entradas'[n].liberada
        BY <4>1 DEF Entrada
      <4> QED BY <4>1, <4>2, <4>3, <4>4, <4>5
    <3>3. ASSUME NEW i \in DOMAIN hilos, FinalizarHilo(i)
          PROVE  /\ entradas' \in Seq(UnaEntrada) /\ tablasParaCompactaciones' \in Seq(Nat)
                 /\ IsInjective(tablasParaCompactaciones') /\ Listadas' \subseteq DOMAIN entradas'
                 /\ \A e \in DOMAIN entradas' : entradas'[e].liberada <=> e \notin Listadas'
      <4> DEFINE e == EncontrarTabla(hilos[i].tabla)
      <4> HIDE DEF e
      <4>1. /\ entradas' \in Seq(UnaEntrada) /\ DOMAIN entradas' = DOMAIN entradas
            /\ \A x \in DOMAIN entradas :
                 entradas'[x].liberada = IF x = e THEN TRUE ELSE entradas[x].liberada
            /\ tablasParaCompactaciones' \in Seq(Nat) /\ IsInjective(tablasParaCompactaciones')
            /\ Listadas' = Listadas \ {e}
        BY <3>3, FinalizarDa DEF e
      <4>2. /\ Listadas \subseteq DOMAIN entradas
            /\ \A x \in DOMAIN entradas : entradas[x].liberada <=> x \notin Listadas
        BY DEF TiposDeListas
      <4> QED BY <4>1, <4>2
    <3> QED BY <1>2, <3>1, <3>2, <3>3, PasosDeListas
  <2>2. /\ DOMAIN entradas \subseteq DOMAIN entradas'
        /\ \A e \in DOMAIN entradas : entradas'[e].tabla = entradas[e].tabla
    BY <1>2, EntradasQuedan
  <2>3. /\ hilos' \in Seq(UnHilo)
        /\ \A i \in DOMAIN hilos' : hilos'[i].entrada # NULL => hilos'[i].entrada \in DOMAIN entradas'
    <3>1. /\ hilos \in Seq(UnHilo)
          /\ \A i \in DOMAIN hilos : hilos[i].entrada # NULL => hilos[i].entrada \in DOMAIN entradas
      BY DEF TiposDeListas
    <3>2. CASE UNCHANGED hilos
      BY <2>2, <3>1, <3>2
    <3>3. ASSUME NEW c \in Clientes, CrearHilo(c), hilos' = Append(hilos, Hilo(cliente[c].tabla))
          PROVE  /\ hilos' \in Seq(UnHilo)
                 /\ \A i \in DOMAIN hilos' :
                      hilos'[i].entrada # NULL => hilos'[i].entrada \in DOMAIN entradas'
      <4> DEFINE h == Hilo(cliente[c].tabla)
      <4>1. h \in UnHilo /\ h.entrada = NULL
        BY <3>3, LugarDe DEF CrearHilo, Hilo, UnHilo, NULL
      <4> HIDE DEF h
      <4>2. hilos' = Append(hilos, h)
        BY <3>3 DEF h
      <4>3. \A i \in DOMAIN hilos' : hilos'[i] = h \/ (i \in DOMAIN hilos /\ hilos'[i] = hilos[i])
        BY <3>1, <4>1, <4>2
      <4> QED BY <2>2, <3>1, <4>1, <4>2, <4>3
    <3>4. ASSUME NEW i \in DOMAIN hilos, NEW h \in UnHilo, hilos' = [hilos EXCEPT ![i] = h],
                 h.entrada \in DOMAIN entradas \cup {NULL}
          PROVE  /\ hilos' \in Seq(UnHilo)
                 /\ \A j \in DOMAIN hilos' :
                      hilos'[j].entrada # NULL => hilos'[j].entrada \in DOMAIN entradas'
      <4>1. hilos' \in Seq(UnHilo) /\ DOMAIN hilos' = DOMAIN hilos
        BY <3>1, <3>4
      <4>2. \A j \in DOMAIN hilos : hilos'[j] = IF j = i THEN h ELSE hilos[j]
        BY <3>1, <3>4
      <4> QED BY <2>2, <3>1, <3>4, <4>1, <4>2
    <3> QED BY <1>2, <3>2, <3>3, <3>4, PasosDeHilos
  <2>4. \A c \in Clientes : cliente'[c].entrada # NULL =>
          /\ cliente'[c].entrada \in DOMAIN entradas'
          /\ entradas'[cliente'[c].entrada].tabla = cliente'[c].tabla
    <3> DEFINE Bien(r) == r.entrada # NULL => /\ r.entrada \in DOMAIN entradas
                                              /\ entradas[r.entrada].tabla = r.tabla
    <3>1. \A c \in Clientes : Bien(cliente[c])
      BY DEF TiposDeListas
    <3>2. \A c \in Clientes : Bien(cliente'[c])
      <4>1. CASE UNCHANGED cliente
        BY <3>1, <4>1
      <4>2. ASSUME NEW c \in Clientes, NEW r, Bien(r), cliente' = [cliente EXCEPT ![c] = r]
            PROVE  \A d \in Clientes : Bien(cliente'[d])
        <5>1. \A d \in Clientes : cliente'[d] = IF d = c THEN r ELSE cliente[d]
          BY <4>2 DEF TiposDeClientes
        <5> QED BY <3>1, <4>2, <5>1
      <4>3. ASSUME NEW c \in Clientes, Atender(c), ~UNCHANGED cliente
            PROVE  \E r : Bien(r) /\ cliente' = [cliente EXCEPT ![c] = r]
        BY <3>1, <4>3, EntradaDelCliente
      <4>4. ASSUME NEW c \in Clientes, NEW op, NEW t, Pedir(c, op, t)
            PROVE  \E r : Bien(r) /\ cliente' = [cliente EXCEPT ![c] = r]
        BY <4>4 DEF Pedir, Libre
      <4>5. ASSUME NEW i \in DOMAIN hilos, Compactacion(i) PROVE UNCHANGED cliente
        BY <4>5, CompactarEs DEF Compactacion, LeerMetadata, BuscarEntradaDeHilo, Despertar, FinalizarHilo,
                    SoloHilo, Revienta
      <4>6. Dumpear => UNCHANGED cliente
        BY DEF Dumpear, ComenzarDump, MirarTabla, BloquearTmp, CrearTmp, EscribirTmp, TerminarDump, SoloDump,
               Revienta
      <4> HIDE DEF Bien
      <4> QED BY <1>2, <4>1, <4>2, <4>3, <4>4, <4>5, <4>6, UsarLiberadaEs DEF Next, vars
    <3> QED BY <2>2, <3>2
  <2> QED BY <2>1, <2>3, <2>4 DEF TiposDeListas
<1>3. CASE Reiniciar
  <2> DEFINE S == {t \in Tablas : dir'[t] # 0}
             ts == SetToSeq(S)
  <2>1. ts \in Seq(S)
    <3>1. IsFiniteSet(S)
      BY <1>3 DEF Reiniciar, disco, TiposDelDisco
    <3> HIDE DEF S
    <3> QED BY <3>1, SetToSeqDa
  <2>2. /\ entradas' = [i \in DOMAIN ts |-> Entrada(ts[i])]
        /\ tablasParaCompactaciones' = [i \in DOMAIN ts |-> i]
        /\ hilos' = [i \in DOMAIN ts |-> Hilo(ts[i])]
        /\ cliente' = [c \in Clientes |-> Libre]
    BY <1>3 DEF Reiniciar, Levantado
  <2>3. S \subseteq Tablas
    OBVIOUS
  <2> HIDE DEF ts, S
  <2>4. DOMAIN ts = 1..Len(ts) /\ Len(ts) \in Nat /\ \A i \in DOMAIN ts : ts[i] \in Tablas
    BY <2>1, <2>3
  <2>5. \A t \in Tablas : Entrada(t) \in UnaEntrada /\ Hilo(t) \in UnHilo
    BY DEF Entrada, Hilo, UnaEntrada, UnHilo, NULL
  <2>6. entradas' \in Seq(UnaEntrada) /\ DOMAIN entradas' = DOMAIN ts
    BY <2>2, <2>4, <2>5
  <2>7. hilos' \in Seq(UnHilo) /\ \A i \in DOMAIN hilos' : hilos'[i].entrada = NULL
    <3>1. hilos' \in Seq(UnHilo)
      BY <2>2, <2>4, <2>5
    <3>2. \A i \in DOMAIN hilos' : hilos'[i] = Hilo(ts[i])
      BY <2>2
    <3> QED BY <3>1, <3>2 DEF Hilo
  <2>8. /\ tablasParaCompactaciones' \in Seq(Nat) /\ IsInjective(tablasParaCompactaciones')
        /\ Listadas' = DOMAIN ts
    BY <2>2, <2>4 DEF IsInjective, Listadas, ToSet
  <2>9. \A e \in DOMAIN ts : ~entradas'[e].liberada
    BY <2>2 DEF Entrada
  <2>10. \A c \in Clientes : cliente'[c].entrada = NULL
    BY <2>2 DEF Libre
  <2> QED BY <2>6, <2>7, <2>8, <2>9, <2>10 DEF TiposDeListas
<1> QED BY <1>1, <1>2, <1>3

Tipos == TiposDeClientes /\ TiposDelDisco /\ TiposDelDump /\ TiposDeListas

LEMMA InitTipos == Init => Tipos
BY InitClientes, InitDisco, InitDump, InitListas DEF Tipos

LEMMA NextTipos == Tipos /\ [Next]_vars => Tipos'
BY NextClientes, NextDisco, NextDump, NextListas DEF Tipos

LEMMA SpecTipos == Spec => []Tipos
BY InitTipos, NextTipos, PTL DEF Spec

LEMMA TiposDanTypeOK == Tipos => TypeOK
<1> SUFFICES ASSUME Tipos PROVE TypeOK
  OBVIOUS
<1>1. \A i \in DOMAIN hilos : hilos[i].entrada \in DOMAIN entradas \cup {NULL}
  BY HiloDe DEF Tipos
<1>2. /\ dir \in [Tablas -> 0..creados] /\ metadata \in [Tablas -> {"no", "vacia", "completa"}]
      /\ bitmap \subseteq Bloques
      /\ \A t \in Tablas : \A n \in DOMAIN archivos[t] :
           n \in Nombres /\ archivos[t][n].bloques \subseteq Bloques
  BY DEF Tipos, TiposDelDisco
<1>3. /\ memtable \subseteq Tablas
      /\ Listadas \subseteq DOMAIN entradas /\ IsInjective(tablasParaCompactaciones)
      /\ \A e \in DOMAIN entradas : entradas[e].liberada <=> e \notin Listadas
  BY DEF Tipos, TiposDelDump, TiposDeListas
<1> QED BY <1>1, <1>2, <1>3 DEF TypeOK

\* Every table, file, block and entry that the program holds is one that exists:
\* the list of entries has no repeated one nor one that was freed, and what a
\* thread or a client has of it was an entry once.
THEOREM TiposDeTablas == Spec => []TypeOK
BY SpecTipos, TiposDanTypeOK, PTL
------------------------------------------------------------------------------
(* Entries.                                                                *)

\* The order of the steps of a request, and what a client keeps along it: what
\* it serves, its table and, once a DROP has looked for it, the entry.
Sigue(q, r) ==
  \/ /\ r = Libre
     /\ q.pc \in {"INSERT", "memtable", "CREATE", "mkdir", "abrirMetadata", "crearHilo",
                  "desbloquear"}
  \/ /\ r.tabla = q.tabla /\ r.op = q.op /\ (q.pc # "DROP" => r.entrada = q.entrada)
     /\ \/ q.pc = "INSERT" /\ r.pc = "memtable"
        \/ q.pc = "CREATE" /\ r.pc = "mkdir"
        \/ q.pc = "mkdir" /\ r.pc = "abrirMetadata"
        \/ q.pc = "abrirMetadata" /\ r.pc = "guardarMetadata"
        \/ q.pc = "guardarMetadata" /\ r.pc = "abrirParticion"
        \/ q.pc = "abrirParticion" /\ r.pc = "pedirBloque"
        \/ q.pc = "pedirBloque" /\ r.pc \in {"escribirParticion", "abrirParticion",
                                             "agregarEntrada"}
        \/ q.pc = "escribirParticion" /\ r.pc \in {"abrirParticion", "agregarEntrada"}
        \/ q.pc = "agregarEntrada" /\ r.pc = "crearHilo"
        \/ q.pc = "DROP" /\ r.pc \in {"bloquear", "opendir"}
        \/ q.pc = "bloquear" /\ r.pc = "opendir"
        \/ q.pc = "opendir" /\ r.pc \in {"borrarMetadata", "desbloquear"}
        \/ q.pc = "borrarMetadata" /\ r.pc = "readdir"
        \/ q.pc = "readdir" /\ r.pc \in {"remove", "condenar"}
        \/ q.pc = "remove" /\ r.pc = "readdir"
        \/ q.pc = "condenar" /\ r.pc = "buscarEnMemtable"
        \/ q.pc = "buscarEnMemtable" /\ r.pc = "desbloquear"

LEMMA AtenderSigue ==
  ASSUME TiposDeClientes, NEW c \in Clientes, Atender(c)
  PROVE  \/ UNCHANGED cliente
         \/ \E r : cliente' = [cliente EXCEPT ![c] = r] /\ Sigue(cliente[c], r)
<1> DEFINE q == cliente[c]
           Bien == \/ UNCHANGED cliente
                   \/ \E r : cliente' = [cliente EXCEPT ![c] = r] /\ Sigue(q, r)
<1>1. q \in Pedido
  BY LugarDe
<1> USE DEF SoloCliente, EnDisco, Pasa, Revienta
<1>2. BuscarTablaDeInsert(c) => Bien
  <2> DEFINE r == [q EXCEPT !.pc = "memtable"]
  <2>1. q.pc = "INSERT" => Sigue(q, r)
    BY <1>1 DEF Pedido, Sigue
  <2>2. BuscarTablaDeInsert(c) => /\ q.pc = "INSERT"
                                  /\ \/ UNCHANGED cliente
                                     \/ cliente' = [cliente EXCEPT ![c] = r]
                                     \/ cliente' = [cliente EXCEPT ![c] = Libre] /\ Sigue(q, Libre)
    BY DEF BuscarTablaDeInsert, Sigue
  <2> HIDE DEF r
  <2> QED BY <2>1, <2>2
<1>3. Insertar(c) => Bien
  BY DEF Insertar, Sigue
<1>4. BuscarDirectorio(c) => Bien
  <2> DEFINE r == [q EXCEPT !.pc = "mkdir"]
  <2>1. q.pc = "CREATE" => Sigue(q, r)
    BY <1>1 DEF Pedido, Sigue
  <2>2. BuscarDirectorio(c) => /\ q.pc = "CREATE"
                               /\ \/ UNCHANGED cliente
                                  \/ cliente' = [cliente EXCEPT ![c] = r]
                                  \/ cliente' = [cliente EXCEPT ![c] = Libre] /\ Sigue(q, Libre)
    BY DEF BuscarDirectorio, Sigue
  <2> HIDE DEF r
  <2> QED BY <2>1, <2>2
<1>5. CrearDirectorio(c) => Bien
  <2> DEFINE r == [q EXCEPT !.pc = "abrirMetadata"]
  <2>1. q.pc = "mkdir" => Sigue(q, r)
    BY <1>1 DEF Pedido, Sigue
  <2>2. CrearDirectorio(c) => /\ q.pc = "mkdir"
                              /\ \/ UNCHANGED cliente
                                 \/ cliente' = [cliente EXCEPT ![c] = r]
                                 \/ cliente' = [cliente EXCEPT ![c] = Libre] /\ Sigue(q, Libre)
    BY DEF CrearDirectorio, Sigue
  <2> HIDE DEF r
  <2> QED BY <2>1, <2>2
<1>6. AbrirMetadata(c) => Bien
  <2> DEFINE r == [q EXCEPT !.pc = "guardarMetadata"]
  <2>1. q.pc = "abrirMetadata" => Sigue(q, r)
    BY <1>1 DEF Pedido, Sigue
  <2>2. AbrirMetadata(c) => /\ q.pc = "abrirMetadata"
                            /\ \/ UNCHANGED cliente
                               \/ cliente' = [cliente EXCEPT ![c] = r]
                               \/ cliente' = [cliente EXCEPT ![c] = Libre] /\ Sigue(q, Libre)
    BY DEF AbrirMetadata, Sigue
  <2> HIDE DEF r
  <2> QED BY <2>1, <2>2
<1>7. GuardarMetadata(c) => Bien
  <2> DEFINE r == [q EXCEPT !.pc = "abrirParticion", !.nombre = 1]
  <2>1. q.pc = "guardarMetadata" => Sigue(q, r)
    BY <1>1 DEF Pedido, Sigue
  <2>2. GuardarMetadata(c) => /\ q.pc = "guardarMetadata"
                              /\ \/ UNCHANGED cliente
                                 \/ cliente' = [cliente EXCEPT ![c] = r]
    BY DEF GuardarMetadata
  <2> HIDE DEF r
  <2> QED BY <2>1, <2>2
<1>8. AbrirParticion(c) => Bien
  <2> DEFINE r == [q EXCEPT !.pc = "pedirBloque"]
  <2>1. q.pc = "abrirParticion" => Sigue(q, r)
    BY <1>1 DEF Pedido, Sigue
  <2>2. AbrirParticion(c) => /\ q.pc = "abrirParticion"
                             /\ \/ UNCHANGED cliente
                                \/ cliente' = [cliente EXCEPT ![c] = r]
    BY DEF AbrirParticion
  <2> HIDE DEF r
  <2> QED BY <2>1, <2>2
<1>9. PedirBloque(c) => Bien
  <2> DEFINE r == [q EXCEPT !.pc = "escribirParticion", !.bloque = BloqueDisponible]
             s == OtraParticion(q)
  <2>1. q.pc = "pedirBloque" => Sigue(q, r) /\ Sigue(q, s)
    BY <1>1 DEF Pedido, Sigue, OtraParticion
  <2>2. PedirBloque(c) => /\ q.pc = "pedirBloque"
                          /\ \/ UNCHANGED cliente
                             \/ cliente' = [cliente EXCEPT ![c] = r]
                             \/ cliente' = [cliente EXCEPT ![c] = s]
    BY DEF PedirBloque
  <2> HIDE DEF r, s
  <2> QED BY <2>1, <2>2
<1>10. EscribirParticion(c) => Bien
  <2> DEFINE r == OtraParticion(q)
  <2>1. q.pc = "escribirParticion" => Sigue(q, r)
    BY <1>1 DEF Pedido, Sigue, OtraParticion
  <2>2. EscribirParticion(c) => /\ q.pc = "escribirParticion"
                                /\ \/ UNCHANGED cliente
                                   \/ cliente' = [cliente EXCEPT ![c] = r]
    BY DEF EscribirParticion
  <2> HIDE DEF r
  <2> QED BY <2>1, <2>2
<1>11. AgregarEntrada(c) => Bien
  <2> DEFINE r == [q EXCEPT !.pc = "crearHilo"]
  <2>1. q.pc = "agregarEntrada" => Sigue(q, r)
    BY <1>1 DEF Pedido, Sigue
  <2>2. AgregarEntrada(c) => /\ q.pc = "agregarEntrada"
                             /\ \/ UNCHANGED cliente
                                \/ cliente' = [cliente EXCEPT ![c] = r]
    BY DEF AgregarEntrada
  <2> HIDE DEF r
  <2> QED BY <2>1, <2>2
<1>12. CrearHilo(c) => Bien
  BY DEF CrearHilo, Sigue
<1>13. BuscarEntrada(c) => Bien
  <2> DEFINE r == [q EXCEPT !.entrada = EncontrarTabla(q.tabla), !.pc = "opendir"]
             s == [q EXCEPT !.entrada = EncontrarTabla(q.tabla), !.pc = "bloquear"]
  <2>1. q.pc = "DROP" => Sigue(q, r) /\ Sigue(q, s)
    BY <1>1 DEF Pedido, Sigue
  <2>2. BuscarEntrada(c) => /\ q.pc = "DROP"
                            /\ \/ UNCHANGED cliente
                               \/ cliente' = [cliente EXCEPT ![c] = r]
                               \/ cliente' = [cliente EXCEPT ![c] = s]
    BY DEF BuscarEntrada
  <2> HIDE DEF r, s
  <2> QED BY <2>1, <2>2
<1>14. BloquearEntrada(c) => Bien
  <2> DEFINE r == [q EXCEPT !.pc = "opendir"]
  <2>1. q.pc = "bloquear" => Sigue(q, r)
    BY <1>1 DEF Pedido, Sigue
  <2>2. BloquearEntrada(c) => /\ q.pc = "bloquear"
                              /\ \/ UNCHANGED cliente
                                 \/ cliente' = [cliente EXCEPT ![c] = r]
    BY DEF BloquearEntrada
  <2> HIDE DEF r
  <2> QED BY <2>1, <2>2
<1>15. AbrirDirectorio(c) => Bien
  <2> DEFINE r == [q EXCEPT !.pc = "desbloquear"]
             s == [q EXCEPT !.pc = "borrarMetadata", !.dir = dir[q.tabla]]
  <2>1. q.pc = "opendir" => Sigue(q, r) /\ Sigue(q, s)
    BY <1>1 DEF Pedido, Sigue
  <2>2. AbrirDirectorio(c) => /\ q.pc = "opendir"
                              /\ \/ UNCHANGED cliente
                                 \/ cliente' = [cliente EXCEPT ![c] = r]
                                 \/ cliente' = [cliente EXCEPT ![c] = s]
    BY DEF AbrirDirectorio
  <2> HIDE DEF r, s
  <2> QED BY <2>1, <2>2
<1>16. BorrarMetadata(c) => Bien
  <2> DEFINE r == [q EXCEPT !.pc = "readdir", !.debe = DOMAIN archivos[q.tabla]]
  <2>1. q.pc = "borrarMetadata" => Sigue(q, r)
    BY <1>1 DEF Pedido, Sigue
  <2>2. BorrarMetadata(c) => /\ q.pc = "borrarMetadata"
                             /\ \/ UNCHANGED cliente
                                \/ cliente' = [cliente EXCEPT ![c] = r]
    BY DEF BorrarMetadata
  <2> HIDE DEF r
  <2> QED BY <2>1, <2>2
<1>17. LiberarArchivo(c) => Bien
  <2> DEFINE r(x) == [q EXCEPT !.pc = "remove", !.nombre = x]
  <2>1. \A x : q.pc = "readdir" => Sigue(q, r(x))
    BY <1>1 DEF Pedido, Sigue
  <2>2. LiberarArchivo(c) => /\ q.pc = "readdir"
                             /\ \/ UNCHANGED cliente
                                \/ \E x : cliente' = [cliente EXCEPT ![c] = r(x)]
    BY DEF LiberarArchivo
  <2> HIDE DEF r
  <2> QED BY <2>1, <2>2
<1>18. BorrarArchivo(c) => Bien
  <2> DEFINE r == [q EXCEPT !.pc = "readdir", !.debe = @ \ {q.nombre}]
  <2>1. q.pc = "remove" => Sigue(q, r)
    BY <1>1 DEF Pedido, Sigue
  <2>2. BorrarArchivo(c) => /\ q.pc = "remove"
                            /\ \/ UNCHANGED cliente
                               \/ cliente' = [cliente EXCEPT ![c] = r]
    BY DEF BorrarArchivo
  <2> HIDE DEF r
  <2> QED BY <2>1, <2>2
<1>19. BorrarDirectorio(c) => Bien
  <2> DEFINE r == [q EXCEPT !.pc = "condenar"]
  <2>1. q.pc = "readdir" => Sigue(q, r)
    BY <1>1 DEF Pedido, Sigue
  <2>2. BorrarDirectorio(c) => /\ q.pc = "readdir"
                               /\ \/ UNCHANGED cliente
                                  \/ cliente' = [cliente EXCEPT ![c] = r]
    BY DEF BorrarDirectorio
  <2> HIDE DEF r
  <2> QED BY <2>1, <2>2
<1>20. Condenar(c) => Bien
  <2> DEFINE r == [q EXCEPT !.pc = "buscarEnMemtable"]
  <2>1. q.pc = "condenar" => Sigue(q, r)
    BY <1>1 DEF Pedido, Sigue
  <2>2. Condenar(c) => /\ q.pc = "condenar"
                       /\ \/ UNCHANGED cliente
                          \/ cliente' = [cliente EXCEPT ![c] = r]
    BY DEF Condenar
  <2> HIDE DEF r
  <2> QED BY <2>1, <2>2
<1>21. BuscarEnMemtable(c) => Bien
  <2> DEFINE r == [q EXCEPT !.pc = "desbloquear"]
  <2>1. q.pc = "buscarEnMemtable" => Sigue(q, r)
    BY <1>1 DEF Pedido, Sigue
  <2>2. BuscarEnMemtable(c) => /\ q.pc = "buscarEnMemtable"
                               /\ \/ UNCHANGED cliente
                                  \/ cliente' = [cliente EXCEPT ![c] = r]
    BY DEF BuscarEnMemtable
  <2> HIDE DEF r
  <2> QED BY <2>1, <2>2
<1>22. DesbloquearEntrada(c) => Bien
  BY DEF DesbloquearEntrada, Sigue
<1> QED BY <1>2, <1>3, <1>4, <1>5, <1>6, <1>7, <1>8, <1>9, <1>10, <1>11, <1>12, <1>13, <1>14, <1>15, <1>16, <1>17, <1>18, <1>19, <1>20, <1>21, <1>22 DEF Atender, Create, Drop

\* The same for any client, whoever does the step.
LEMMA ClienteSigue ==
  ASSUME TiposDeClientes, Next, ~Reiniciar, NEW c \in Clientes
  PROVE  \/ cliente'[c] = cliente[c]
         \/ Atender(c) /\ Sigue(cliente[c], cliente'[c])
         \/ /\ cliente[c].pc = "libre"
            /\ \E t \in Tablas, op \in {"INSERT", "CREATE", "DROP"} :
                 Pedir(c, op, t) /\ cliente'[c] = [Libre EXCEPT !.pc = op, !.op = op, !.tabla = t]
<1>0. \A d \in Clientes : \A r :
        cliente' = [cliente EXCEPT ![d] = r] => cliente'[c] = IF c = d THEN r ELSE cliente[c]
  BY DEF TiposDeClientes
<1>1. ASSUME NEW d \in Clientes, Atender(d)
      PROVE  \/ cliente'[c] = cliente[c]
             \/ Atender(c) /\ Sigue(cliente[c], cliente'[c])
  BY <1>0, <1>1, AtenderSigue
<1>2. ASSUME NEW d \in Clientes, NEW t \in Tablas, NEW op \in {"INSERT", "CREATE", "DROP"},
             Pedir(d, op, t)
      PROVE  \/ cliente'[c] = cliente[c]
             \/ /\ cliente[c].pc = "libre"
                /\ \E u \in Tablas, o \in {"INSERT", "CREATE", "DROP"} :
                     Pedir(c, o, u) /\ cliente'[c] = [Libre EXCEPT !.pc = o, !.op = o, !.tabla = u]
  <2>1. /\ cliente[d].pc = "libre"
        /\ cliente' = [cliente EXCEPT ![d] = [Libre EXCEPT !.pc = op, !.op = op, !.tabla = t]]
    BY <1>2 DEF Pedir
  <2>2. CASE c # d
    BY <1>0, <2>1, <2>2
  <2>3. CASE c = d
    <3>1. cliente'[c] = [Libre EXCEPT !.pc = op, !.op = op, !.tabla = t]
      BY <1>0, <2>1, <2>3
    <3> QED BY <1>2, <2>1, <2>3, <3>1
  <2> QED BY <2>2, <2>3
<1>3. ASSUME NEW i \in DOMAIN hilos, Compactacion(i) PROVE UNCHANGED cliente
  BY <1>3, CompactarEs DEF Compactacion, LeerMetadata, BuscarEntradaDeHilo, Despertar, FinalizarHilo,
              SoloHilo, Revienta
<1>4. Dumpear => UNCHANGED cliente
  BY DEF Dumpear, ComenzarDump, MirarTabla, BloquearTmp, CrearTmp, EscribirTmp, TerminarDump, SoloDump,
         Revienta
<1> QED BY <1>1, <1>2, <1>3, <1>4, UsarLiberadaEs DEF Next, vars

LEMMA PcSigue ==
  ASSUME TiposDeClientes, Next, ~Reiniciar, NEW c \in Clientes
  PROVE  \/ cliente'[c] = cliente[c]
         \/ Atender(c) /\ Sigue(cliente[c], cliente'[c])
         \/ /\ cliente[c].pc = "libre" /\ cliente'[c].pc \in {"INSERT", "CREATE", "DROP"}
            /\ cliente'[c].entrada = NULL /\ cliente'[c].bloque = -1
<1>1. CASE \E t \in Tablas, op \in {"INSERT", "CREATE", "DROP"} :
             Pedir(c, op, t) /\ cliente'[c] = [Libre EXCEPT !.pc = op, !.op = op, !.tabla = t]
  <2>1. PICK t \in Tablas, op \in {"INSERT", "CREATE", "DROP"} :
          Pedir(c, op, t) /\ cliente'[c] = [Libre EXCEPT !.pc = op, !.op = op, !.tabla = t]
    BY <1>1
  <2>2. /\ cliente'[c].pc = op /\ cliente'[c].entrada = NULL /\ cliente'[c].bloque = -1
        /\ cliente[c].pc = "libre"
    <3> DEFINE n == [Libre EXCEPT !.pc = op, !.op = op, !.tabla = t]
    <3>1. n.pc = op /\ n.entrada = NULL /\ n.bloque = -1
      BY PedidoNuevo
    <3>2. cliente'[c] = n
      BY <2>1
    <3> HIDE DEF n
    <3> QED BY <2>1, <3>1, <3>2 DEF Pedir
  <2> QED BY <2>2
<1> QED BY <1>1, ClienteSigue

\* The step that a client is at says which action it does.
LEMMA AccionDe ==
  ASSUME NEW c \in Clientes, Atender(c)
  PROVE  /\ cliente[c].pc = "mkdir" => CrearDirectorio(c)
         /\ cliente[c].pc = "abrirMetadata" => AbrirMetadata(c)
         /\ cliente[c].pc = "guardarMetadata" => GuardarMetadata(c)
         /\ cliente[c].pc = "abrirParticion" => AbrirParticion(c)
         /\ cliente[c].pc = "pedirBloque" => PedirBloque(c)
         /\ cliente[c].pc = "escribirParticion" => EscribirParticion(c)
         /\ cliente[c].pc = "agregarEntrada" => AgregarEntrada(c)
         /\ cliente[c].pc = "crearHilo" => CrearHilo(c)
         /\ cliente[c].pc = "borrarMetadata" => BorrarMetadata(c)
         /\ cliente[c].pc = "readdir" => LiberarArchivo(c) \/ BorrarDirectorio(c)
         /\ cliente[c].pc = "remove" => BorrarArchivo(c)
         /\ cliente[c].pc = "DROP" => BuscarEntrada(c)
         /\ cliente[c].pc = "bloquear" => BloquearEntrada(c)
         /\ cliente[c].pc = "condenar" => Condenar(c)
         /\ cliente[c].pc = "desbloquear" => DesbloquearEntrada(c)
BY DEF Atender, BuscarTablaDeInsert, Insertar, Create, Drop, BuscarDirectorio, CrearDirectorio,
   AbrirMetadata, GuardarMetadata, AbrirParticion, PedirBloque, EscribirParticion,
   AgregarEntrada, CrearHilo, BuscarEntrada, BloquearEntrada, AbrirDirectorio, BorrarMetadata,
   LiberarArchivo, BorrarArchivo, BorrarDirectorio, Condenar, BuscarEnMemtable,
   DesbloquearEntrada

\* Only a DROP condemns, and its own entry.
LEMMA SoloCondenar ==
  ASSUME TiposDeClientes, TiposDeListas, Next, ~Reiniciar, NEW e \in DOMAIN entradas,
         ~entradas[e].finalizar
  PROVE  ~entradas'[e].finalizar \/ \E c \in Clientes : Condenar(c) /\ cliente[c].entrada = e
<1>1. \A x \in DOMAIN entradas : entradas[x] \in UnaEntrada
  BY DEF TiposDeListas
<1>2. UNCHANGED listas => ~entradas'[e].finalizar
  BY DEF listas
<1>3. ASSUME NEW x, NEW f \in BOOLEAN, entradas' = [entradas EXCEPT ![x].duenio = f]
      PROVE  ~entradas'[e].finalizar
  <2>1. entradas'[e] = IF e = x THEN [entradas[e] EXCEPT !.duenio = f] ELSE entradas[e]
    BY <1>3
  <2> QED BY <1>1, <2>1 DEF UnaEntrada
<1>4. ASSUME NEW c \in Clientes, BloquearEntrada(c) \/ DesbloquearEntrada(c)
      PROVE  ~entradas'[e].finalizar
  <2>1. UNCHANGED listas \/ UNCHANGED entradas
        \/ \E x : \/ entradas' = [entradas EXCEPT ![x].duenio = TRUE]
                  \/ entradas' = [entradas EXCEPT ![x].duenio = FALSE]
    BY <1>4 DEF BloquearEntrada, DesbloquearEntrada, Revienta
  <2> QED BY <1>2, <1>3, <2>1
<1>5. ASSUME NEW c \in Clientes, Condenar(c)
      PROVE  ~entradas'[e].finalizar \/ cliente[c].entrada = e
  BY <1>5, <1>1, <1>2 DEF Condenar, Revienta, UnaEntrada
<1>6. ASSUME NEW c \in Clientes, AgregarEntrada(c) PROVE ~entradas'[e].finalizar
  BY <1>6, AgregarDa
<1>7. ASSUME NEW c \in Clientes, Atender(c), ~AgregarEntrada(c),
             ~(BloquearEntrada(c) \/ Condenar(c) \/ DesbloquearEntrada(c))
      PROVE  UNCHANGED listas
  BY <1>7 DEF Atender, BuscarTablaDeInsert, Insertar, Create, Drop, BuscarDirectorio,
     CrearDirectorio, AbrirMetadata, GuardarMetadata, AbrirParticion, PedirBloque,
     EscribirParticion, CrearHilo, BuscarEntrada, AbrirDirectorio, BorrarMetadata,
     LiberarArchivo, BorrarArchivo, BorrarDirectorio, BuscarEnMemtable, SoloCliente, EnDisco,
     Pasa, Revienta
<1>8. ASSUME NEW i \in DOMAIN hilos, Compactacion(i) PROVE ~entradas'[e].finalizar
  <2>1. FinalizarHilo(i) => ~entradas'[e].finalizar
    BY FinalizarDa
  <2>2. LeerMetadata(i) \/ BuscarEntradaDeHilo(i) => UNCHANGED listas
    BY DEF LeerMetadata, BuscarEntradaDeHilo, Revienta
  <2>3. Despertar(i) \/ Compactar(i) =>
          \/ UNCHANGED listas
          \/ \E x : \/ entradas' = [entradas EXCEPT ![x].duenio = TRUE]
                    \/ entradas' = [entradas EXCEPT ![x].duenio = FALSE]
    BY CompactarEs, CompactarDa DEF Despertar, Revienta, listas
  <2> QED BY <1>2, <1>3, <1>8, <2>1, <2>2, <2>3 DEF Compactacion
<1>9. Dumpear => UNCHANGED listas
  BY DEF Dumpear, ComenzarDump, MirarTabla, BloquearTmp, CrearTmp, EscribirTmp, TerminarDump, SoloDump,
         Revienta
<1>10. ASSUME NEW c, NEW op, NEW t, Pedir(c, op, t) PROVE UNCHANGED listas
  BY <1>10 DEF Pedir
<1> QED BY <1>2, <1>4, <1>5, <1>6, <1>7, <1>8, <1>9, <1>10, UsarLiberadaEs DEF Next, vars
\* Metadata.bin is complete from the write that CREATE ends it with.
LEMMA SoloGuardar ==
  ASSUME TiposDeClientes, TiposDelDisco, TiposDelDump, TiposDeListas, Next, ~Reiniciar,
         NEW t \in Tablas, metadata'[t] = "completa", metadata[t] # "completa"
  PROVE  \E c \in Clientes : /\ cliente[c].tabla = t
                             /\ cliente' = [cliente EXCEPT ![c] =
                                  [cliente[c] EXCEPT !.pc = "abrirParticion", !.nombre = 1]]
<1>1. UNCHANGED metadata => FALSE
  OBVIOUS
<1>2. ASSUME NEW c \in Clientes, NEW x \in {"no", "vacia"},
             metadata' = [metadata EXCEPT ![cliente[c].tabla] = x]
      PROVE  FALSE
  <2>1. metadata'[t] = IF t = cliente[c].tabla THEN x ELSE metadata[t]
    BY <1>2 DEF TiposDelDisco
  <2> QED BY <2>1
<1>3. ASSUME NEW c \in Clientes, GuardarMetadata(c)
      PROVE  /\ cliente[c].tabla = t
             /\ cliente' = [cliente EXCEPT ![c] =
                  [cliente[c] EXCEPT !.pc = "abrirParticion", !.nombre = 1]]
  BY <1>3 DEF GuardarMetadata, Revienta, disco, EnDisco, Pasa, TiposDelDisco
<1>4. ASSUME NEW c \in Clientes, AbrirMetadata(c) PROVE FALSE
  BY <1>1, <1>2, <1>4 DEF AbrirMetadata, SoloCliente, disco
<1>5. ASSUME NEW c \in Clientes, BorrarMetadata(c) PROVE FALSE
  BY <1>1, <1>2, <1>5 DEF BorrarMetadata
<1>6. ASSUME NEW c \in Clientes, Atender(c), ~GuardarMetadata(c), ~AbrirMetadata(c),
             ~BorrarMetadata(c)
      PROVE  UNCHANGED metadata
  BY <1>6 DEF Atender, BuscarTablaDeInsert, Insertar, Create, Drop, BuscarDirectorio,
     CrearDirectorio, AbrirParticion, PedirBloque, EscribirParticion, AgregarEntrada, CrearHilo,
     BuscarEntrada, BloquearEntrada, AbrirDirectorio, LiberarArchivo, BorrarArchivo,
     BorrarDirectorio, Condenar, BuscarEnMemtable, DesbloquearEntrada, SoloCliente, EnDisco,
     Pasa, Revienta, disco
<1>7. ASSUME NEW i \in DOMAIN hilos, Compactacion(i) PROVE UNCHANGED metadata
  BY <1>7, CompactarEs DEF Compactacion, LeerMetadata, BuscarEntradaDeHilo, Despertar, FinalizarHilo,
              SoloHilo, Revienta, disco
<1>8. Dumpear => UNCHANGED metadata
  BY DEF Dumpear, ComenzarDump, MirarTabla, BloquearTmp, CrearTmp, EscribirTmp, TerminarDump, SoloDump,
         Revienta, disco
<1>9. ASSUME NEW c, NEW op, NEW u, Pedir(c, op, u) PROVE UNCHANGED metadata
  BY <1>9 DEF Pedir, disco
<1>10. UNCHANGED vars => UNCHANGED metadata
  BY DEF vars, disco
<1> QED BY <1>1, <1>3, <1>4, <1>5, <1>6, <1>7, <1>8, <1>9, <1>10, UsarLiberadaEs DEF Next

\* After a start, every table has an entry that nobody has condemned.
LEMMA ReiniciarDa ==
  ASSUME TiposDelDisco, Reiniciar
  PROVE  /\ \A c \in Clientes : cliente'[c] = Libre
         /\ Listadas' = DOMAIN entradas' /\ DOMAIN hilos' = DOMAIN entradas'
         /\ IsFiniteSet(DOMAIN entradas')
         /\ \A e \in DOMAIN entradas' : /\ ~entradas'[e].finalizar
                                        /\ hilos'[e].tabla = entradas'[e].tabla
         /\ \A t \in Tablas : dir[t] # 0 => \E e \in Listadas' : entradas'[e].tabla = t
<1> DEFINE S == {t \in Tablas : dir'[t] # 0}
           ts == SetToSeq(S)
<1>1. ts \in Seq(S) /\ Range(ts) = S
  <2>1. IsFiniteSet(S)
    BY DEF Reiniciar, disco, TiposDelDisco
  <2> HIDE DEF S
  <2> QED BY <2>1, SetToSeqDa
<1>2. /\ entradas' = [i \in DOMAIN ts |-> Entrada(ts[i])]
      /\ tablasParaCompactaciones' = [i \in DOMAIN ts |-> i]
      /\ hilos' = [i \in DOMAIN ts |-> Hilo(ts[i])]
      /\ cliente' = [c \in Clientes |-> Libre]
      /\ UNCHANGED dir
  BY DEF Reiniciar, Levantado, disco
<1>3. \A t \in Tablas : dir[t] # 0 => t \in S
  BY <1>2
<1> HIDE DEF ts, S
<1>4. Listadas' = DOMAIN ts
  BY <1>2 DEF Listadas, ToSet
<1>5. IsFiniteSet(DOMAIN ts)
  BY <1>1, FS_Interval
<1>6. \A t \in Tablas : dir[t] # 0 => \E e \in DOMAIN ts : ts[e] = t
  BY <1>1, <1>3 DEF Range
<1>7. \A e \in DOMAIN ts : entradas'[e] = Entrada(ts[e]) /\ hilos'[e] = Hilo(ts[e])
  BY <1>2
<1> QED BY <1>2, <1>4, <1>5, <1>6, <1>7 DEF Entrada, Hilo

LEMMA InitVigente == Init => VigenteInv
BY DEF Init, VigenteInv

\* VigenteInv is kept: the CREATE that completes the Metadata.bin goes on until it
\* adds the entry; an entry is removed only after a DROP has condemned it, and the
\* DROP that will condemn an entry has taken the Metadata.bin away.
LEMMA NextVigente ==
  ASSUME TiposDeClientes, TiposDelDisco, TiposDelDump, TiposDeListas, VigenteInv, Next,
         ~Reiniciar
  PROVE  VigenteInv'
<1> SUFFICES ASSUME NEW t \in Tablas, metadata'[t] = "completa"
             PROVE  \/ \E c \in Clientes : Completandola(c, t)'
                    \/ \E e \in Listadas' : /\ entradas'[e].tabla = t /\ ~entradas'[e].finalizar
                                            /\ ~PorCondenar(e)'
  BY DEF VigenteInv
<1>1. CASE metadata[t] # "completa"
  <2>1. PICK c \in Clientes : /\ cliente[c].tabla = t
                              /\ cliente' = [cliente EXCEPT ![c] =
                                  [cliente[c] EXCEPT !.pc = "abrirParticion", !.nombre = 1]]
    BY <1>1, SoloGuardar
  <2>2. cliente[c] \in Pedido
    BY LugarDe
  <2>3. cliente'[c].tabla = t /\ cliente'[c].pc = "abrirParticion"
    BY <2>1, <2>2 DEF TiposDeClientes, Pedido
  <2> QED BY <2>3 DEF Completandola
<1>2. ASSUME NEW c \in Clientes, Completandola(c, t)
      PROVE  \/ Completandola(c, t)'
             \/ AgregarEntrada(c) /\ cliente'[c].entrada = cliente[c].entrada
  <2>1. CASE cliente'[c] = cliente[c]
    BY <1>2, <2>1 DEF Completandola
  <2>2. CASE Atender(c) /\ Sigue(cliente[c], cliente'[c])
    <3>1. CASE cliente[c].pc = "agregarEntrada"
      BY <2>2, <3>1, AccionDe DEF Sigue
    <3>2. CASE cliente[c].pc # "agregarEntrada"
      BY <1>2, <2>2, <3>2 DEF Completandola, Sigue
    <3> QED BY <3>1, <3>2
  <2> QED BY <1>2, <2>1, <2>2, ClienteSigue DEF Completandola
<1>3. ASSUME NEW c \in Clientes, Completandola(c, t), AgregarEntrada(c)
      PROVE  \E e \in Listadas' : /\ entradas'[e].tabla = t /\ ~entradas'[e].finalizar
                                  /\ ~PorCondenar(e)'
  <2>1. PICK n : /\ n \notin DOMAIN entradas /\ n \in Nat \ {0} /\ n \in Listadas'
                 /\ entradas'[n] = Entrada(cliente[c].tabla)
    BY <1>3, AgregarDa
  <2>2. entradas'[n].tabla = t /\ ~entradas'[n].finalizar
    BY <1>3, <2>1 DEF Completandola, Entrada
  <2>3. \A d \in Clientes : cliente'[d].entrada = cliente[d].entrada
    <3>1. cliente' = [cliente EXCEPT ![c] = [cliente[c] EXCEPT !.pc = "crearHilo"]]
      BY <1>3 DEF AgregarEntrada, Pasa
    <3>2. cliente[c] \in Pedido
      BY LugarDe
    <3> QED BY <3>1, <3>2 DEF TiposDeClientes, Pedido
  <2>4. \A d \in Clientes : cliente[d].entrada \in DOMAIN entradas \cup {NULL}
    BY DEF TiposDeListas
  <2>5. ~PorCondenar(n)'
    BY <2>1, <2>3, <2>4 DEF PorCondenar, NULL
  <2> QED BY <2>1, <2>2, <2>5
<1>4. ASSUME NEW e \in Listadas, entradas[e].tabla = t, ~entradas[e].finalizar, ~PorCondenar(e)
      PROVE  e \in Listadas' /\ entradas'[e].tabla = t /\ ~entradas'[e].finalizar
             /\ ~PorCondenar(e)'
  <2>1. e \in DOMAIN entradas /\ e # NULL
    BY EntradasSonNat DEF NULL
  <2>2. entradas'[e].tabla = t
    BY <1>4, <2>1, EntradasQuedan
  <2>3. ~entradas'[e].finalizar
    BY <1>4, <2>1, SoloCondenar DEF Condenar, PorCondenar
  <2>4. e \in Listadas'
    <3>1. Marca => Listadas' = Listadas
      BY DEF Marca, Listadas
    <3> QED BY <1>4, <3>1, PasosDeListas, AgregarDa, FinalizarDa
  <2>5. ASSUME NEW d \in Clientes, cliente'[d].entrada = e,
               cliente'[d].pc \in {"readdir", "remove", "condenar"}
        PROVE  FALSE
    <3>1. cliente'[d] # cliente[d]
      BY <1>4, <2>5 DEF PorCondenar
    <3>2. Libre.pc = "libre"
      BY DEF Libre
    <3>3. Atender(d) /\ Sigue(cliente[d], cliente'[d])
      BY <2>1, <2>5, <3>1, ClienteSigue DEF Libre, NULL
    <3>4. CASE cliente[d].pc # "borrarMetadata"
      BY <1>4, <2>5, <3>2, <3>3, <3>4 DEF Sigue, PorCondenar
    <3>5. CASE cliente[d].pc = "borrarMetadata"
      <4>1. BorrarMetadata(d)
        BY <3>3, <3>5, AccionDe
      <4>2. cliente[d].entrada = e
        BY <2>5, <3>2, <3>3, <3>5 DEF Sigue
      <4>3. cliente[d].tabla = t
        BY <1>4, <2>1, <4>2 DEF TiposDeListas
      <4>4. metadata'[t] = "no"
        BY <4>1, <4>3 DEF BorrarMetadata, TiposDelDisco
      <4> QED BY <4>4
    <3> QED BY <3>4, <3>5
  <2> QED BY <2>2, <2>3, <2>4, <2>5 DEF PorCondenar
<1>5. CASE metadata[t] = "completa"
  <2>1. \/ \E c \in Clientes : Completandola(c, t)
        \/ \E e \in Listadas : entradas[e].tabla = t /\ ~entradas[e].finalizar /\ ~PorCondenar(e)
    BY <1>5 DEF VigenteInv
  <2> QED BY <1>2, <1>3, <1>4, <2>1
<1> QED BY <1>1, <1>5

LEMMA ReiniciarVigente ==
  ASSUME TiposDelDisco, Reiniciar
  PROVE  VigenteInv'
<1> SUFFICES ASSUME NEW t \in Tablas, metadata'[t] = "completa"
             PROVE  \E e \in Listadas' : /\ entradas'[e].tabla = t /\ ~entradas'[e].finalizar
                                         /\ ~PorCondenar(e)'
  BY DEF VigenteInv
<1>1. dir[t] # 0
  BY DEF Reiniciar, disco, TiposDelDisco
<1>2. PICK e \in Listadas' : entradas'[e].tabla = t
  BY <1>1, ReiniciarDa
<1>3. ~entradas'[e].finalizar
  BY <1>2, ReiniciarDa
<1>4. ~PorCondenar(e)'
  <2>1. \A c \in Clientes : cliente'[c].pc = "libre"
    BY ReiniciarDa, LibreEsPedido
  <2> QED BY <2>1 DEF PorCondenar
<1> QED BY <1>2, <1>3, <1>4

LEMMA SpecVigente == Spec => []VigenteInv
<1>1. Tipos /\ VigenteInv /\ [Next]_vars => VigenteInv'
  <2>1. VigenteInv /\ UNCHANGED vars => VigenteInv'
    BY DEF vars, disco, listas, VigenteInv, Completandola, PorCondenar, Listadas
  <2> QED BY <2>1, NextVigente, ReiniciarVigente DEF Tipos
<1> QED BY <1>1, InitVigente, SpecTipos, PTL DEF Spec

\* A table that is there has an entry in the list that no DROP has condemned, once
\* nobody is creating or dropping it: procesarDrop takes the Metadata.bin away
\* before it marks the entry, and the mark and the removal by finalizarHilo reach
\* only entries of tables that were dropped, at any number of requests and starts.
THEOREM LaTablaTieneEntrada == Spec => []EntradaVigente
<1>1. Tipos /\ VigenteInv => EntradaVigente
  <2> SUFFICES ASSUME Tipos, VigenteInv, NEW t \in Tablas, metadata[t] = "completa",
                      ~(\E c \in Clientes : Ocupado(c, t))
               PROVE  \E e \in Listadas : entradas[e].tabla = t /\ ~entradas[e].finalizar
    BY DEF EntradaVigente
  <2>1. ASSUME NEW c \in Clientes, Completandola(c, t) PROVE FALSE
    BY <2>1, LugarDe DEF Tipos, Completandola, Ocupado, PasosDeCreate
  <2> QED BY <2>1 DEF VigenteInv
<1> QED BY <1>1, SpecTipos, SpecVigente, PTL
------------------------------------------------------------------------------
(* Threads.                                                                *)

LEMMA ListasFinitas ==
  ASSUME TiposDeListas, NEW t
  PROVE  /\ IsFiniteSet(HilosDe(t)) /\ Cardinality(HilosDe(t)) \in Nat
         /\ IsFiniteSet(EntradasDe(t)) /\ Cardinality(EntradasDe(t)) \in Nat
<1>1. DOMAIN hilos = 1..Len(hilos) /\ DOMAIN entradas = 1..Len(entradas)
      /\ Len(hilos) \in Nat /\ Len(entradas) \in Nat
  BY DEF TiposDeListas
<1>2. IsFiniteSet(1..Len(hilos)) /\ IsFiniteSet(1..Len(entradas))
  BY <1>1, FS_Interval
<1>3. HilosDe(t) \subseteq 1..Len(hilos) /\ EntradasDe(t) \subseteq 1..Len(entradas)
  BY <1>1, EntradasSonNat DEF HilosDe, EntradasDe
<1>4. IsFiniteSet(HilosDe(t)) /\ IsFiniteSet(EntradasDe(t))
  BY <1>2, <1>3, FS_Subset
<1> QED BY <1>4, FS_CardinalityType

LEMMA InitHilos == Init => HilosInv
<1> SUFFICES ASSUME Init, NEW t \in Tablas
             PROVE  /\ IsFiniteSet(PorCrearHilo(t))
                    /\ Cardinality(HilosDe(t)) + Cardinality(PorCrearHilo(t))
                         <= Cardinality(EntradasDe(t))
  BY DEF HilosInv
<1>1. DOMAIN <<>> = {} /\ hilos = <<>> /\ tablasParaCompactaciones = <<>>
  BY DEF Init
<1>2. HilosDe(t) = {} /\ EntradasDe(t) = {}
  BY <1>1 DEF HilosDe, EntradasDe, Listadas, ToSet
<1>3. PorCrearHilo(t) = {}
  BY LibreEsPedido DEF Init, PorCrearHilo
<1> QED BY <1>2, <1>3, FS_EmptySet

\* A CREATE adds an entry and then its thread, and a thread that ends takes an
\* entry of its table with it.
LEMMA NextHilos ==
  ASSUME TiposDeClientes, TiposDelDisco, TiposDeListas, TiposDeListas', HilosInv, Next,
         ~Reiniciar
  PROVE  HilosInv'
<1> SUFFICES ASSUME NEW t \in Tablas
             PROVE  /\ IsFiniteSet(PorCrearHilo(t)')
                    /\ Cardinality(HilosDe(t)') + Cardinality(PorCrearHilo(t)')
                         <= Cardinality(EntradasDe(t)')
  BY DEF HilosInv
<1> DEFINE H == HilosDe(t)
           P == PorCrearHilo(t)
           E == EntradasDe(t)
           Bien == IsFiniteSet(P') /\ Cardinality(H') + Cardinality(P') <= Cardinality(E')
<1>1. /\ IsFiniteSet(H) /\ Cardinality(H) \in Nat /\ IsFiniteSet(E) /\ Cardinality(E) \in Nat
      /\ IsFiniteSet(P) /\ Cardinality(P) \in Nat
      /\ Cardinality(H) + Cardinality(P) <= Cardinality(E)
  BY ListasFinitas, FS_CardinalityType DEF HilosInv
<1>2. ASSUME H' = H, P' = P, E' = E PROVE Bien
  BY <1>1, <1>2
<1>3. \A c \in Clientes : \A r : cliente' = [cliente EXCEPT ![c] = r] =>
        \A d \in Clientes : cliente'[d] = IF d = c THEN r ELSE cliente[d]
  BY DEF TiposDeClientes
<1>4. ASSUME NEW c \in Clientes, AgregarEntrada(c) PROVE Bien
  <2>1. H' = H
    BY <1>4 DEF AgregarEntrada, Pasa, HilosDe
  <2>2. cliente[c].pc = "agregarEntrada" /\ cliente[c] \in Pedido
        /\ cliente' = [cliente EXCEPT ![c] = [cliente[c] EXCEPT !.pc = "crearHilo"]]
    BY <1>4, LugarDe DEF AgregarEntrada, Pasa
  <2>3. /\ \A d \in Clientes : d # c => cliente'[d] = cliente[d]
        /\ cliente'[c].pc = "crearHilo" /\ cliente'[c].tabla = cliente[c].tabla
    <3> DEFINE r == [cliente[c] EXCEPT !.pc = "crearHilo"]
    <3>1. r.pc = "crearHilo" /\ r.tabla = cliente[c].tabla
      BY <2>2 DEF Pedido
    <3>2. cliente' = [cliente EXCEPT ![c] = r]
      BY <2>2
    <3> HIDE DEF r
    <3> QED BY <3>1, <3>2 DEF TiposDeClientes
  <2>4. PICK n : /\ DOMAIN entradas' = DOMAIN entradas \cup {n} /\ n \notin DOMAIN entradas
                 /\ entradas'[n] = Entrada(cliente[c].tabla)
                 /\ \A e \in DOMAIN entradas : entradas'[e] = entradas[e]
                 /\ Listadas' = Listadas \cup {n}
    BY <1>4, AgregarDa
  <2>5. Listadas \subseteq DOMAIN entradas /\ entradas'[n].tabla = cliente[c].tabla
    BY <2>4, EntradasSonNat DEF Entrada
  <2>6. CASE cliente[c].tabla = t
    <3>1. P' = P \cup {c} /\ c \notin P
      BY <2>2, <2>3, <2>6 DEF PorCrearHilo
    <3>2. E' = E \cup {n} /\ n \notin E
      BY <2>4, <2>5, <2>6 DEF EntradasDe
    <3> HIDE DEF H, P, E
    <3>3. IsFiniteSet(P') /\ Cardinality(P') = Cardinality(P) + 1
      BY <1>1, <3>1, FS_AddElement
    <3>4. Cardinality(E') = Cardinality(E) + 1
      BY <1>1, <3>2, FS_AddElement
    <3> QED BY <1>1, <2>1, <3>3, <3>4
  <2>7. CASE cliente[c].tabla # t
    <3>1. P' = P
      BY <2>2, <2>3, <2>7 DEF PorCrearHilo
    <3>2. E' = E
      BY <2>4, <2>5, <2>7 DEF EntradasDe
    <3> QED BY <1>2, <2>1, <3>1, <3>2
  <2> QED BY <2>6, <2>7
<1>5. ASSUME NEW c \in Clientes, CrearHilo(c) PROVE Bien
  <2>1. E' = E
    BY <1>5 DEF CrearHilo, listas, EntradasDe, Listadas
  <2>2. cliente[c].pc = "crearHilo" /\ cliente' = [cliente EXCEPT ![c] = Libre]
        /\ (hilos' = Append(hilos, Hilo(cliente[c].tabla)) \/ UNCHANGED hilos)
    BY <1>5 DEF CrearHilo
  <2>3. \A d \in Clientes : IF d = c THEN cliente'[d].pc = "libre" ELSE cliente'[d] = cliente[d]
    <3>1. \A d \in Clientes : cliente'[d] = IF d = c THEN Libre ELSE cliente[d]
      BY <1>3, <2>2
    <3> QED BY <3>1, LibreEsPedido
  <2>4. hilos \in Seq(UnHilo)
    BY DEF TiposDeListas
  <2>5. CASE cliente[c].tabla = t
    <3>1. P' = P \ {c} /\ c \in P
      BY <2>2, <2>3, <2>5 DEF PorCrearHilo
    <3>2. H' = H \/ \E n : n \notin H /\ H' = H \cup {n}
      <4>1. CASE UNCHANGED hilos
        BY <4>1 DEF HilosDe
      <4>2. CASE hilos' = Append(hilos, Hilo(cliente[c].tabla))
        <5> DEFINE h == Hilo(cliente[c].tabla)
                   n == Len(hilos) + 1
        <5>1. h \in UnHilo /\ h.tabla = t /\ h.pc = "inicio"
          BY <2>5 DEF Hilo, UnHilo, NULL
        <5> HIDE DEF h
        <5>2. /\ DOMAIN hilos' = DOMAIN hilos \cup {n} /\ n \notin DOMAIN hilos
              /\ hilos'[n] = h /\ \A i \in DOMAIN hilos : hilos'[i] = hilos[i]
          BY <2>4, <4>2, <5>1 DEF h
        <5>3. n \notin H /\ H' = H \cup {n}
          BY <5>1, <5>2 DEF HilosDe
        <5> QED BY <5>3
      <4> QED BY <2>2, <4>1, <4>2
    <3> HIDE DEF H, P, E
    <3>3. IsFiniteSet(P') /\ Cardinality(P') = Cardinality(P) - 1
      BY <1>1, <3>1, FS_RemoveElement
    <3>4. Cardinality(H') = Cardinality(H) \/ Cardinality(H') = Cardinality(H) + 1
      BY <1>1, <3>2, FS_AddElement
    <3> QED BY <1>1, <2>1, <3>3, <3>4
  <2>6. CASE cliente[c].tabla # t
    <3>1. P' = P
      BY <2>2, <2>3, <2>6 DEF PorCrearHilo
    <3>2. H' = H
      <4>1. CASE UNCHANGED hilos
        BY <4>1 DEF HilosDe
      <4>2. CASE hilos' = Append(hilos, Hilo(cliente[c].tabla))
        <5> DEFINE h == Hilo(cliente[c].tabla)
                   n == Len(hilos) + 1
        <5>1. h \in UnHilo /\ h.tabla # t
          <6>1. cliente[c].tabla \in Tablas
            BY <2>2, LugarDe
          <6> QED BY <2>6, <6>1 DEF Hilo, UnHilo, NULL
        <5> HIDE DEF h
        <5>2. /\ DOMAIN hilos' = DOMAIN hilos \cup {n} /\ n \notin DOMAIN hilos
              /\ hilos'[n] = h /\ \A i \in DOMAIN hilos : hilos'[i] = hilos[i]
          BY <2>4, <4>2, <5>1 DEF h
        <5> QED BY <5>1, <5>2 DEF HilosDe
      <4> QED BY <2>2, <4>1, <4>2
    <3> QED BY <1>2, <2>1, <3>1, <3>2
  <2> QED BY <2>5, <2>6
<1>6. ASSUME NEW i \in DOMAIN hilos, FinalizarHilo(i) PROVE Bien
  <2> DEFINE u == hilos[i].tabla
  <2>1. P' = P
    BY <1>6 DEF FinalizarHilo, SoloHilo, PorCrearHilo
  <2>2. PICK e : /\ e \in EntradasDe(u) /\ DOMAIN entradas' = DOMAIN entradas
                 /\ \A x \in DOMAIN entradas : entradas'[x].tabla = entradas[x].tabla
                 /\ Listadas' = Listadas \ {e}
    BY <1>6, FinalizarDa
  <2>3. Listadas \subseteq DOMAIN entradas
    BY EntradasSonNat
  <2>4. /\ DOMAIN hilos' = DOMAIN hilos /\ hilos[i].pc = "decide"
        /\ hilos'[i].pc = "fin" /\ hilos'[i].tabla = u
        /\ \A j \in DOMAIN hilos : j # i => hilos'[j] = hilos[j]
    <3>1. hilos[i] \in UnHilo
      BY HiloDe
    <3>2. hilos' = [hilos EXCEPT ![i] = [hilos[i] EXCEPT !.pc = "fin"]] /\ hilos[i].pc = "decide"
      BY <1>6 DEF FinalizarHilo, SoloHilo
    <3>3. hilos \in Seq(UnHilo)
      BY DEF TiposDeListas
    <3>4. DOMAIN hilos' = DOMAIN hilos
          /\ \A j \in DOMAIN hilos : hilos'[j] = IF j = i THEN [hilos[i] EXCEPT !.pc = "fin"]
                                                 ELSE hilos[j]
      BY <3>2
    <3> QED BY <3>1, <3>2, <3>4 DEF UnHilo
  <2>5. CASE u = t
    <3>1. H' = H \ {i} /\ i \in H
      BY <2>4, <2>5 DEF HilosDe
    <3>2. E' = E \ {e} /\ e \in E
      BY <2>2, <2>3, <2>5 DEF EntradasDe
    <3> HIDE DEF H, P, E, u
    <3>3. Cardinality(H') = Cardinality(H) - 1
      BY <1>1, <3>1, FS_RemoveElement
    <3>4. Cardinality(E') = Cardinality(E) - 1
      BY <1>1, <3>2, FS_RemoveElement
    <3> QED BY <1>1, <2>1, <3>3, <3>4
  <2>6. CASE u # t
    <3>1. H' = H
      BY <2>4, <2>6 DEF HilosDe
    <3>2. E' = E
      BY <2>2, <2>3, <2>6 DEF EntradasDe
    <3> QED BY <1>2, <2>1, <3>1, <3>2
  <2> QED BY <2>5, <2>6
<1>7. CASE /\ ~(\E c \in Clientes : AgregarEntrada(c) \/ CrearHilo(c))
           /\ ~(\E i \in DOMAIN hilos : FinalizarHilo(i))
  <2>1. E' = E
    <3>1. Marca
      BY <1>7, PasosDeListas
    <3>2. Listadas' = Listadas /\ Listadas \subseteq DOMAIN entradas
      BY <3>1, EntradasSonNat DEF Marca, Listadas
    <3> QED BY <3>1, <3>2 DEF Marca, EntradasDe
  <2>2. H' = H
    <3>1. CASE UNCHANGED hilos
      BY <3>1 DEF HilosDe
    <3>2. ASSUME NEW i \in DOMAIN hilos, NEW h \in UnHilo, hilos[i].pc # "fin", h.pc # "fin",
                 hilos' = [hilos EXCEPT ![i] = h], h.tabla = hilos[i].tabla
          PROVE  H' = H
      <4>1. DOMAIN hilos' = DOMAIN hilos
            /\ \A j \in DOMAIN hilos : hilos'[j] = IF j = i THEN h ELSE hilos[j]
        BY <3>2 DEF TiposDeListas
      <4> QED BY <3>2, <4>1 DEF HilosDe
    <3> HIDE DEF H
    <3> QED BY <1>7, <3>1, <3>2, PasosDeHilos
  <2>3. P' = P
    <3> SUFFICES ASSUME NEW d \in Clientes
                 PROVE  cliente'[d].pc = "crearHilo" /\ cliente'[d].tabla = t
                          <=> cliente[d].pc = "crearHilo" /\ cliente[d].tabla = t
      BY DEF PorCrearHilo
    <3>1. CASE cliente'[d] = cliente[d]
      BY <3>1
    <3>2. CASE Atender(d) /\ Sigue(cliente[d], cliente'[d])
      <4>1. cliente[d].pc \notin {"agregarEntrada", "crearHilo"}
        BY <1>7, <3>2, AccionDe
      <4> QED BY <3>2, <4>1, LibreEsPedido DEF Sigue
    <3>3. CASE cliente[d].pc = "libre" /\ cliente'[d].pc \in {"INSERT", "CREATE", "DROP"}
      BY <3>3
    <3> QED BY <3>1, <3>2, <3>3, PcSigue
  <2> QED BY <1>2, <2>1, <2>2, <2>3
<1> QED BY <1>4, <1>5, <1>6, <1>7

LEMMA ReiniciarHilos ==
  ASSUME TiposDelDisco, Reiniciar
  PROVE  HilosInv'
<1> SUFFICES ASSUME NEW t \in Tablas
             PROVE  /\ IsFiniteSet(PorCrearHilo(t)')
                    /\ Cardinality(HilosDe(t)') + Cardinality(PorCrearHilo(t)')
                         <= Cardinality(EntradasDe(t)')
  BY DEF HilosInv
<1> DEFINE H == HilosDe(t)'
           E == EntradasDe(t)'
<1>1. PorCrearHilo(t)' = {}
  BY ReiniciarDa, LibreEsPedido DEF PorCrearHilo
<1>2. H \subseteq E /\ E \subseteq DOMAIN entradas'
  BY ReiniciarDa DEF HilosDe, EntradasDe
<1>3. IsFiniteSet(E)
  BY <1>2, ReiniciarDa, FS_Subset
<1> HIDE DEF H, E
<1>4. Cardinality(H) <= Cardinality(E) /\ Cardinality(H) \in Nat
  <2>1. IsFiniteSet(H) /\ Cardinality(H) <= Cardinality(E)
    BY <1>2, <1>3, FS_Subset
  <2> QED BY <2>1, FS_CardinalityType
<1>5. Cardinality(H) + 0 <= Cardinality(E)
  BY <1>4
<1> QED BY <1>1, <1>5, FS_EmptySet DEF H, E

LEMMA SpecHilos == Spec => []HilosInv
<1>1. Tipos /\ Tipos' /\ HilosInv /\ [Next]_vars => HilosInv'
  <2>1. HilosInv /\ UNCHANGED vars => HilosInv'
    BY DEF vars, listas, HilosInv, HilosDe, PorCrearHilo, EntradasDe, Listadas
  <2> QED BY <2>1, NextHilos, ReiniciarHilos DEF Tipos
<1> QED BY <1>1, InitHilos, SpecTipos, PTL DEF Spec

\* The threads that compact a table are never more than its entries in the list:
\* each that ends removes one, whether it is the one it found or not, and CREATE
\* adds the entry before it starts the thread.
THEOREM CadaHiloTieneEntrada == Spec => []HilosConEntrada
<1>1. Tipos /\ HilosInv => HilosConEntrada
  <2> SUFFICES ASSUME Tipos, HilosInv, NEW t \in Tablas
               PROVE  Cardinality(HilosDe(t)) <= Cardinality(EntradasDe(t))
    BY DEF HilosConEntrada, HilosDe, EntradasDe
  <2>1. /\ Cardinality(HilosDe(t)) \in Nat /\ Cardinality(EntradasDe(t)) \in Nat
        /\ Cardinality(PorCrearHilo(t)) \in Nat
        /\ Cardinality(HilosDe(t)) + Cardinality(PorCrearHilo(t)) <= Cardinality(EntradasDe(t))
    BY ListasFinitas, FS_CardinalityType DEF Tipos, HilosInv
  <2> QED BY <2>1
<1> QED BY <1>1, SpecTipos, SpecHilos, PTL
------------------------------------------------------------------------------
(* Mutexes of the entries.                                                 *)

\* What list_find returns, of any list.
Primera(s, E, t) ==
  LET ps == {i \in DOMAIN s : E[s[i]].tabla = t}
  IN  IF ps = {} THEN NULL ELSE s[CHOOSE i \in ps : \A j \in ps : i <= j]

LEMMA EncontrarEsPrimera ==
  ASSUME NEW t
  PROVE  /\ EncontrarTabla(t) = Primera(tablasParaCompactaciones, entradas, t)
         /\ EncontrarTabla(t)' = Primera(tablasParaCompactaciones', entradas', t)
BY Zenon DEF EncontrarTabla, Primera

LEMMA PrimeraEsta ==
  ASSUME NEW s \in Seq(Nat), NEW E, NEW t, Primera(s, E, t) # NULL
  PROVE  \E k \in DOMAIN s : /\ s[k] = Primera(s, E, t) /\ E[s[k]].tabla = t
                             /\ \A j \in DOMAIN s : E[s[j]].tabla = t => k <= j
<1> DEFINE ps == {i \in DOMAIN s : E[s[i]].tabla = t}
<1>1. ps # {} /\ ps \subseteq Nat
  BY DEF Primera
<1>2. Primera(s, E, t) = s[Min(ps)]
  <2>1. Min(ps) = CHOOSE i \in ps : \A j \in ps : i <= j
    BY DEF Min
  <2>2. Primera(s, E, t) = s[CHOOSE i \in ps : \A j \in ps : i <= j]
    BY <1>1, Zenon DEF Primera
  <2> QED BY <2>1, <2>2, Zenon
<1>3. Min(ps) \in ps /\ \A x \in ps : Min(ps) <= x
  <2> HIDE DEF ps
  <2> QED BY <1>1, HayMinimo
<1> QED BY <1>2, <1>3

LEMMA PrimeraEs ==
  ASSUME NEW s \in Seq(Nat), NEW E, NEW t, NEW k \in DOMAIN s, E[s[k]].tabla = t,
         \A j \in DOMAIN s : E[s[j]].tabla = t => k <= j
  PROVE  Primera(s, E, t) = s[k]
<1> DEFINE ps == {i \in DOMAIN s : E[s[i]].tabla = t}
<1>1. k \in ps /\ ps \subseteq Nat /\ \A j \in ps : k <= j
  OBVIOUS
<1>2. Primera(s, E, t) = s[Min(ps)]
  <2>1. Min(ps) = CHOOSE i \in ps : \A j \in ps : i <= j
    BY DEF Min
  <2>2. Primera(s, E, t) = s[CHOOSE i \in ps : \A j \in ps : i <= j]
    BY <1>1, Zenon DEF Primera
  <2> QED BY <2>1, <2>2, Zenon
<1>3. Min(ps) \in ps /\ \A x \in ps : Min(ps) <= x
  <2> HIDE DEF ps
  <2> QED BY <1>1, HayMinimo
<1>4. Min(ps) = k
  <2> HIDE DEF ps
  <2> QED BY <1>1, <1>3
<1> QED BY <1>2, <1>4

LEMMA PrimeraIgual ==
  ASSUME NEW s \in Seq(Nat), NEW E, NEW F, NEW t,
         \A i \in DOMAIN s : F[s[i]].tabla = E[s[i]].tabla
  PROVE  Primera(s, F, t) = Primera(s, E, t)
<1>1. CASE \E i \in DOMAIN s : E[s[i]].tabla = t
  <2> DEFINE ps == {i \in DOMAIN s : E[s[i]].tabla = t}
  <2>1. ps # {} /\ ps \subseteq Nat
    BY <1>1
  <2>2. Min(ps) \in ps /\ \A x \in ps : Min(ps) <= x
    <3> HIDE DEF ps
    <3> QED BY <2>1, HayMinimo
  <2> DEFINE k == Min(ps)
  <2> HIDE DEF k
  <2>3. k \in DOMAIN s /\ E[s[k]].tabla = t /\ \A j \in DOMAIN s : E[s[j]].tabla = t => k <= j
    BY <2>2 DEF k
  <2>4. Primera(s, E, t) = s[k]
    BY <2>3, PrimeraEs
  <2>5. F[s[k]].tabla = t /\ \A j \in DOMAIN s : F[s[j]].tabla = t => k <= j
    BY <2>3
  <2>6. Primera(s, F, t) = s[k]
    BY <2>3, <2>5, PrimeraEs
  <2> QED BY <2>4, <2>6
<1>2. CASE ~(\E i \in DOMAIN s : E[s[i]].tabla = t)
  <2>1. {i \in DOMAIN s : E[s[i]].tabla = t} = {} /\ {i \in DOMAIN s : F[s[i]].tabla = t} = {}
    BY <1>2
  <2> QED BY <2>1 DEF Primera
<1> QED BY <1>1, <1>2

\* The first entry of a table is another only once it is removed.
LEMMA EncontrarConMarca ==
  ASSUME TiposDeListas, Marca, NEW t
  PROVE  EncontrarTabla(t)' = EncontrarTabla(t)
<1> DEFINE s == tablasParaCompactaciones
<1>1. s \in Seq(Nat) /\ \A i \in DOMAIN s : s[i] \in DOMAIN entradas
  BY DEF TiposDeListas, Listadas, ToSet
<1>2. \A i \in DOMAIN s : entradas'[s[i]].tabla = entradas[s[i]].tabla
  BY <1>1 DEF Marca
<1>3. UNCHANGED tablasParaCompactaciones
  BY DEF Marca
<1>5. Primera(s, entradas', t) = Primera(s, entradas, t)
  <2> PICK F : F = entradas'
    OBVIOUS
  <2>1. Primera(s, F, t) = Primera(s, entradas, t)
    BY <1>1, <1>2, PrimeraIgual
  <2> QED BY <2>1
<1> QED BY <1>3, <1>5, EncontrarEsPrimera, Zenon

LEMMA EncontrarConAlta ==
  ASSUME TiposDeClientes, TiposDeListas, NEW c \in Clientes, AgregarEntrada(c), NEW t,
         EncontrarTabla(t) # NULL
  PROVE  EncontrarTabla(t)' = EncontrarTabla(t)
<1> DEFINE s == tablasParaCompactaciones
<1>1. s \in Seq(Nat) /\ \A i \in DOMAIN s : s[i] \in DOMAIN entradas
  BY DEF TiposDeListas, Listadas, ToSet
<1>2. PICK n \in Nat : /\ s' = Append(s, n)
                       /\ \A e \in DOMAIN entradas : entradas'[e] = entradas[e]
  BY AgregarDa
<1>3. PICK k \in DOMAIN s : /\ s[k] = EncontrarTabla(t) /\ entradas[s[k]].tabla = t
                            /\ \A j \in DOMAIN s : entradas[s[j]].tabla = t => k <= j
  BY <1>1, PrimeraEsta, EncontrarEsPrimera
<1>4. /\ s' \in Seq(Nat) /\ DOMAIN s' = 1..(Len(s) + 1) /\ DOMAIN s = 1..Len(s) /\ Len(s) \in Nat
      /\ \A i \in DOMAIN s : s'[i] = s[i]
  BY <1>1, <1>2
<1>5. k \in DOMAIN s' /\ s'[k] = s[k] /\ entradas'[s'[k]].tabla = t
  BY <1>1, <1>2, <1>3, <1>4
<1>6. \A j \in DOMAIN s' : entradas'[s'[j]].tabla = t => k <= j
  BY <1>1, <1>2, <1>3, <1>4
<1>7. Primera(s', entradas', t) = s'[k]
  <2> PICK u, F : u = s' /\ F = entradas'
    OBVIOUS
  <2>1. u \in Seq(Nat) /\ k \in DOMAIN u /\ F[u[k]].tabla = t
        /\ \A j \in DOMAIN u : F[u[j]].tabla = t => k <= j
    BY <1>4, <1>5, <1>6
  <2>2. Primera(u, F, t) = u[k]
    BY <2>1, PrimeraEs
  <2> QED BY <2>2
<1> QED BY <1>3, <1>5, <1>7, EncontrarEsPrimera

LEMMA EncontrarConBaja ==
  ASSUME TiposDeListas, NEW i \in DOMAIN hilos, FinalizarHilo(i), NEW t, t # hilos[i].tabla,
         EncontrarTabla(t) # NULL
  PROVE  EncontrarTabla(t)' = EncontrarTabla(t)
<1> DEFINE s == tablasParaCompactaciones
           e == EncontrarTabla(hilos[i].tabla)
<1>1. s \in Seq(Nat) /\ \A j \in DOMAIN s : s[j] \in DOMAIN entradas
  BY DEF TiposDeListas, Listadas, ToSet
<1>2. /\ e \in Range(s) /\ entradas[e].tabla = hilos[i].tabla
      /\ s' = RemoveFirst(s, e) /\ s' \in Seq(Nat)
      /\ \A x \in DOMAIN entradas : entradas'[x].tabla = entradas[x].tabla
  BY FinalizarDa, RangoListadas DEF EntradasDe, FinalizarHilo
<1> HIDE DEF e
<1>3. PICK m \in 1..Len(s) : s[m] = e /\ RemoveFirst(s, e) = RemoveAt(s, m)
  BY <1>1, <1>2, LugarDeRemoveFirst
<1>4. /\ Len(s') = Len(s) - 1 /\ Len(s) \in Nat /\ DOMAIN s = 1..Len(s)
      /\ \A j \in 1..(Len(s) - 1) : s'[j] = IF j < m THEN s[j] ELSE s[j + 1]
  <2>1. s' = RemoveAt(s, m)
    BY <1>2, <1>3
  <2>2. /\ Len(RemoveAt(s, m)) = Len(s) - 1
        /\ \A j \in 1..(Len(s) - 1) : RemoveAt(s, m)[j] = IF j < m THEN s[j] ELSE s[j + 1]
    BY <1>1, ElementosDeRemoveAt
  <2>3. Len(s) \in Nat /\ DOMAIN s = 1..Len(s)
    BY <1>1
  <2> QED BY <2>1, <2>2, <2>3, Zenon
<1>5. PICK k \in DOMAIN s : /\ s[k] = EncontrarTabla(t) /\ entradas[s[k]].tabla = t
                            /\ \A j \in DOMAIN s : entradas[s[j]].tabla = t => k <= j
  BY <1>1, PrimeraEsta, EncontrarEsPrimera
<1> DEFINE g == IF k < m THEN k ELSE k - 1
<1>6. k # m
  BY <1>2, <1>3, <1>5
<1>7. g \in 1..(Len(s) - 1) /\ s'[g] = s[k]
  <2>1. CASE k < m
    BY <1>4, <1>5, <2>1
  <2>2. CASE k > m
    <3>1. k - 1 \in 1..(Len(s) - 1) /\ ~(k - 1 < m) /\ (k - 1) + 1 = k
      BY <1>4, <1>5, <2>2
    <3>2. s'[k - 1] = s[(k - 1) + 1]
      BY <1>4, <3>1
    <3> QED BY <2>2, <3>1, <3>2
  <2> QED BY <1>4, <1>6, <2>1, <2>2
<1>8. DOMAIN s' = 1..(Len(s) - 1)
  BY <1>2, <1>4
<1>9. ASSUME NEW j \in DOMAIN s', entradas'[s'[j]].tabla = t PROVE g <= j
  <2> DEFINE f == IF j < m THEN j ELSE j + 1
  <2>1. f \in DOMAIN s /\ s'[j] = s[f]
    BY <1>4, <1>8
  <2>2. entradas[s[f]].tabla = t
    BY <1>1, <1>2, <1>9, <2>1
  <2>3. k <= f
    BY <1>5, <2>1, <2>2
  <2> QED BY <1>4, <1>6, <1>8, <2>3
<1>10. entradas'[s'[g]].tabla = t
  BY <1>1, <1>2, <1>5, <1>7
<1> HIDE DEF g
<1>11. Primera(s', entradas', t) = s'[g]
  <2> PICK n \in Nat : n = g
    BY <1>4, <1>7
  <2> PICK u, F : u = s' /\ F = entradas'
    OBVIOUS
  <2>1. u \in Seq(Nat) /\ n \in DOMAIN u /\ F[u[n]].tabla = t
        /\ \A j \in DOMAIN u : F[u[j]].tabla = t => n <= j
    BY <1>2, <1>7, <1>8, <1>9, <1>10
  <2>2. Primera(u, F, t) = u[n]
    BY <2>1, PrimeraEs
  <2> QED BY <2>2
<1> QED BY <1>5, <1>7, <1>11, EncontrarEsPrimera

\* What a thread has of a compaction goes with its steps.
LEMMA HiloSigue ==
  ASSUME TiposDeClientes, TiposDeListas, Next, ~Reiniciar, NEW j \in DOMAIN hilos'
  PROVE  \/ j \in DOMAIN hilos /\ hilos'[j] = hilos[j]
         \/ j \notin DOMAIN hilos /\ \E t \in Tablas : hilos'[j] = Hilo(t)
         \/ /\ j \in DOMAIN hilos /\ Compactacion(j) /\ ~Revienta
            /\ hilos' = [hilos EXCEPT ![j] = hilos'[j]] /\ hilos'[j].tabla = hilos[j].tabla
<1>1. hilos \in Seq(UnHilo)
  BY DEF TiposDeListas
<1>2. CASE UNCHANGED hilos
  BY <1>2
<1>3. ASSUME NEW c \in Clientes, CrearHilo(c), hilos' = Append(hilos, Hilo(cliente[c].tabla))
      PROVE  \/ j \in DOMAIN hilos /\ hilos'[j] = hilos[j]
             \/ j \notin DOMAIN hilos /\ \E t \in Tablas : hilos'[j] = Hilo(t)
  <2> DEFINE h == Hilo(cliente[c].tabla)
  <2>1. cliente[c].tabla \in Tablas
    BY <1>3, LugarDe DEF CrearHilo
  <2>2. h \in UnHilo
    BY <2>1 DEF Hilo, UnHilo, NULL
  <2> HIDE DEF h
  <2>3. hilos' = Append(hilos, h)
    BY <1>3 DEF h
  <2>4. (j \notin DOMAIN hilos /\ hilos'[j] = h) \/ (j \in DOMAIN hilos /\ hilos'[j] = hilos[j])
    BY <1>1, <2>2, <2>3
  <2> QED BY <2>1, <2>4 DEF h
<1>4. ASSUME NEW i \in DOMAIN hilos, NEW h \in UnHilo, Compactacion(i),
             hilos' = [hilos EXCEPT ![i] = h], h.tabla = hilos[i].tabla
      PROVE  \/ j \in DOMAIN hilos /\ hilos'[j] = hilos[j]
             \/ /\ j \in DOMAIN hilos /\ Compactacion(j) /\ ~Revienta
                /\ hilos' = [hilos EXCEPT ![j] = hilos'[j]] /\ hilos'[j].tabla = hilos[j].tabla
  <2>1. DOMAIN hilos' = DOMAIN hilos /\ hilos'[j] = IF j = i THEN h ELSE hilos[j]
    BY <1>1, <1>4
  <2>2. Revienta => UNCHANGED hilos
    BY DEF Revienta
  <2> QED BY <1>4, <2>1, <2>2
<1> QED BY <1>2, <1>3, <1>4, PasosDeHilos

LEMMA CompactacionSigue ==
  ASSUME TiposDeListas, NEW j \in DOMAIN hilos, Compactacion(j), ~Revienta,
         hilos' = [hilos EXCEPT ![j] = hilos'[j]]
  PROVE  /\ \/ hilos'[j].entrada = hilos[j].entrada
            \/ /\ BuscarEntradaDeHilo(j) /\ UNCHANGED listas
               /\ hilos'[j].entrada = EncontrarTabla(hilos[j].tabla)
         /\ hilos'[j].pc \in EnUso => hilos[j].pc \in EnUso \/ Despertar(j)
         /\ EnSuPaso(hilos[j]) => EnSuPaso(hilos'[j])
<1> DEFINE h == hilos[j]
           Bien(g) == /\ \/ g.entrada = h.entrada
                         \/ /\ BuscarEntradaDeHilo(j) /\ UNCHANGED listas
                            /\ g.entrada = EncontrarTabla(h.tabla)
                      /\ g.pc \in EnUso => h.pc \in EnUso \/ Despertar(j)
                      /\ EnSuPaso(h) => EnSuPaso(g)
<1>1. h \in UnHilo
  BY HiloDe
<1>2. \A g : hilos' = [hilos EXCEPT ![j] = g] => hilos'[j] = g
  BY DEF TiposDeListas
<1>3. \A g : SoloHilo(j, g) => hilos'[j] = g
  BY <1>2 DEF SoloHilo
<1> SUFFICES \E g : hilos'[j] = g /\ Bien(g)
  OBVIOUS
<1>4. CASE LeerMetadata(j)
  <2> DEFINE g == [h EXCEPT !.pc = "buscar"]
  <2>1. h.pc = "inicio" /\ SoloHilo(j, g)
    BY <1>4 DEF LeerMetadata
  <2>2. Bien(g)
    BY <1>1, <2>1 DEF UnHilo, EnUso, EnSuPaso
  <2> QED BY <1>3, <2>1, <2>2
<1>5. CASE BuscarEntradaDeHilo(j)
  <2> DEFINE e == EncontrarTabla(h.tabla)
             g == [h EXCEPT !.pc = "duerme", !.entrada = e]
  <2>1. h.pc = "buscar" /\ SoloHilo(j, g) /\ UNCHANGED listas
    BY <1>5 DEF BuscarEntradaDeHilo
  <2> HIDE DEF e
  <2>2. g.entrada = e /\ g.pc = "duerme" /\ g.faltan = h.faltan /\ g.libera = h.libera
        /\ g.bloques = h.bloques
    BY <1>1 DEF UnHilo
  <2> HIDE DEF g
  <2>3. Bien(g)
    BY <1>5, <2>1, <2>2 DEF EnUso, EnSuPaso, e
  <2> QED BY <1>3, <2>1, <2>3
<1>6. CASE Despertar(j)
  <2> DEFINE g == [h EXCEPT !.pc = "decide"]
  <2>1. h.pc = "duerme" /\ SoloHilo(j, g) /\ h.entrada # NULL
    BY <1>6 DEF Despertar, Perdida
  <2>2. Bien(g)
    BY <1>1, <1>6, <2>1 DEF UnHilo, EnUso, EnSuPaso
  <2> QED BY <1>3, <2>1, <2>2
<1>7. CASE FinalizarHilo(j)
  <2> DEFINE g == [h EXCEPT !.pc = "fin"]
  <2>1. h.pc = "decide" /\ SoloHilo(j, g)
    BY <1>7 DEF FinalizarHilo
  <2>2. Bien(g)
    BY <1>1, <2>1 DEF UnHilo, EnUso, EnSuPaso
  <2> QED BY <1>3, <2>1, <2>2
<1>8. ASSUME TerminarDeCompactar(j, h), h.pc \in EnUso, EnSuPaso(h) => h.libera = {}
      PROVE  \E g : hilos'[j] = g /\ Bien(g)
  <2> DEFINE g == [h EXCEPT !.pc = "duerme", !.faltan = {}, !.bloques = {}]
  <2>1. SoloHilo(j, g)
    BY <1>8 DEF TerminarDeCompactar
  <2>2. Bien(g)
    BY <1>1, <1>8 DEF UnHilo, EnUso, EnSuPaso
  <2> QED BY <1>3, <2>1, <2>2
<1>9. CASE Renombrar(j)
  <2>1. h.pc = "decide"
    BY <1>9 DEF Renombrar
  <2>2. CASE TerminarDeCompactar(j, h)
    BY <1>8, <2>1, <2>2 DEF EnUso, EnSuPaso
  <2>3. CASE ~TerminarDeCompactar(j, h)
    <3>1. PICK ps \in (SUBSET (1..Particiones)) \ {{}} :
            SoloHilo(j, [h EXCEPT !.pc = "bloquea", !.faltan = ps, !.libera = ps \cup {TmpC}])
      BY <1>9, <2>3 DEF Renombrar
    <3> DEFINE L == ps \cup {TmpC}
               g == [h EXCEPT !.pc = "bloquea", !.faltan = ps, !.libera = L]
    <3>2. L # {} /\ ps # {}
      <4>1. TmpC \in L
        OBVIOUS
      <4>2. ps # {}
        OBVIOUS
      <4> QED BY <4>1, <4>2
    <3>3. SoloHilo(j, g)
      BY <3>1
    <3> HIDE DEF L
    <3>4. Bien(g)
      BY <1>1, <2>1, <3>2 DEF UnHilo, EnUso, EnSuPaso
    <3> QED BY <1>3, <3>3, <3>4
  <2> QED BY <2>2, <2>3
<1>10. CASE BloquearTabla(j)
  <2> DEFINE g == [h EXCEPT !.pc = "libera"]
  <2>1. h.pc = "bloquea" /\ SoloHilo(j, g)
    BY <1>10 DEF BloquearTabla
  <2>2. Bien(g)
    BY <1>1, <2>1 DEF UnHilo, EnUso, EnSuPaso
  <2> QED BY <1>3, <2>1, <2>2
<1>11. CASE LiberarBloques(j)
  <2>1. PICK n \in h.libera : SoloHilo(j, SinLiberar(h, n)) /\ h.pc = "libera"
    BY <1>11 DEF LiberarBloques
  <2> DEFINE g == SinLiberar(h, n)
  <2>2. Bien(g)
    <3>1. CASE h.libera = {n}
      <4>1. g = [h EXCEPT !.libera = {}, !.pc = "pide"]
        BY <3>1 DEF SinLiberar
      <4> QED BY <1>1, <2>1, <4>1 DEF UnHilo, EnUso, EnSuPaso
    <3>2. CASE h.libera # {n}
      <4> DEFINE L == h.libera \ {n}
      <4>1. g = [h EXCEPT !.libera = L, !.pc = "libera"] /\ L # {}
        BY <2>1, <3>2 DEF SinLiberar
      <4> HIDE DEF L
      <4> QED BY <1>1, <2>1, <4>1 DEF UnHilo, EnUso, EnSuPaso
    <3> QED BY <3>1, <3>2
  <2> QED BY <1>3, <2>1, <2>2
<1>12. CASE PedirBloqueNuevo(j)
  <2> DEFINE bs == h.bloques \cup ({BloqueDisponible} \ {-1})
             g == [h EXCEPT !.pc = "guarda", !.bloques = bs]
  <2>1. h.pc \in {"pide", "guarda"} /\ SoloHilo(j, g)
    BY <1>12 DEF PedirBloqueNuevo
  <2> HIDE DEF bs
  <2>2. Bien(g)
    BY <1>1, <2>1 DEF UnHilo, EnUso, EnSuPaso
  <2> QED BY <1>3, <2>1, <2>2
<1>13. CASE GuardarParticion(j)
  <2>1. h.pc = "guarda"
    BY <1>13 DEF GuardarParticion
  <2>2. CASE TerminarDeCompactar(j, h)
    BY <1>8, <2>1, <2>2 DEF EnUso, EnSuPaso
  <2>3. CASE ~TerminarDeCompactar(j, h)
    <3>1. PICK n \in h.faltan : /\ h.faltan # {n}
            /\ SoloHilo(j, [h EXCEPT !.pc = "pide", !.faltan = h.faltan \ {n}, !.bloques = {}])
      BY <1>13, <2>3 DEF GuardarParticion
    <3> DEFINE F == h.faltan \ {n}
               g == [h EXCEPT !.pc = "pide", !.faltan = F, !.bloques = {}]
    <3>2. F # {} /\ SoloHilo(j, g)
      BY <3>1
    <3> HIDE DEF F
    <3>3. Bien(g)
      BY <1>1, <2>1, <3>2 DEF UnHilo, EnUso, EnSuPaso
    <3> QED BY <1>3, <3>2, <3>3
  <2> QED BY <2>2, <2>3
<1> HIDE DEF Bien
<1> QED BY <1>4, <1>5, <1>6, <1>7, <1>9, <1>10, <1>11, <1>12, <1>13 DEF Compactacion, Compactar

\* Whoever has the first entry of a table goes on having it, until it is freed.
LEMMA ApuntaQueda ==
  ASSUME TiposDeClientes, TiposDeListas, Next, ~Reiniciar, NEW x, NEW t,
         x # NULL => x \in DOMAIN entradas, Apunta(x, t)
  PROVE  Apunta(x, t)'
<1> SUFFICES ASSUME ~Perdida(x)' PROVE x = EncontrarTabla(t)'
  BY DEF Apunta
<1>1. x # NULL /\ x \in DOMAIN entradas /\ ~entradas'[x].liberada
  BY DEF Perdida
<1>2. CASE Marca
  <2>1. ~Perdida(x)
    BY <1>1, <1>2 DEF Marca, Perdida
  <2> QED BY <1>2, <2>1, EncontrarConMarca DEF Apunta
<1>3. ASSUME NEW c \in Clientes, AgregarEntrada(c) PROVE x = EncontrarTabla(t)'
  <2>1. ~Perdida(x)
    <3>1. entradas'[x] = entradas[x]
      BY <1>1, <1>3, AgregarDa
    <3> QED BY <1>1, <3>1 DEF Perdida
  <2>2. x = EncontrarTabla(t)
    BY <2>1 DEF Apunta
  <2> QED BY <1>1, <1>3, <2>2, EncontrarConAlta
<1>4. ASSUME NEW i \in DOMAIN hilos, FinalizarHilo(i) PROVE x = EncontrarTabla(t)'
  <2> DEFINE e == EncontrarTabla(hilos[i].tabla)
  <2>1. entradas'[x].liberada = IF x = e THEN TRUE ELSE entradas[x].liberada
    BY <1>1, <1>4, FinalizarDa
  <2>2. x # e /\ ~Perdida(x)
    BY <1>1, <2>1 DEF Perdida
  <2>3. x = EncontrarTabla(t)
    BY <2>2 DEF Apunta
  <2>4. t # hilos[i].tabla
    BY <2>2, <2>3
  <2> QED BY <1>1, <1>4, <2>3, <2>4, EncontrarConBaja
<1> QED BY <1>2, <1>3, <1>4, PasosDeListas

LEMMA EncontrarIgual ==
  ASSUME UNCHANGED listas, NEW t
  PROVE  EncontrarTabla(t)' = EncontrarTabla(t)
BY EncontrarEsPrimera DEF listas

LEMMA NextApuntaCliente ==
  ASSUME TiposDeClientes, TiposDeListas, Next, ~Reiniciar, NEW c \in Clientes,
         Apunta(cliente[c].entrada, cliente[c].tabla)
  PROVE  Apunta(cliente[c].entrada, cliente[c].tabla)'
<1> PICK x, t : x = cliente'[c].entrada /\ t = cliente'[c].tabla
  OBVIOUS
<1> SUFFICES Apunta(x, t)'
  OBVIOUS
<1>1. CASE x = NULL
  BY <1>1 DEF Apunta, Perdida
<1>2. CASE x = cliente[c].entrada /\ t = cliente[c].tabla
  <2>1. Apunta(x, t) /\ (x # NULL => x \in DOMAIN entradas)
    BY <1>2 DEF TiposDeListas
  <2> QED BY <2>1, ApuntaQueda
<1>3. CASE cliente[c].pc = "DROP" /\ Atender(c) /\ cliente'[c] # cliente[c]
  <2>1. BuscarEntrada(c)
    BY <1>3, AccionDe
  <2>2. UNCHANGED listas /\ x = EncontrarTabla(cliente[c].tabla) /\ t = cliente[c].tabla
    <3> DEFINE e == EncontrarTabla(cliente[c].tabla)
               g == [cliente[c] EXCEPT !.entrada = e,
                                       !.pc = IF e = NULL THEN "opendir" ELSE "bloquear"]
    <3>1. UNCHANGED listas /\ cliente' = [cliente EXCEPT ![c] = g]
      BY <2>1 DEF BuscarEntrada, SoloCliente, Pasa
    <3>2. g.entrada = e /\ g.tabla = cliente[c].tabla
      BY DEF TiposDeClientes, Pedido
    <3>3. cliente'[c] = g
      BY <3>1 DEF TiposDeClientes
    <3> QED BY <3>1, <3>2, <3>3
  <2>3. x = EncontrarTabla(t)
    BY <2>2
  <2>4. x = EncontrarTabla(t)'
    BY <2>2, <2>3, EncontrarIgual
  <2> QED BY <2>4 DEF Apunta
<1>4. Libre.entrada = NULL
  BY DEF Libre
<1> QED BY <1>1, <1>2, <1>3, <1>4, PcSigue DEF Sigue

LEMMA NextApuntaHilo ==
  ASSUME TiposDeClientes, TiposDeListas, Next, ~Reiniciar, NEW j \in DOMAIN hilos',
         \A i \in DOMAIN hilos : Apunta(hilos[i].entrada, hilos[i].tabla) /\ EnSuPaso(hilos[i])
  PROVE  Apunta(hilos[j].entrada, hilos[j].tabla)' /\ EnSuPaso(hilos'[j])
<1> PICK x, t : x = hilos'[j].entrada /\ t = hilos'[j].tabla
  OBVIOUS
<1> SUFFICES Apunta(x, t)' /\ EnSuPaso(hilos'[j])
  OBVIOUS
<1>1. x = NULL => Apunta(x, t)'
  BY DEF Apunta, Perdida
<1>2. CASE j \notin DOMAIN hilos /\ \E u \in Tablas : hilos'[j] = Hilo(u)
  BY <1>1, <1>2 DEF Hilo, EnSuPaso, EnUso
<1>3. ASSUME j \in DOMAIN hilos, x = hilos[j].entrada, t = hilos[j].tabla
      PROVE  Apunta(x, t)'
  <2>1. Apunta(x, t) /\ (x # NULL => x \in DOMAIN entradas)
    BY <1>3 DEF TiposDeListas
  <2> QED BY <2>1, ApuntaQueda
<1>4. CASE j \in DOMAIN hilos /\ hilos'[j] = hilos[j]
  BY <1>3, <1>4
<1>5. CASE /\ j \in DOMAIN hilos /\ Compactacion(j) /\ ~Revienta
           /\ hilos' = [hilos EXCEPT ![j] = hilos'[j]] /\ hilos'[j].tabla = hilos[j].tabla
  <2>1. EnSuPaso(hilos'[j])
    BY <1>5, CompactacionSigue
  <2>2. CASE x = hilos[j].entrada
    BY <1>3, <1>5, <2>1, <2>2
  <2>3. CASE x # hilos[j].entrada
    <3>1. UNCHANGED listas /\ x = EncontrarTabla(t)
      BY <1>5, <2>3, CompactacionSigue
    <3>2. x = EncontrarTabla(t)'
      BY <3>1, EncontrarIgual
    <3> QED BY <2>1, <3>2 DEF Apunta
  <2> QED BY <2>2, <2>3
<1> QED BY <1>2, <1>4, <1>5, HiloSigue

\* A client, or a thread, has an entry because it had it, or has just locked it.
LEMMA DueniosSiguen ==
  ASSUME TiposDeClientes, TiposDeListas, Next, ~Reiniciar, NEW e, e # NULL,
         NEW c \in SusDuenios(e)'
  PROVE  c \in SusDuenios(e) \/ (BloquearEntrada(c) /\ cliente[c].entrada = e)
<1>1. c \in Clientes /\ cliente'[c].pc \in ConMutex /\ cliente'[c].entrada = e
  BY DEF SusDuenios
<1>2. CASE cliente'[c] = cliente[c]
  BY <1>1, <1>2 DEF SusDuenios
<1>3. CASE Atender(c) /\ cliente[c].pc = "DROP"
  <2> DEFINE n == EncontrarTabla(cliente[c].tabla)
             g == [cliente[c] EXCEPT !.entrada = n,
                                     !.pc = IF n = NULL THEN "opendir" ELSE "bloquear"]
  <2>1. cliente' = [cliente EXCEPT ![c] = g]
    BY <1>1, <1>3, AccionDe DEF BuscarEntrada, SoloCliente, Pasa
  <2>2. cliente'[c] = g
    BY <1>1, <2>1 DEF TiposDeClientes
  <2>3. g.entrada = n /\ (g.pc \in ConMutex => n = NULL)
    BY <1>1 DEF TiposDeClientes, Pedido, ConMutex
  <2> HIDE DEF n, g
  <2> QED BY <1>1, <2>2, <2>3
<1>4. CASE Atender(c) /\ cliente[c].pc # "DROP" /\ Sigue(cliente[c], cliente'[c])
  <2>1. cliente'[c] # Libre
    BY <1>1 DEF Libre, ConMutex
  <2>2. cliente'[c].entrada = cliente[c].entrada /\ cliente[c].pc \in ConMutex \cup {"bloquear"}
    BY <1>1, <1>4, <2>1 DEF Sigue, ConMutex
  <2>3. cliente[c].pc = "bloquear" => BloquearEntrada(c)
    BY <1>1, <1>4, AccionDe
  <2> QED BY <1>1, <2>2, <2>3 DEF SusDuenios
<1> QED BY <1>1, <1>2, <1>3, <1>4, PcSigue DEF ConMutex

LEMMA HilosSiguen ==
  ASSUME TiposDeClientes, TiposDeListas, Next, ~Reiniciar, NEW e, e # NULL,
         NEW i \in SusHilos(e)'
  PROVE  \/ i \in SusHilos(e)
         \/ i \in DOMAIN hilos /\ Despertar(i) /\ ~Revienta /\ hilos[i].entrada = e
<1>1. i \in DOMAIN hilos' /\ hilos'[i].pc \in EnUso /\ hilos'[i].entrada = e
  BY DEF SusHilos
<1>2. CASE i \in DOMAIN hilos /\ hilos'[i] = hilos[i]
  BY <1>1, <1>2 DEF SusHilos
<1>3. CASE \E t \in Tablas : hilos'[i] = Hilo(t)
  BY <1>1, <1>3 DEF Hilo, EnUso
<1>4. CASE /\ i \in DOMAIN hilos /\ Compactacion(i) /\ ~Revienta
           /\ hilos' = [hilos EXCEPT ![i] = hilos'[i]]
  <2>1. hilos[i].pc \in EnUso \/ Despertar(i)
    BY <1>1, <1>4, CompactacionSigue
  <2>2. ~BuscarEntradaDeHilo(i)
    BY <2>1 DEF EnUso, Despertar, BuscarEntradaDeHilo
  <2>3. hilos[i].entrada = e
    BY <1>1, <1>4, <2>2, CompactacionSigue
  <2> QED BY <1>4, <2>1, <2>3 DEF SusHilos
<1> QED BY <1>1, <1>2, <1>3, <1>4, HiloSigue

\* Who locks an entry, gives its mutex back, or frees it.
LEMMA MutexCambia ==
  ASSUME TiposDeClientes, TiposDeListas, Next, ~Reiniciar, NEW e \in DOMAIN entradas
  PROVE  \/ /\ entradas'[e].duenio = entradas[e].duenio
            /\ entradas'[e].liberada = entradas[e].liberada
         \/ \E c \in Clientes : /\ BloquearEntrada(c) \/ (DesbloquearEntrada(c) /\ ~Revienta)
                                /\ cliente[c].entrada = e
         \/ \E i \in DOMAIN hilos : /\ Despertar(i) \/ (Compactar(i) /\ UNCHANGED cliente)
                                    /\ ~Revienta /\ hilos[i].entrada = e
         \/ \E i \in DOMAIN hilos : FinalizarHilo(i) /\ e = EncontrarTabla(hilos[i].tabla)
<1> DEFINE Igual == /\ entradas'[e].duenio = entradas[e].duenio
                    /\ entradas'[e].liberada = entradas[e].liberada
<1>1. UNCHANGED entradas => Igual
  OBVIOUS
<1>2. ASSUME NEW x, NEW f, entradas' = [entradas EXCEPT ![x].duenio = f], x # e PROVE Igual
  BY <1>2 DEF TiposDeListas
<1>3. ASSUME NEW x, entradas' = [entradas EXCEPT ![x].finalizar = TRUE] PROVE Igual
  <2>1. entradas'[e] = IF e = x THEN [entradas[e] EXCEPT !.finalizar = TRUE] ELSE entradas[e]
    BY <1>3
  <2> QED BY <2>1, EntradaDe DEF UnaEntrada
<1>4. ASSUME NEW c \in Clientes, BloquearEntrada(c), cliente[c].entrada # e PROVE Igual
  BY <1>2, <1>4 DEF BloquearEntrada
<1>5. ASSUME NEW c \in Clientes, DesbloquearEntrada(c)
      PROVE  Igual \/ (~Revienta /\ cliente[c].entrada = e)
  BY <1>1, <1>2, <1>5 DEF DesbloquearEntrada, Revienta, listas
<1>6. ASSUME NEW c \in Clientes, Condenar(c) PROVE Igual
  BY <1>1, <1>3, <1>6 DEF Condenar, Revienta, listas
<1>7. ASSUME NEW c \in Clientes, AgregarEntrada(c) PROVE Igual
  BY <1>7, AgregarDa
<1>8. ASSUME NEW c \in Clientes, Atender(c), ~AgregarEntrada(c),
             ~(BloquearEntrada(c) \/ Condenar(c) \/ DesbloquearEntrada(c))
      PROVE  UNCHANGED entradas
  BY <1>8 DEF Atender, BuscarTablaDeInsert, Insertar, Create, Drop, BuscarDirectorio,
     CrearDirectorio, AbrirMetadata, GuardarMetadata, AbrirParticion, PedirBloque,
     EscribirParticion, CrearHilo, BuscarEntrada, AbrirDirectorio, BorrarMetadata,
     LiberarArchivo, BorrarArchivo, BorrarDirectorio, BuscarEnMemtable, SoloCliente, EnDisco,
     Pasa, Revienta, listas
<1>9. ASSUME NEW i \in DOMAIN hilos, Compactacion(i)
      PROVE  \/ Igual
             \/ /\ Despertar(i) \/ (Compactar(i) /\ UNCHANGED cliente)
                /\ ~Revienta /\ hilos[i].entrada = e
             \/ FinalizarHilo(i) /\ e = EncontrarTabla(hilos[i].tabla)
  <2>1. CASE UNCHANGED entradas
    BY <1>1, <2>1
  <2>2. CASE ~UNCHANGED entradas
    <3>0. ~Revienta
      BY <2>2 DEF Revienta, listas
    <3>1. FinalizarHilo(i) => Igual \/ e = EncontrarTabla(hilos[i].tabla)
      BY FinalizarDa
    <3>2. LeerMetadata(i) \/ BuscarEntradaDeHilo(i) => UNCHANGED entradas
      BY DEF LeerMetadata, BuscarEntradaDeHilo, Revienta, listas
    <3>3. Despertar(i) => Igual \/ hilos[i].entrada = e
      BY <1>2, <3>0 DEF Despertar
    <3>4. Compactar(i) => Igual \/ hilos[i].entrada = e
      BY <1>1, <1>2, <3>0, CompactarDa
    <3>5. Compactar(i) => UNCHANGED cliente
      BY CompactarEs
    <3> QED BY <1>9, <2>2, <3>0, <3>1, <3>2, <3>3, <3>4, <3>5 DEF Compactacion
  <2> QED BY <2>1, <2>2
<1>10. Dumpear => UNCHANGED entradas
  BY DEF Dumpear, ComenzarDump, MirarTabla, BloquearTmp, CrearTmp, EscribirTmp, TerminarDump, SoloDump,
         Revienta, listas
<1>11. ASSUME NEW c, NEW op, NEW t, Pedir(c, op, t) PROVE UNCHANGED entradas
  BY <1>11 DEF Pedir, listas
<1>12. UNCHANGED vars \/ UsarLiberada => UNCHANGED entradas
  BY UsarLiberadaEs DEF vars, listas
<1> QED BY <1>1, <1>4, <1>5, <1>6, <1>7, <1>8, <1>9, <1>10, <1>11, <1>12 DEF Next

\* One holder at most, through each step, for an entry that was there.
LEMMA NextUnoLaTiene ==
  ASSUME TiposDeClientes, TiposDeListas, MutexInv, Next, ~Reiniciar, NEW e \in DOMAIN entradas
  PROVE  UnoLaTiene(e)'
<1>1. e \in Nat \ {0} /\ e # NULL
  BY EntradasSonNat DEF NULL, TiposDeListas
<1>2. UnoLaTiene(e)
  BY DEF MutexInv
<1> DEFINE D == SusDuenios(e)
           H == SusHilos(e)
<1>3. D' = {} /\ H' = {} => UnoLaTiene(e)'
  BY Zenon DEF UnoLaTiene
<1>4. ASSUME UNCHANGED cliente PROVE D' = D
  BY <1>4 DEF SusDuenios
<1>5. ASSUME UNCHANGED hilos PROVE H' = H
  BY <1>5 DEF SusHilos
<1>6. ASSUME NEW c \in Clientes, BloquearEntrada(c), cliente[c].entrada = e
      PROVE  UnoLaTiene(e)'
  <2>1. ~entradas[e].liberada /\ ~entradas[e].duenio /\ UNCHANGED hilos
        /\ entradas' = [entradas EXCEPT ![e].duenio = TRUE]
    BY <1>6 DEF BloquearEntrada, Pasa
  <2>2. D = {} /\ H = {}
    BY <1>2, <2>1 DEF UnoLaTiene
  <2>3. \A d \in D' : d = c
    <3> SUFFICES ASSUME NEW d \in D' PROVE d = c
      OBVIOUS
    <3>1. d \in Clientes
      BY DEF SusDuenios
    <3>2. cliente'[d] = cliente[d] \/ d = c
      BY <1>6, <3>1 DEF BloquearEntrada, Pasa, TiposDeClientes
    <3>3. cliente'[d] = cliente[d] => d \in D
      BY <3>1 DEF SusDuenios
    <3> QED BY <2>2, <3>2, <3>3
  <2>4. H' = {}
    BY <1>5, <2>1, <2>2
  <2>5. ~entradas'[e].liberada /\ entradas'[e].duenio
    <3>1. entradas'[e] = [entradas[e] EXCEPT !.duenio = TRUE]
      BY <2>1
    <3> QED BY <2>1, <3>1, EntradaDe DEF UnaEntrada
  <2> HIDE DEF D, H
  <2>6. /\ D' # {} \/ H' # {} => ~entradas'[e].liberada /\ entradas'[e].duenio
        /\ D' = {} \/ H' = {}
        /\ \A x, y \in D' : x = y
        /\ \A x, y \in H' : x = y
    BY <2>3, <2>4, <2>5
  <2> QED BY <2>6, Zenon DEF UnoLaTiene, D, H
<1>7. ASSUME NEW i \in DOMAIN hilos, Despertar(i), ~Revienta, hilos[i].entrada = e
      PROVE  UnoLaTiene(e)'
  <2>1. ~entradas[e].liberada /\ ~entradas[e].duenio /\ UNCHANGED cliente
        /\ entradas' = [entradas EXCEPT ![e].duenio = TRUE]
        /\ hilos' = [hilos EXCEPT ![i] = [hilos[i] EXCEPT !.pc = "decide"]]
    BY <1>1, <1>7 DEF Despertar, SoloHilo, Perdida
  <2>2. D = {} /\ H = {}
    BY <1>2, <2>1 DEF UnoLaTiene
  <2>3. \A j \in H' : j = i
    <3> SUFFICES ASSUME NEW j \in H' PROVE j = i
      OBVIOUS
    <3>1. j \in DOMAIN hilos
      BY <2>1 DEF SusHilos
    <3>2. hilos'[j] = hilos[j] \/ j = i
      BY <2>1, <3>1
    <3>3. hilos'[j] = hilos[j] => j \in H
      BY <3>1 DEF SusHilos
    <3> QED BY <2>2, <3>2, <3>3
  <2>4. D' = {}
    BY <1>4, <2>1, <2>2
  <2>5. ~entradas'[e].liberada /\ entradas'[e].duenio
    <3>1. entradas'[e] = [entradas[e] EXCEPT !.duenio = TRUE]
      BY <2>1
    <3> QED BY <2>1, <3>1, EntradaDe DEF UnaEntrada
  <2> HIDE DEF D, H
  <2>6. /\ D' # {} \/ H' # {} => ~entradas'[e].liberada /\ entradas'[e].duenio
        /\ D' = {} \/ H' = {}
        /\ \A x, y \in D' : x = y
        /\ \A x, y \in H' : x = y
    BY <2>3, <2>4, <2>5
  <2> QED BY <2>6, Zenon DEF UnoLaTiene, D, H
<1>8. ASSUME NEW c \in Clientes, DesbloquearEntrada(c), ~Revienta, cliente[c].entrada = e
      PROVE  UnoLaTiene(e)'
  <2>1. c \in D
    BY <1>8 DEF DesbloquearEntrada, SusDuenios, ConMutex
  <2>2. H = {} /\ \A d \in D : d = c
    BY <1>2, <2>1 DEF UnoLaTiene
  <2>3. UNCHANGED hilos /\ cliente' = [cliente EXCEPT ![c] = Libre]
    BY <1>8 DEF DesbloquearEntrada, Pasa
  <2>4. ASSUME NEW d \in D' PROVE FALSE
    <3>1. d \in Clientes /\ cliente'[d].pc \in ConMutex
      BY <2>4 DEF SusDuenios
    <3>2. d = c => cliente'[d] = Libre
      BY <2>3 DEF TiposDeClientes
    <3>3. d # c => cliente'[d] = cliente[d]
      BY <2>3, <3>1 DEF TiposDeClientes
    <3>4. d # c
      BY <3>1, <3>2 DEF Libre, ConMutex
    <3>5. d \in D
      BY <2>4, <3>1, <3>3, <3>4 DEF SusDuenios
    <3> QED BY <2>2, <3>4, <3>5
  <2>5. D' = {} /\ H' = {}
    BY <1>5, <2>2, <2>3, <2>4
  <2> QED BY <1>3, <2>5
<1>9. ASSUME NEW i \in H, UNCHANGED cliente, NEW g, g.pc \notin EnUso,
             hilos' = [hilos EXCEPT ![i] = g]
      PROVE  UnoLaTiene(e)'
  <2>1. D = {} /\ \A j \in H : j = i
    BY <1>2, <1>9 DEF UnoLaTiene
  <2>2. ASSUME NEW j \in H' PROVE FALSE
    <3>1. j \in DOMAIN hilos /\ hilos'[j].pc \in EnUso
      BY <1>9, <2>2 DEF SusHilos
    <3>2. hilos'[j] = IF j = i THEN g ELSE hilos[j]
      BY <1>9, <3>1
    <3>3. j # i
      BY <1>9, <3>1, <3>2
    <3>4. j \in H
      BY <2>2, <3>1, <3>2, <3>3 DEF SusHilos
    <3> QED BY <2>1, <3>3, <3>4
  <2>3. D' = {} /\ H' = {}
    BY <1>4, <1>9, <2>1, <2>2
  <2> QED BY <1>3, <2>3
<1>10. ASSUME NEW i \in DOMAIN hilos, FinalizarHilo(i), e = EncontrarTabla(hilos[i].tabla)
       PROVE  UnoLaTiene(e)'
  <2> DEFINE g == [hilos[i] EXCEPT !.pc = "fin"]
  <2>1. hilos[i].pc = "decide" /\ UNCHANGED cliente /\ hilos' = [hilos EXCEPT ![i] = g]
    BY <1>10 DEF FinalizarHilo, SoloHilo
  <2>2. PICK x : x = hilos[i].entrada
    OBVIOUS
  <2>3. x # NULL /\ x \in DOMAIN entradas
    BY <2>1, <2>2 DEF MutexInv, EnSuPaso, EnUso, TiposDeListas
  <2>4. i \in SusHilos(x)
    BY <2>1, <2>2 DEF SusHilos, EnUso
  <2>5. ~Perdida(x)
    BY <2>3, <2>4 DEF MutexInv, UnoLaTiene, Perdida
  <2>6. x = e
    BY <1>10, <2>2, <2>5 DEF MutexInv, Apunta
  <2>7. g.pc = "fin"
    BY HiloDe DEF UnHilo
  <2> HIDE DEF g
  <2>8. g.pc \notin EnUso
    BY <2>7 DEF EnUso
  <2> QED BY <1>9, <2>1, <2>4, <2>6, <2>8
<1>11. CASE /\ entradas'[e].duenio = entradas[e].duenio
            /\ entradas'[e].liberada = entradas[e].liberada
  <2>1. CASE D' \subseteq D /\ H' \subseteq H
    <3> HIDE DEF D, H
    <3>0. /\ D # {} \/ H # {} => ~entradas[e].liberada /\ entradas[e].duenio
          /\ D = {} \/ H = {}
          /\ \A x, y \in D : x = y
          /\ \A x, y \in H : x = y
      BY <1>2, Zenon DEF UnoLaTiene, D, H
    <3>1. /\ D' # {} \/ H' # {} => D # {} \/ H # {}
          /\ D' = {} \/ H' = {}
          /\ \A x, y \in D' : x = y
          /\ \A x, y \in H' : x = y
      BY <2>1, <3>0
    <3>2. D' # {} \/ H' # {} => ~entradas'[e].liberada /\ entradas'[e].duenio
      BY <1>11, <3>0, <3>1, Zenon
    <3> QED BY <3>1, <3>2, Zenon DEF UnoLaTiene, D, H
  <2>2. CASE \E c \in Clientes : BloquearEntrada(c) /\ cliente[c].entrada = e
    BY <1>6, <2>2
  <2>3. CASE \E i \in DOMAIN hilos : Despertar(i) /\ ~Revienta /\ hilos[i].entrada = e
    BY <1>7, <2>3
  <2>4. CASE /\ ~\E c \in Clientes : BloquearEntrada(c) /\ cliente[c].entrada = e
             /\ ~\E i \in DOMAIN hilos : Despertar(i) /\ ~Revienta /\ hilos[i].entrada = e
    <3>1. ASSUME NEW c \in D' PROVE c \in D
      <4>1. c \in Clientes
        BY DEF SusDuenios
      <4>2. c \in D \/ (BloquearEntrada(c) /\ cliente[c].entrada = e)
        BY <1>1, DueniosSiguen
      <4> QED BY <2>4, <4>1, <4>2
    <3>2. ASSUME NEW i \in H' PROVE i \in H
      <4>1. i \in H \/ (i \in DOMAIN hilos /\ Despertar(i) /\ ~Revienta /\ hilos[i].entrada = e)
        BY <1>1, HilosSiguen
      <4> QED BY <2>4, <4>1
    <3>3. D' \subseteq D
      <4> HIDE DEF D
      <4> QED BY <3>1
    <3>4. H' \subseteq H
      <4> HIDE DEF H
      <4> QED BY <3>2
    <3> QED BY <2>1, <3>3, <3>4
  <2> QED BY <2>2, <2>3, <2>4
<1>12. ASSUME NEW i \in DOMAIN hilos, Compactar(i), UNCHANGED cliente, ~Revienta,
              hilos[i].entrada = e
       PROVE  UnoLaTiene(e)'
  <2>1. PICK g : /\ hilos' = [hilos EXCEPT ![i] = g] /\ hilos[i].pc \in EnUso
                 /\ UNCHANGED entradas \/ g.pc = "duerme"
    BY <1>12, CompactarDa DEF EnUso
  <2>2. i \in H
    BY <1>12, <2>1 DEF SusHilos
  <2>3. CASE UNCHANGED entradas
    BY <1>11, <2>3
  <2>4. CASE g.pc = "duerme"
    <3>1. g.pc \notin EnUso
      BY <2>4 DEF EnUso
    <3> QED BY <1>9, <1>12, <2>1, <2>2, <3>1
  <2> QED BY <2>1, <2>3, <2>4
<1> QED BY <1>6, <1>7, <1>8, <1>10, <1>11, <1>12, MutexCambia

\* And nobody has the one that is added.
LEMMA AltaUnoLaTiene ==
  ASSUME TiposDeClientes, TiposDeListas, NEW c \in Clientes, AgregarEntrada(c),
         NEW e \in DOMAIN entradas', e \notin DOMAIN entradas
  PROVE  UnoLaTiene(e)'
<1>1. e \in Nat \ {0} /\ e # NULL
  BY AgregarDa DEF NULL
<1>2. ASSUME NEW d \in SusDuenios(e)' PROVE FALSE
  <2>1. d \in Clientes /\ cliente'[d].entrada = e
    BY <1>2 DEF SusDuenios
  <2>2. cliente'[d].entrada = cliente[d].entrada
    <3> DEFINE g == [cliente[c] EXCEPT !.pc = "crearHilo"]
    <3>1. cliente' = [cliente EXCEPT ![c] = g]
      BY DEF AgregarEntrada, Pasa
    <3>2. g.entrada = cliente[c].entrada
      BY DEF TiposDeClientes, Pedido
    <3> HIDE DEF g
    <3> QED BY <2>1, <3>1, <3>2 DEF TiposDeClientes
  <2> QED BY <1>1, <2>1, <2>2 DEF TiposDeListas
<1>3. ASSUME NEW i \in SusHilos(e)' PROVE FALSE
  <2>1. i \in DOMAIN hilos /\ hilos[i].entrada = e
    BY <1>3 DEF SusHilos, AgregarEntrada, Pasa
  <2> QED BY <1>1, <2>1 DEF TiposDeListas
<1>4. SusDuenios(e)' = {} /\ SusHilos(e)' = {}
  BY <1>2, <1>3
<1> QED BY <1>4, Zenon DEF UnoLaTiene

LEMMA NextMutex ==
  ASSUME TiposDeClientes, TiposDeListas, MutexInv, Next, ~Reiniciar
  PROVE  MutexInv'
<1>1. \A c \in Clientes : Apunta(cliente[c].entrada, cliente[c].tabla)'
  BY NextApuntaCliente DEF MutexInv
<1>2. \A i \in DOMAIN hilos' : Apunta(hilos[i].entrada, hilos[i].tabla)' /\ EnSuPaso(hilos'[i])
  BY NextApuntaHilo DEF MutexInv
<1>3. ASSUME NEW e \in DOMAIN entradas' PROVE UnoLaTiene(e)'
  <2>1. CASE e \in DOMAIN entradas
    BY <2>1, NextUnoLaTiene
  <2>2. CASE e \notin DOMAIN entradas
    <3>1. PICK c \in Clientes : AgregarEntrada(c)
      BY <2>2, PasosDeListas, FinalizarDa DEF Marca
    <3> QED BY <2>2, <3>1, AltaUnoLaTiene
  <2> QED BY <2>1, <2>2
<1> QED BY <1>1, <1>2, <1>3 DEF MutexInv

LEMMA InitMutex == Init => MutexInv
<1> SUFFICES ASSUME Init PROVE MutexInv
  OBVIOUS
<1>1. DOMAIN hilos = {} /\ DOMAIN entradas = {}
  BY DEF Init
<1>2. \A c \in Clientes : cliente[c].entrada = NULL
  BY DEF Init, Libre
<1> QED BY <1>1, <1>2 DEF MutexInv, Apunta, Perdida

LEMMA ReiniciarMutex == ASSUME TiposDelDisco, Reiniciar PROVE MutexInv'
<1>1. \A c \in Clientes : cliente'[c] = Libre
  BY ReiniciarDa
<1>2. ASSUME NEW i \in DOMAIN hilos' PROVE \E t : hilos'[i] = Hilo(t)
  <2> DEFINE ts == SetToSeq({t \in Tablas : dir'[t] # 0})
  <2>1. hilos' = [j \in DOMAIN ts |-> Hilo(ts[j])]
    BY DEF Reiniciar, Levantado
  <2> HIDE DEF ts
  <2> QED BY <1>2, <2>1
<1>3. \A c \in Clientes : Apunta(cliente[c].entrada, cliente[c].tabla)'
  <2>1. Libre.entrada = NULL /\ \A t : Apunta(NULL, t)'
    BY DEF Apunta, Perdida, Libre
  <2>2. \A c \in Clientes : cliente'[c].entrada = NULL
    BY <1>1, <2>1
  <2> QED BY <2>1, <2>2
<1>4. \A i \in DOMAIN hilos' : Apunta(hilos[i].entrada, hilos[i].tabla)' /\ EnSuPaso(hilos'[i])
  BY <1>2 DEF Apunta, Perdida, Hilo, EnSuPaso, EnUso
<1>5. ASSUME NEW e \in DOMAIN entradas' PROVE UnoLaTiene(e)'
  <2>1. SusDuenios(e)' = {}
    BY <1>1, LibreEsPedido DEF SusDuenios, ConMutex
  <2>2. SusHilos(e)' = {}
    BY <1>2 DEF SusHilos, Hilo, EnUso
  <2> QED BY <2>1, <2>2, Zenon DEF UnoLaTiene
<1> QED BY <1>3, <1>4, <1>5 DEF MutexInv

\* Each mutex has one holder at most, and those who wait for a table wait for the
\* same one.
LEMMA SpecMutex == Spec => []MutexInv
<1>1. Tipos /\ MutexInv /\ [Next]_vars => MutexInv'
  <2> SUFFICES ASSUME Tipos, MutexInv, [Next]_vars PROVE MutexInv'
    OBVIOUS
  <2>1. CASE UNCHANGED vars
    <3>1. UNCHANGED listas /\ UNCHANGED <<entradas, tablasParaCompactaciones, hilos, cliente>>
      BY <2>1 DEF vars, listas
    <3>2. ASSUME NEW x, NEW t PROVE Apunta(x, t)' <=> Apunta(x, t)
      BY <3>1, EncontrarIgual DEF Apunta, Perdida
    <3>3. ASSUME NEW e PROVE SusDuenios(e)' = SusDuenios(e) /\ SusHilos(e)' = SusHilos(e)
      BY <3>1 DEF SusDuenios, SusHilos
    <3>4. ASSUME NEW e \in DOMAIN entradas PROVE UnoLaTiene(e)'
      <4>1. UnoLaTiene(e)
        BY DEF MutexInv
      <4> QED BY <3>1, <3>3, <4>1, Zenon DEF UnoLaTiene
    <3>5. \A c \in Clientes : Apunta(cliente[c].entrada, cliente[c].tabla)'
      BY <3>1, <3>2 DEF MutexInv
    <3>6. \A i \in DOMAIN hilos : Apunta(hilos[i].entrada, hilos[i].tabla)' /\ EnSuPaso(hilos[i])
      BY <3>1, <3>2 DEF MutexInv
    <3> QED BY <3>1, <3>4, <3>5, <3>6 DEF MutexInv
  <2>2. CASE Next /\ ~Reiniciar
    BY <2>2, NextMutex DEF Tipos
  <2>3. CASE Reiniciar
    BY <2>3, ReiniciarMutex DEF Tipos
  <2> QED BY <2>1, <2>2, <2>3
<1> QED BY <1>1, InitMutex, SpecTipos, PTL DEF Spec
------------------------------------------------------------------------------
(* Blocks.                                                                 *)

ArchivosDe(c) ==
  \/ AbrirParticion(c) /\ ~UNCHANGED archivos
  \/ EscribirParticion(c) /\ ~UNCHANGED archivos
  \/ BorrarArchivo(c)

Compacta(i) == Compactar(i) /\ ~Revienta

\* Who changes the files, and their blocks.
LEMMA SoloEllos ==
  ASSUME Next, ~Reiniciar
  PROVE  /\ \/ UNCHANGED archivos
            \/ \E c \in Clientes : ArchivosDe(c)
            \/ \E i \in DOMAIN hilos : Compacta(i)
            \/ CrearTmp \/ EscribirTmp
         /\ \/ UNCHANGED bitmap
            \/ \E c \in Clientes : PedirBloque(c) \/ LiberarArchivo(c)
            \/ \E i \in DOMAIN hilos : Compacta(i)
            \/ EscribirTmp
         /\ UNCHANGED dump \/ Dumpear \/ (DumpColgado /\ dump' = [dump EXCEPT !.pc = "crearTmp"])
<1>1. ASSUME NEW c \in Clientes, Atender(c)
      PROVE  /\ UNCHANGED archivos \/ ArchivosDe(c)
             /\ UNCHANGED bitmap \/ PedirBloque(c) \/ LiberarArchivo(c)
             /\ UNCHANGED dump
  <2> USE DEF SoloCliente, EnDisco, Pasa, Revienta, disco
  <2> DEFINE Quieto == UNCHANGED <<archivos, bitmap, dump>>
  <2>1. BuscarTablaDeInsert(c) \/ Insertar(c) \/ BuscarDirectorio(c) \/ CrearDirectorio(c) => Quieto
    BY DEF BuscarTablaDeInsert, Insertar, BuscarDirectorio, CrearDirectorio
  <2>2. AgregarEntrada(c) \/ CrearHilo(c) \/ BuscarEntrada(c) \/ BloquearEntrada(c) => Quieto
    BY DEF AgregarEntrada, CrearHilo, BuscarEntrada, BloquearEntrada
  <2>3. AbrirDirectorio(c) \/ BorrarDirectorio(c) \/ Condenar(c) \/ BuscarEnMemtable(c)
        \/ DesbloquearEntrada(c) => Quieto
    BY DEF AbrirDirectorio, BorrarDirectorio, Condenar, BuscarEnMemtable, DesbloquearEntrada
  <2>4. AbrirMetadata(c) \/ GuardarMetadata(c) \/ BorrarMetadata(c) => Quieto
    BY DEF AbrirMetadata, GuardarMetadata, BorrarMetadata
  <2>5. AbrirParticion(c) \/ EscribirParticion(c) \/ BorrarArchivo(c)
          => UNCHANGED <<bitmap, dump>>
    BY DEF AbrirParticion, EscribirParticion, BorrarArchivo
  <2>6. PedirBloque(c) \/ LiberarArchivo(c) => UNCHANGED <<archivos, dump>>
    BY DEF PedirBloque, LiberarArchivo
  <2> QED BY <1>1, <2>1, <2>2, <2>3, <2>4, <2>5, <2>6 DEF Atender, Create, Drop, ArchivosDe
<1>2. ASSUME NEW i \in DOMAIN hilos, Compactacion(i)
      PROVE  /\ UNCHANGED archivos \/ Compacta(i)
             /\ UNCHANGED bitmap \/ Compacta(i)
             /\ UNCHANGED dump
  BY <1>2, CompactarEs DEF Compactacion, LeerMetadata, BuscarEntradaDeHilo, Despertar, FinalizarHilo,
              Compacta, SoloHilo, Revienta, disco
<1>3. Dumpear => /\ UNCHANGED archivos \/ CrearTmp \/ EscribirTmp
                 /\ UNCHANGED bitmap \/ EscribirTmp
  BY DEF Dumpear, ComenzarDump, MirarTabla, BloquearTmp, CrearTmp, EscribirTmp, TerminarDump, SoloDump,
         Revienta, disco
<1>4. ASSUME NEW c, NEW op, NEW t, Pedir(c, op, t)
      PROVE  UNCHANGED <<archivos, bitmap, dump>>
  BY <1>4 DEF Pedir, disco
<1>5. UNCHANGED vars => UNCHANGED <<archivos, bitmap, dump>>
  BY DEF vars, disco
<1> QED BY <1>1, <1>2, <1>3, <1>4, <1>5, UsarLiberadaEs DEF Next

\* A CREATE or a DROP, and the table it is of.
LEMMA OcupadoDe ==
  ASSUME TiposDeClientes, NEW c \in Clientes
  PROVE  /\ cliente[c].pc \in PasosDeCreate \cup PasosDeDrop =>
              cliente[c].tabla \in Tablas /\ Ocupado(c, cliente[c].tabla)
         /\ \A t : Ocupado(c, t) => /\ cliente[c].pc \in PasosDeCreate \cup PasosDeDrop
                                    /\ cliente[c].tabla = t /\ t \in Tablas
<1>1. cliente[c].pc \in PasosDeCreate \cup PasosDeDrop => cliente[c].pc # "libre"
  BY DEF PasosDeCreate, PasosDeDrop
<1> QED BY <1>1, LugarDe DEF TiposDeClientes, EnSuLugar, Ocupado

LEMMA NextUnoPorTabla ==
  ASSUME Tipos, Tipos', UnoPorTabla, Next, ~Reiniciar, ~choque'
  PROVE  UnoPorTabla'
<1> SUFFICES ASSUME NEW c \in Clientes, NEW d \in Clientes, NEW t \in Tablas,
                    Ocupado(c, t)', Ocupado(d, t)', c # d
             PROVE  FALSE
  BY DEF UnoPorTabla
<1>1. \A x \in Clientes : Ocupado(x, t)' =>
        \/ Ocupado(x, t)
        \/ /\ cliente'[x] # cliente[x]
           /\ \A y \in Clientes \ {x} : ~Ocupado(y, t) /\ cliente'[y] = cliente[y]
  <2> SUFFICES ASSUME NEW x \in Clientes, Ocupado(x, t)', ~Ocupado(x, t)
               PROVE  /\ cliente'[x] # cliente[x]
                      /\ \A y \in Clientes \ {x} : ~Ocupado(y, t) /\ cliente'[y] = cliente[y]
    OBVIOUS
  <2>1. cliente'[x] # cliente[x]
    BY DEF Ocupado
  <2>2. ~Sigue(cliente[x], cliente'[x])
    BY LibreEsPedido DEF Sigue, Ocupado
  <2>3. PICK u \in Tablas, op \in {"INSERT", "CREATE", "DROP"} :
          /\ Pedir(x, op, u)
          /\ cliente'[x] = [Libre EXCEPT !.pc = op, !.op = op, !.tabla = u]
    BY <2>1, <2>2, ClienteSigue DEF Tipos
  <2>4. cliente'[x].op = op /\ cliente'[x].tabla = u
    BY <2>3 DEF Libre
  <2>5. op # "INSERT" /\ u = t
    BY <2>4 DEF Ocupado
  <2>6. \A y \in Clientes : ~Ocupado(y, t)
    BY <2>3, <2>5 DEF Pedir
  <2>7. \A y \in Clientes \ {x} : cliente'[y] = cliente[y]
    BY <2>3 DEF Pedir, Tipos, TiposDeClientes
  <2> QED BY <2>1, <2>6, <2>7
<1>2. \A y \in Clientes : cliente'[y] = cliente[y] => (Ocupado(y, t)' <=> Ocupado(y, t))
  BY DEF Ocupado
<1> QED BY <1>1, <1>2 DEF UnoPorTabla

LEMMA AbrirDa ==
  ASSUME Tipos, NEW c \in Clientes, AbrirParticion(c), ~UNCHANGED archivos
  PROVE  LET r == cliente[c] IN
         /\ r.pc = "abrirParticion" /\ r.tabla \in Tablas /\ r.nombre \in 1..Particiones
         /\ Escribe(r.tabla, r.nombre, SinBloques)
         /\ cliente' = [cliente EXCEPT ![c] = [r EXCEPT !.pc = "pedirBloque"]]
         /\ UNCHANGED <<bitmap, hilos, dump>>
<1>1. cliente[c].pc = "abrirParticion"
  BY DEF AbrirParticion
<1>2. cliente[c].nombre \in 1..Particiones /\ cliente[c].tabla \in Tablas
  BY <1>1, LugarDe DEF Tipos, TiposDeClientes, EnSuLugar
<1> QED BY <1>1, <1>2 DEF AbrirParticion, EnDisco, Pasa, Revienta, disco

LEMMA EscribirDa ==
  ASSUME Tipos, NEW c \in Clientes, EscribirParticion(c), ~Revienta
  PROVE  LET r == cliente[c] IN
         /\ r.pc = "escribirParticion" /\ r.tabla \in Tablas /\ r.nombre \in 1..Particiones
         /\ r.bloque \in Bloques
         /\ Escribe(r.tabla, r.nombre, ConBloques({r.bloque}))
         /\ cliente' = [cliente EXCEPT ![c] = OtraParticion(r)]
         /\ UNCHANGED <<bitmap, hilos, dump>>
<1>1. cliente[c].pc = "escribirParticion"
  BY DEF EscribirParticion
<1>2. cliente[c].nombre \in 1..Particiones /\ cliente[c].tabla \in Tablas
  BY <1>1, LugarDe DEF Tipos, TiposDeClientes, EnSuLugar
<1>3. cliente[c].bloque \in Bloques
  BY <1>1, LugarDe DEF Tipos, Pedido
<1> QED BY <1>1, <1>2, <1>3 DEF EscribirParticion, EnDisco, Pasa, Revienta, disco

LEMMA BorrarDa ==
  ASSUME Tipos, NEW c \in Clientes, BorrarArchivo(c)
  PROVE  LET r == cliente[c] IN
         /\ r.pc = "remove" /\ r.tabla \in Tablas
         /\ archivos' = [archivos EXCEPT ![r.tabla] = Restrict(@, DOMAIN @ \ {r.nombre})]
         /\ cliente' = [cliente EXCEPT ![c] = [r EXCEPT !.pc = "readdir", !.debe = @ \ {r.nombre}]]
         /\ UNCHANGED <<bitmap, hilos, dump>>
<1>1. cliente[c].pc = "remove"
  BY DEF BorrarArchivo
<1>2. cliente[c].tabla \in Tablas
  BY <1>1, LugarDe DEF Tipos
<1> QED BY <1>1, <1>2 DEF BorrarArchivo, EnDisco, Pasa

\* A client writes only in the directory of its own table.
LEMMA SoloSuTabla ==
  ASSUME Tipos, NEW c \in Clientes, ArchivosDe(c)
  PROVE  /\ cliente[c].tabla \in Tablas /\ Ocupado(c, cliente[c].tabla)
         /\ cliente'[c] # cliente[c]
         /\ \A u \in Tablas : u # cliente[c].tabla => archivos'[u] = archivos[u]
<1> DEFINE r == cliente[c]
<1>0. \A s : cliente' = [cliente EXCEPT ![c] = s] => cliente'[c] = s
  BY DEF Tipos, TiposDeClientes
<1>1. r \in Pedido
  BY LugarDe DEF Tipos
<1>2. CASE AbrirParticion(c) /\ ~UNCHANGED archivos
  <2>1. r.pc = "abrirParticion" /\ cliente'[c] = [r EXCEPT !.pc = "pedirBloque"]
    BY <1>0, <1>2, AbrirDa
  <2>2. cliente'[c].pc = "pedirBloque"
    BY <1>1, <2>1 DEF Pedido
  <2> QED BY <1>2, <2>1, <2>2, AbrirDa, EscribeDa, OcupadoDe DEF Tipos, PasosDeCreate
<1>3. CASE EscribirParticion(c) /\ ~UNCHANGED archivos
  <2>0. ~Revienta
    BY <1>3 DEF Revienta, disco
  <2>1. r.pc = "escribirParticion" /\ cliente'[c] = OtraParticion(r)
    BY <1>0, <1>3, <2>0, EscribirDa
  <2>2. cliente'[c].pc # "escribirParticion"
    BY <1>1, <2>1 DEF Pedido, OtraParticion
  <2> QED BY <1>3, <2>0, <2>1, <2>2, EscribirDa, EscribeDa, OcupadoDe DEF Tipos, PasosDeCreate
<1>4. CASE BorrarArchivo(c)
  <2>1. r.pc = "remove" /\ cliente'[c] = [r EXCEPT !.pc = "readdir", !.debe = @ \ {r.nombre}]
    BY <1>0, <1>4, BorrarDa
  <2>2. cliente'[c].pc = "readdir"
    BY <1>1, <2>1 DEF Pedido
  <2>3. /\ r.tabla \in Tablas
        /\ archivos' = [archivos EXCEPT ![r.tabla] = Restrict(@, DOMAIN @ \ {r.nombre})]
    BY <1>4, BorrarDa
  <2>4. \A u \in Tablas : u # r.tabla => archivos'[u] = archivos[u]
    BY <2>3, QuitaDa DEF Tipos
  <2> QED BY <2>1, <2>2, <2>3, <2>4, OcupadoDe DEF Tipos, PasosDeDrop
<1> QED BY <1>2, <1>3, <1>4 DEF ArchivosDe

\* What the dump does to the files: only to the .tmp of one table.
LEMMA TmpDa ==
  ASSUME Tipos, CrearTmp \/ EscribirTmp, ~UNCHANGED archivos
  PROVE  LET t == dump.tabla IN
         /\ t \in Tablas
         /\ \A u \in Tablas : u # t => archivos'[u] = archivos[u]
         /\ DOMAIN archivos'[t] = DOMAIN archivos[t] \cup {Tmp}
         /\ \A m \in DOMAIN archivos[t] : m # Tmp => archivos'[t][m] = archivos[t][m]
         /\ dump.pc \in {"crearTmp", "escribirTmp"}
<1> DEFINE t == dump.tabla
<1>1. t \in Tablas /\ dump.pc \in {"crearTmp", "escribirTmp"}
  BY DEF CrearTmp, EscribirTmp, Tipos, TiposDelDump
<1>2. \E f : Escribe(t, Tmp, f)
  BY DEF CrearTmp, EscribirTmp
<1> QED BY <1>1, <1>2, EscribeDa DEF Tipos

Sano ==
  /\ UnoPorTabla
  /\ \A c \in Clientes : CreateInv(c) /\ DropInv(c)
  /\ DumpInv
  /\ \A i \in DOMAIN hilos : CompactaInv(i)
  /\ \A t \in Tablas : TmpCInv(t)
  /\ \A b \in Bloques : UnDuenio(b)

\* While a thread has the mutex of its table, no DROP has it, and the other threads of
\* that table have nothing of a compaction.
LEMMA SinCompactar ==
  ASSUME MutexInv, NEW j \in DOMAIN hilos, hilos[j].pc \notin EnUso \ {"decide"}
  PROVE  hilos[j].faltan = {} /\ hilos[j].libera = {} /\ hilos[j].bloques = {}
BY DEF MutexInv, EnSuPaso, EnUso

LEMMA EnExclusiva ==
  ASSUME Tipos, MutexInv, \A c \in Clientes : DropInv(c),
         NEW i \in DOMAIN hilos, hilos[i].pc \in EnUso
  PROVE  /\ \A c \in Clientes : cliente[c].tabla = hilos[i].tabla => cliente[c].pc \notin ConMutex
         /\ \A j \in DOMAIN hilos : j # i /\ hilos[j].tabla = hilos[i].tabla =>
              /\ hilos[j].pc \notin EnUso
              /\ hilos[j].faltan = {} /\ hilos[j].libera = {} /\ hilos[j].bloques = {}
<1> DEFINE e == hilos[i].entrada
           t == hilos[i].tabla
<1>1. e # NULL /\ e \in DOMAIN entradas
  BY HiloDe DEF MutexInv, EnSuPaso, Tipos
<1>2. i \in SusHilos(e)
  BY DEF SusHilos
<1>3. UnoLaTiene(e)
  BY <1>1 DEF MutexInv
<1>4. ~Perdida(e)
  BY <1>1, <1>2, <1>3 DEF UnoLaTiene, Perdida
<1>5. e = EncontrarTabla(t)
  BY <1>4 DEF MutexInv, Apunta
<1>6. ASSUME NEW c \in Clientes, cliente[c].tabla = t, cliente[c].pc \in ConMutex PROVE FALSE
  <2> DEFINE x == cliente[c].entrada
  <2>1. x # NULL
    BY <1>1, <1>5, <1>6 DEF DropInv
  <2>2. x \in DOMAIN entradas /\ c \in SusDuenios(x)
    BY <1>6, <2>1 DEF Tipos, TiposDeListas, SusDuenios
  <2>3. ~Perdida(x)
    BY <2>1, <2>2 DEF MutexInv, UnoLaTiene, Perdida
  <2>4. x = e
    BY <1>5, <1>6, <2>3 DEF MutexInv, Apunta
  <2> QED BY <1>2, <1>3, <2>2, <2>4 DEF UnoLaTiene
<1>7. ASSUME NEW j \in DOMAIN hilos, j # i, hilos[j].tabla = t, hilos[j].pc \in EnUso PROVE FALSE
  <2> DEFINE x == hilos[j].entrada
  <2>1. x # NULL /\ x \in DOMAIN entradas
    BY <1>7, HiloDe DEF MutexInv, EnSuPaso, Tipos
  <2>2. j \in SusHilos(x)
    BY <1>7 DEF SusHilos
  <2>3. ~Perdida(x)
    BY <2>1, <2>2 DEF MutexInv, UnoLaTiene, Perdida
  <2>4. x = e
    BY <1>5, <1>7, <2>3 DEF MutexInv, Apunta
  <2> QED BY <1>2, <1>3, <1>7, <2>2, <2>4 DEF UnoLaTiene
<1> QED BY <1>6, <1>7, SinCompactar

\* A thread that does not compact keeps what it has, and a new one has nothing.
LEMMA HiloMantiene ==
  ASSUME TiposDeClientes, TiposDeListas, Next, ~Reiniciar, \A i \in DOMAIN hilos : ~Compacta(i),
         NEW j \in DOMAIN hilos'
  PROVE  \/ /\ j \in DOMAIN hilos /\ hilos'[j].tabla = hilos[j].tabla
            /\ hilos'[j].faltan = hilos[j].faltan /\ hilos'[j].libera = hilos[j].libera
            /\ hilos'[j].bloques = hilos[j].bloques
            /\ hilos'[j].pc = hilos[j].pc \/ hilos'[j].pc \notin EnUso \ {"decide"}
         \/ /\ j \notin DOMAIN hilos /\ hilos'[j].pc \notin EnUso
            /\ hilos'[j].faltan = {} /\ hilos'[j].libera = {} /\ hilos'[j].bloques = {}
<1> DEFINE h == hilos[j]
           Bien(g) == /\ g.tabla = h.tabla /\ g.faltan = h.faltan /\ g.libera = h.libera
                      /\ g.bloques = h.bloques
                      /\ g.pc \notin EnUso \ {"decide"}
<1>1. CASE j \notin DOMAIN hilos /\ \E t \in Tablas : hilos'[j] = Hilo(t)
  BY <1>1 DEF Hilo, EnUso
<1>2. ASSUME j \in DOMAIN hilos, Compactacion(j), ~Revienta PROVE Bien(hilos'[j])
  <2>1. h \in UnHilo
    BY <1>2, HiloDe
  <2>2. \A g : SoloHilo(j, g) => hilos'[j] = g
    BY <1>2 DEF TiposDeListas, SoloHilo
  <2>3. CASE LeerMetadata(j)
    <3> DEFINE g == [h EXCEPT !.pc = "buscar"]
    <3>1. SoloHilo(j, g)
      BY <1>2, <2>3 DEF LeerMetadata
    <3>2. Bien(g)
      BY <2>1 DEF UnHilo, EnUso
    <3> QED BY <2>2, <3>1, <3>2
  <2>4. CASE BuscarEntradaDeHilo(j)
    <3> DEFINE e == EncontrarTabla(h.tabla)
               g == [h EXCEPT !.pc = "duerme", !.entrada = e]
    <3>1. SoloHilo(j, g)
      BY <2>4 DEF BuscarEntradaDeHilo
    <3> HIDE DEF e
    <3>2. Bien(g)
      BY <2>1 DEF UnHilo, EnUso
    <3> QED BY <2>2, <3>1, <3>2
  <2>5. CASE Despertar(j)
    <3> DEFINE g == [h EXCEPT !.pc = "decide"]
    <3>1. SoloHilo(j, g)
      BY <1>2, <2>5 DEF Despertar
    <3>2. Bien(g)
      BY <2>1 DEF UnHilo, EnUso
    <3> QED BY <2>2, <3>1, <3>2
  <2>6. CASE FinalizarHilo(j)
    <3> DEFINE g == [h EXCEPT !.pc = "fin"]
    <3>1. SoloHilo(j, g)
      BY <2>6 DEF FinalizarHilo
    <3>2. Bien(g)
      BY <2>1 DEF UnHilo, EnUso
    <3> QED BY <2>2, <3>1, <3>2
  <2>7. ~Compactar(j)
    BY <1>2 DEF Compacta
  <2> HIDE DEF Bien
  <2> QED BY <1>2, <2>3, <2>4, <2>5, <2>6, <2>7 DEF Compactacion
<1> QED BY <1>1, <1>2, HiloSigue

LEMMA HilosQuedan ==
  ASSUME TiposDeClientes, TiposDeListas, Next, ~Reiniciar
  PROVE  DOMAIN hilos \subseteq DOMAIN hilos'
<1>1. hilos \in Seq(UnHilo)
  BY DEF TiposDeListas
<1>2. ASSUME NEW c \in Clientes, CrearHilo(c), hilos' = Append(hilos, Hilo(cliente[c].tabla))
      PROVE  DOMAIN hilos \subseteq DOMAIN hilos'
  <2> DEFINE h == Hilo(cliente[c].tabla)
  <2>1. cliente[c].tabla \in Tablas
    BY <1>2, LugarDe DEF CrearHilo
  <2>2. h \in UnHilo
    BY <2>1 DEF Hilo, UnHilo, NULL
  <2> HIDE DEF h
  <2>3. hilos' = Append(hilos, h)
    BY <1>2 DEF h
  <2> QED BY <1>1, <2>2, <2>3
<1> QED BY <1>1, <1>2, PasosDeHilos

LEMMA HilosIguales ==
  ASSUME TiposDeClientes, TiposDeListas, Next, ~Reiniciar, \A i \in DOMAIN hilos : ~Compacta(i)
  PROVE  /\ \A b \in Bloques : EnHiloDe(b)' = EnHiloDe(b)
         /\ \A t \in Tablas, n \in Nombres : Reescrito(t, n)' <=> Reescrito(t, n)
<1>1. ASSUME NEW j \in DOMAIN hilos'
      PROVE  \/ /\ j \in DOMAIN hilos /\ hilos'[j].tabla = hilos[j].tabla
                /\ hilos'[j].faltan = hilos[j].faltan /\ hilos'[j].libera = hilos[j].libera
                /\ hilos'[j].bloques = hilos[j].bloques
             \/ /\ j \notin DOMAIN hilos
                /\ hilos'[j].faltan = {} /\ hilos'[j].bloques = {}
  BY HiloMantiene
<1>2. DOMAIN hilos \subseteq DOMAIN hilos'
  BY HilosQuedan
<1>3. ASSUME NEW b \in Bloques PROVE EnHiloDe(b)' = EnHiloDe(b)
  BY <1>1, <1>2 DEF EnHiloDe
<1>4. ASSUME NEW t \in Tablas, NEW n \in Nombres PROVE Reescrito(t, n)' <=> Reescrito(t, n)
  BY <1>1, <1>2 DEF Reescrito
<1> QED BY <1>3, <1>4

\* What each step of compactar does to the thread, the files and the bitmap.
Cambia(i, g) ==
  /\ hilos' = [hilos EXCEPT ![i] = g] /\ g \in UnHilo /\ g.tabla = hilos[i].tabla
  /\ UNCHANGED <<cliente, dump>>
SuArchivo(i, n) == archivos[hilos[i].tabla][n]
SusArchivos(i) == DOMAIN archivos[hilos[i].tabla]

LEMMA Cambiado ==
  ASSUME TiposDeListas, NEW i \in DOMAIN hilos, NEW g \in UnHilo, SoloHilo(i, g),
         g.tabla = hilos[i].tabla
  PROVE  Cambia(i, g) /\ hilos'[i] = g
BY DEF Cambia, SoloHilo, TiposDeListas

LEMMA RenombrarDa ==
  ASSUME Tipos, MutexInv, NEW i \in DOMAIN hilos, Renombrar(i), ~Revienta
  PROVE  /\ hilos[i].pc = "decide"
         /\ hilos[i].faltan = {} /\ hilos[i].libera = {} /\ hilos[i].bloques = {}
         /\ UNCHANGED bitmap
         /\ archivos' = [archivos EXCEPT ![hilos[i].tabla] = Renombrados(archivos[hilos[i].tabla])]
         /\ \E g : /\ Cambia(i, g) /\ g.bloques = {}
                   /\ \/ /\ g.faltan = {} /\ g.libera = {} /\ g.pc = "duerme"
                         /\ TmpC \in DOMAIN Renombrados(archivos[hilos[i].tabla]) =>
                              /\ Renombrados(archivos[hilos[i].tabla])[TmpC].completo
                              /\ Renombrados(archivos[hilos[i].tabla])[TmpC].bloques = {}
                      \/ /\ g.libera = g.faltan \cup {TmpC}
                         /\ \A n \in g.libera :
                              /\ n \in DOMAIN Renombrados(archivos[hilos[i].tabla])
                              /\ Renombrados(archivos[hilos[i].tabla])[n].completo
<1> DEFINE h == hilos[i]
           fs == Renombrados(archivos[h.tabla])
<1> HIDE DEF fs
<1>1. h \in UnHilo
  BY HiloDe DEF Tipos
<1>2. h.pc = "decide" /\ h.faltan = {} /\ h.libera = {} /\ h.bloques = {}
  BY SinCompactar DEF Renombrar
<1>3. CASE /\ TmpC \in DOMAIN fs => fs[TmpC].completo /\ fs[TmpC].bloques = {}
           /\ archivos' = [archivos EXCEPT ![h.tabla] = fs]
           /\ TerminarDeCompactar(i, h)
           /\ UNCHANGED bitmap
  <2> DEFINE g == [h EXCEPT !.pc = "duerme", !.faltan = {}, !.bloques = {}]
  <2>1. /\ g \in UnHilo /\ g.tabla = h.tabla /\ g.bloques = {} /\ g.faltan = {}
        /\ g.libera = {} /\ g.pc = "duerme"
    BY <1>1, <1>2 DEF UnHilo
  <2>2. SoloHilo(i, g)
    BY <1>3 DEF TerminarDeCompactar
  <2> HIDE DEF g
  <2>3. Cambia(i, g)
    BY <2>1, <2>2, Cambiado DEF Tipos
  <2> QED BY <1>2, <1>3, <2>1, <2>3 DEF fs
<1>4. ASSUME NEW ps \in SUBSET (1..Particiones), TmpC \in DOMAIN fs, fs[TmpC].completo,
             \A n \in ps : n \in DOMAIN fs /\ fs[n].completo,
             archivos' = [archivos EXCEPT ![h.tabla] = fs],
             SoloHilo(i, [h EXCEPT !.pc = "bloquea", !.faltan = ps, !.libera = ps \cup {TmpC}]),
             UNCHANGED bitmap
      PROVE  \E g : /\ Cambia(i, g) /\ g.bloques = {} /\ g.libera = g.faltan \cup {TmpC}
                    /\ \A n \in g.libera : n \in DOMAIN fs /\ fs[n].completo
  <2> DEFINE L == ps \cup {TmpC}
             g == [h EXCEPT !.pc = "bloquea", !.faltan = ps, !.libera = L]
  <2>1. L \in SUBSET Nombres
    BY ParticionesAssumption DEF Nombres, TmpC
  <2>2. \A n \in L : n \in DOMAIN fs /\ fs[n].completo
    BY <1>4
  <2>3. SoloHilo(i, g)
    BY <1>4
  <2>4. L = ps \cup {TmpC}
    OBVIOUS
  <2> HIDE DEF L
  <2>5. g \in UnHilo /\ g.tabla = h.tabla /\ g.bloques = {} /\ g.faltan = ps /\ g.libera = L
    BY <1>1, <1>2, <2>1 DEF UnHilo
  <2> HIDE DEF g
  <2>6. Cambia(i, g)
    BY <2>3, <2>5, Cambiado DEF Tipos
  <2> QED BY <2>2, <2>4, <2>5, <2>6
<1>5. \/ /\ TmpC \in DOMAIN fs => fs[TmpC].completo /\ fs[TmpC].bloques = {}
         /\ archivos' = [archivos EXCEPT ![h.tabla] = fs]
         /\ TerminarDeCompactar(i, h)
         /\ UNCHANGED bitmap
      \/ \E ps \in SUBSET (1..Particiones) :
           /\ TmpC \in DOMAIN fs /\ fs[TmpC].completo
           /\ \A n \in ps : n \in DOMAIN fs /\ fs[n].completo
           /\ archivos' = [archivos EXCEPT ![h.tabla] = fs]
           /\ SoloHilo(i, [h EXCEPT !.pc = "bloquea", !.faltan = ps, !.libera = ps \cup {TmpC}])
           /\ UNCHANGED bitmap
  BY Zenon DEF Renombrar, fs
<1> QED BY <1>2, <1>3, <1>4, <1>5 DEF fs

LEMMA BloquearTablaDa ==
  ASSUME Tipos, NEW i \in DOMAIN hilos, BloquearTabla(i)
  PROVE  /\ hilos[i].pc = "bloquea" /\ UNCHANGED <<archivos, bitmap>>
         /\ \E g : /\ Cambia(i, g) /\ g.pc = "libera" /\ g.faltan = hilos[i].faltan
                   /\ g.libera = hilos[i].libera /\ g.bloques = hilos[i].bloques
<1> DEFINE h == hilos[i]
           g == [h EXCEPT !.pc = "libera"]
<1>1. /\ g \in UnHilo /\ g.tabla = h.tabla /\ g.pc = "libera" /\ g.faltan = h.faltan
      /\ g.libera = h.libera /\ g.bloques = h.bloques
  BY HiloDe DEF UnHilo, Tipos
<1>2. SoloHilo(i, g) /\ h.pc = "bloquea" /\ UNCHANGED <<archivos, bitmap>>
  BY DEF BloquearTabla, disco
<1> HIDE DEF g
<1>3. Cambia(i, g)
  BY <1>1, <1>2, Cambiado DEF Tipos
<1> QED BY <1>1, <1>2, <1>3

LEMMA LiberarBloquesDa ==
  ASSUME Tipos, Sano, NEW i \in DOMAIN hilos, LiberarBloques(i), ~Revienta
  PROVE  /\ hilos[i].pc = "libera"
         /\ \E n \in hilos[i].libera : \E g :
              /\ Cambia(i, g) /\ g.pc # "bloquea" /\ g.faltan = hilos[i].faltan
              /\ g.libera = hilos[i].libera \ {n} /\ g.bloques = hilos[i].bloques
              /\ n \in SusArchivos(i) /\ bitmap' = bitmap \ SuArchivo(i, n).bloques
              /\ archivos' = IF n = TmpC
                             THEN [archivos EXCEPT ![hilos[i].tabla] =
                                     Restrict(@, DOMAIN @ \ {TmpC})]
                             ELSE archivos
<1> DEFINE h == hilos[i]
<1>1. h \in UnHilo
  BY HiloDe DEF Tipos
<1>2. h.pc = "libera"
  BY DEF LiberarBloques
<1>3. \A m \in h.libera : m \in SusArchivos(i)
  BY DEF Sano, CompactaInv, SusArchivos
<1>4. PICK n \in h.libera :
        /\ bitmap' = bitmap \ SuArchivo(i, n).bloques
        /\ archivos' = IF n = TmpC
                       THEN [archivos EXCEPT ![h.tabla] = Restrict(@, DOMAIN @ \ {TmpC})]
                       ELSE archivos
        /\ SoloHilo(i, SinLiberar(h, n))
  BY <1>3 DEF LiberarBloques, SuArchivo, SusArchivos
<1> DEFINE g == SinLiberar(h, n)
<1>5. /\ g \in UnHilo /\ g.tabla = h.tabla /\ g.pc # "bloquea" /\ g.faltan = h.faltan
      /\ g.libera = h.libera \ {n} /\ g.bloques = h.bloques
  <2>1. CASE h.libera = {n}
    BY <1>1, <2>1 DEF UnHilo, SinLiberar
  <2>2. CASE h.libera # {n}
    BY <1>1, <2>2 DEF UnHilo, SinLiberar
  <2> QED BY <2>1, <2>2
<1> HIDE DEF g
<1>6. Cambia(i, g)
  BY <1>4, <1>5, Cambiado DEF Tipos, g
<1> QED BY <1>2, <1>3, <1>4, <1>5, <1>6

LEMMA PedirBloqueNuevoDa ==
  ASSUME Tipos, NEW i \in DOMAIN hilos, PedirBloqueNuevo(i)
  PROVE  /\ hilos[i].pc \in {"pide", "guarda"} /\ UNCHANGED archivos
         /\ bitmap' = bitmap \cup ({BloqueDisponible} \ {-1})
         /\ \E g : /\ Cambia(i, g) /\ g.pc = "guarda" /\ g.faltan = hilos[i].faltan
                   /\ g.libera = hilos[i].libera
                   /\ g.bloques = hilos[i].bloques \cup ({BloqueDisponible} \ {-1})
<1> DEFINE h == hilos[i]
           bs == h.bloques \cup ({BloqueDisponible} \ {-1})
           g == [h EXCEPT !.pc = "guarda", !.bloques = bs]
<1>1. h \in UnHilo
  BY HiloDe DEF Tipos
<1>2. bs \in SUBSET Bloques
  BY <1>1, HayBloque DEF UnHilo
<1>3. /\ SoloHilo(i, g) /\ h.pc \in {"pide", "guarda"} /\ UNCHANGED archivos
      /\ bitmap' = bitmap \cup ({BloqueDisponible} \ {-1})
  BY DEF PedirBloqueNuevo, Marcado
<1>4. bs = h.bloques \cup ({BloqueDisponible} \ {-1})
  OBVIOUS
<1> HIDE DEF bs
<1>5. /\ g \in UnHilo /\ g.tabla = h.tabla /\ g.pc = "guarda" /\ g.faltan = h.faltan
      /\ g.libera = h.libera /\ g.bloques = bs
  BY <1>1, <1>2 DEF UnHilo
<1> HIDE DEF g
<1>6. Cambia(i, g)
  BY <1>3, <1>5, Cambiado DEF Tipos
<1> QED BY <1>3, <1>4, <1>5, <1>6

LEMMA GuardarParticionDa ==
  ASSUME Tipos, MutexInv, NEW i \in DOMAIN hilos, GuardarParticion(i), ~Revienta
  PROVE  /\ hilos[i].pc = "guarda" /\ hilos[i].libera = {} /\ UNCHANGED bitmap
         /\ \E n \in hilos[i].faltan : \E g :
              /\ Cambia(i, g) /\ g.pc # "bloquea" /\ g.faltan = hilos[i].faltan \ {n}
              /\ g.libera = {} /\ g.bloques = {}
              /\ n \in SusArchivos(i) /\ Escribe(hilos[i].tabla, n, ConBloques(hilos[i].bloques))
<1> DEFINE h == hilos[i]
<1>1. h \in UnHilo
  BY HiloDe DEF Tipos
<1>2. h.pc = "guarda" /\ h.libera = {}
  BY DEF GuardarParticion, MutexInv, EnSuPaso
<1>3. PICK n \in h.faltan :
        /\ n \in SusArchivos(i) /\ Escribe(h.tabla, n, ConBloques(h.bloques)) /\ UNCHANGED bitmap
        /\ \/ h.faltan = {n} /\ TerminarDeCompactar(i, h)
           \/ SoloHilo(i, [h EXCEPT !.pc = "pide", !.faltan = @ \ {n}, !.bloques = {}])
  BY DEF GuardarParticion, SusArchivos
<1>4. \E g \in UnHilo : /\ SoloHilo(i, g) /\ g.tabla = h.tabla /\ g.pc # "bloquea"
                        /\ g.faltan = h.faltan \ {n} /\ g.libera = {} /\ g.bloques = {}
  <2>1. CASE h.faltan = {n} /\ TerminarDeCompactar(i, h)
    <3> DEFINE g == [h EXCEPT !.pc = "duerme", !.faltan = {}, !.bloques = {}]
    <3>1. SoloHilo(i, g)
      BY <2>1 DEF TerminarDeCompactar
    <3>2. h.faltan \ {n} = {}
      BY <2>1
    <3>3. g \in UnHilo /\ g.tabla = h.tabla /\ g.pc # "bloquea" /\ g.faltan = {}
          /\ g.libera = {} /\ g.bloques = {}
      BY <1>1, <1>2 DEF UnHilo
    <3> HIDE DEF g
    <3> QED BY <3>1, <3>2, <3>3
  <2>2. CASE SoloHilo(i, [h EXCEPT !.pc = "pide", !.faltan = @ \ {n}, !.bloques = {}])
    <3> DEFINE g == [h EXCEPT !.pc = "pide", !.faltan = @ \ {n}, !.bloques = {}]
    <3>1. g \in UnHilo /\ g.tabla = h.tabla /\ g.pc # "bloquea" /\ g.faltan = h.faltan \ {n}
          /\ g.libera = {} /\ g.bloques = {}
      BY <1>1, <1>2 DEF UnHilo
    <3>2. SoloHilo(i, g)
      BY <2>2
    <3> HIDE DEF g
    <3> QED BY <3>1, <3>2
  <2> QED BY <1>3, <2>1, <2>2
<1> QED BY <1>2, <1>3, <1>4, Cambiado DEF Tipos

\* What a step of compactar does to the files of its table.
LEMMA CompactaDa ==
  ASSUME Tipos, MutexInv, Sano, NEW i \in DOMAIN hilos, Compacta(i)
  PROVE  LET t == hilos[i].tabla IN
         /\ t \in Tablas /\ hilos[i].pc \in EnUso
         /\ \E g : Cambia(i, g)
         /\ \A u \in Tablas : u # t => archivos'[u] = archivos[u]
         /\ DOMAIN archivos'[t] \subseteq DOMAIN archivos[t] \cup {TmpC}
         /\ \A n \in DOMAIN archivos[t] : ~archivos[t][n].completo =>
              n = TmpC \/ (n \in DOMAIN archivos'[t] /\ archivos'[t][n] = archivos[t][n])
<1> DEFINE t == hilos[i].tabla
           Bien == /\ \A u \in Tablas : u # t => archivos'[u] = archivos[u]
                   /\ DOMAIN archivos'[t] \subseteq DOMAIN archivos[t] \cup {TmpC}
                   /\ \A n \in DOMAIN archivos[t] : ~archivos[t][n].completo =>
                        n = TmpC \/ (n \in DOMAIN archivos'[t] /\ archivos'[t][n] = archivos[t][n])
<1>1. t \in Tablas /\ TiposDelDisco /\ ~Revienta
  BY HiloDe DEF Tipos, Compacta
<1>2. CASE Renombrar(i)
  <2>1. /\ hilos[i].pc = "decide" /\ \E g : Cambia(i, g)
        /\ archivos' = [archivos EXCEPT ![t] = Renombrados(archivos[t])]
        /\ TmpC \in DOMAIN Renombrados(archivos[t]) => Renombrados(archivos[t])[TmpC].completo
    BY <1>1, <1>2, RenombrarDa
  <2>2. /\ \A u \in Tablas : u # t => archivos'[u] = archivos[u]
        /\ archivos'[t] = Renombrados(archivos[t]) /\ Tmp # TmpC
        /\ \A n \in DOMAIN archivos'[t] :
             \/ n # TmpC /\ n \in DOMAIN archivos[t] /\ archivos'[t][n] = archivos[t][n]
             \/ /\ n = TmpC /\ Tmp \in DOMAIN archivos[t]
                /\ archivos'[t][TmpC] = archivos[t][Tmp]
             \/ n = TmpC
        /\ \A n \in DOMAIN archivos[t] \ {Tmp} : n \in DOMAIN archivos'[t]
        /\ Tmp \in DOMAIN archivos[t] =>
             TmpC \in DOMAIN archivos'[t] /\ archivos'[t][TmpC] = archivos[t][Tmp]
    <3> PICK u \in Tablas : u = t
      BY <1>1
    <3>1. archivos' = [archivos EXCEPT ![u] = Renombrados(archivos[u])]
      BY <2>1
    <3> QED BY <1>1, <3>1, RenombradosDa, Zenon
  <2>3. Tmp \in DOMAIN archivos[t] => archivos[t][Tmp].completo
    BY <2>1, <2>2
  <2>4. Bien
    BY <2>2, <2>3
  <2> QED BY <1>1, <2>1, <2>4 DEF EnUso
<1>3. CASE BloquearTabla(i)
  BY <1>1, <1>3, BloquearTablaDa DEF EnUso, Tipos
<1>4. CASE LiberarBloques(i)
  <2>1. /\ hilos[i].pc = "libera" /\ \E g : Cambia(i, g)
        /\ \/ archivos' = [archivos EXCEPT ![t] = Restrict(@, DOMAIN @ \ {TmpC})]
           \/ UNCHANGED archivos
    <3> PICK n \in hilos[i].libera : \E g :
              /\ Cambia(i, g)
              /\ archivos' = IF n = TmpC
                             THEN [archivos EXCEPT ![t] = Restrict(@, DOMAIN @ \ {TmpC})]
                             ELSE archivos
      BY <1>1, <1>4, LiberarBloquesDa
    <3> QED BY <1>1, <1>4, LiberarBloquesDa
  <2>2. CASE archivos' = [archivos EXCEPT ![t] = Restrict(@, DOMAIN @ \ {TmpC})]
    <3> PICK u \in Tablas : u = t
      BY <1>1
    <3>1. archivos' = [archivos EXCEPT ![u] = Restrict(@, DOMAIN @ \ {TmpC})]
      BY <2>2
    <3>2. /\ \A x \in Tablas : x # u => archivos'[x] = archivos[x]
          /\ DOMAIN archivos'[u] = DOMAIN archivos[u] \ {TmpC}
          /\ \A m \in DOMAIN archivos'[u] : archivos'[u][m] = archivos[u][m]
      BY <1>1, <3>1, QuitaDa, Zenon
    <3> QED BY <1>1, <2>1, <3>2 DEF EnUso
  <2>3. CASE UNCHANGED archivos
    BY <1>1, <2>1, <2>3 DEF EnUso
  <2> QED BY <2>1, <2>2, <2>3
<1>5. CASE PedirBloqueNuevo(i)
  <2>1. hilos[i].pc \in {"pide", "guarda"} /\ UNCHANGED archivos /\ \E g : Cambia(i, g)
    BY <1>5, PedirBloqueNuevoDa
  <2> QED BY <1>1, <2>1 DEF EnUso
<1>6. CASE GuardarParticion(i)
  <2>1. hilos[i].pc = "guarda"
    BY <1>1, <1>6, GuardarParticionDa
  <2>2. PICK n \in hilos[i].faltan : \E g :
              /\ Cambia(i, g)
              /\ n \in SusArchivos(i) /\ Escribe(t, n, ConBloques(hilos[i].bloques))
    BY <1>1, <1>6, GuardarParticionDa
  <2>3. n \in DOMAIN archivos[t] /\ archivos[t][n].completo
    BY DEF Sano, CompactaInv
  <2>4. Bien
    BY <1>1, <2>2, <2>3, EscribeDa
  <2> QED BY <1>1, <2>1, <2>2, <2>4 DEF EnUso
<1> QED BY <1>2, <1>3, <1>4, <1>5, <1>6 DEF Compacta, Compactar

\* The table that a client creates, while the rest go on: only its .tmp and its .tmpc
\* come and go.
LEMMA OtrosArchivos ==
  ASSUME Tipos, MutexInv, Sano, Next, ~Reiniciar, NEW c \in Clientes, NEW t \in Tablas,
         Ocupado(c, t), cliente'[c] = cliente[c]
  PROVE  /\ DOMAIN archivos'[t] \subseteq DOMAIN archivos[t] \cup Temporales
         /\ \A n \in DOMAIN archivos[t] : n \notin Temporales /\ ~archivos[t][n].completo =>
              n \in DOMAIN archivos'[t] /\ archivos'[t][n] = archivos[t][n]
<1>1. \A d \in Clientes : ArchivosDe(d) => archivos'[t] = archivos[t]
  BY SoloSuTabla DEF Sano, UnoPorTabla
<1>2. ASSUME NEW i \in DOMAIN hilos, Compacta(i), archivos'[t] # archivos[t]
      PROVE  /\ DOMAIN archivos'[t] \subseteq DOMAIN archivos[t] \cup {TmpC}
             /\ \A n \in DOMAIN archivos[t] : n # TmpC /\ ~archivos[t][n].completo =>
                  n \in DOMAIN archivos'[t] /\ archivos'[t][n] = archivos[t][n]
  BY <1>2, CompactaDa
<1>3. ASSUME CrearTmp \/ EscribirTmp, archivos'[t] # archivos[t]
      PROVE  /\ DOMAIN archivos'[t] = DOMAIN archivos[t] \cup {Tmp}
             /\ \A m \in DOMAIN archivos[t] : m # Tmp => archivos'[t][m] = archivos[t][m]
  <2>1. dump.tabla = t
    BY <1>3, TmpDa
  <2> QED BY <1>3, <2>1, TmpDa
<1>4. CASE archivos'[t] = archivos[t]
  BY <1>4
<1>5. CASE (\E i \in DOMAIN hilos : Compacta(i)) /\ archivos'[t] # archivos[t]
  BY <1>2, <1>5 DEF Temporales
<1>6. CASE (CrearTmp \/ EscribirTmp) /\ archivos'[t] # archivos[t]
  BY <1>3, <1>6 DEF Temporales
<1> QED BY <1>1, <1>4, <1>5, <1>6, SoloEllos

\* A complete file stays as it is, unless a compaction of its table is at work, or a
\* DROP removes it.
LEMMA ArchivoQueda ==
  ASSUME Tipos, MutexInv, Sano, Next, ~Reiniciar, NEW t \in Tablas, NEW n \in DOMAIN archivos[t],
         archivos[t][n].completo,
         \A i \in DOMAIN hilos : Compacta(i) => hilos[i].tabla # t,
         \A c \in Clientes : BorrarArchivo(c) => cliente[c].tabla # t \/ cliente[c].nombre # n
  PROVE  n \in DOMAIN archivos'[t] /\ archivos'[t][n] = archivos[t][n]
<1>1. ASSUME NEW c \in Clientes, ArchivosDe(c), cliente[c].tabla = t
      PROVE  n \in DOMAIN archivos'[t] /\ archivos'[t][n] = archivos[t][n]
  <2> DEFINE m == cliente[c].nombre
  <2>1. CASE AbrirParticion(c) /\ ~UNCHANGED archivos
    <3>1. /\ cliente[c].pc = "abrirParticion" /\ m \in 1..Particiones
          /\ Escribe(t, m, SinBloques)
      BY <1>1, <2>1, AbrirDa
    <3>2. m \notin Temporales /\ ~(m < m)
      BY <3>1, ParticionesAssumption DEF Temporales, Tmp, TmpC
    <3>3. n # m
      BY <1>1, <3>1, <3>2 DEF Sano, CreateInv
    <3> QED BY <3>1, <3>3, EscribeDa DEF Tipos
  <2>2. CASE EscribirParticion(c) /\ ~UNCHANGED archivos
    <3>1. ~Revienta
      BY <2>2 DEF Revienta, disco
    <3>2. cliente[c].pc = "escribirParticion" /\ Escribe(t, m, ConBloques({cliente[c].bloque}))
      BY <1>1, <2>2, <3>1, EscribirDa
    <3>3. n # m
      BY <1>1, <3>2 DEF Sano, CreateInv
    <3> QED BY <3>2, <3>3, EscribeDa DEF Tipos
  <2>3. CASE BorrarArchivo(c)
    <3> PICK x : x = m
      OBVIOUS
    <3>1. archivos' = [archivos EXCEPT ![t] = Restrict(@, DOMAIN @ \ {x})] /\ n # x
      BY <1>1, <2>3, BorrarDa
    <3>2. TiposDelDisco
      BY DEF Tipos
    <3>3. /\ DOMAIN archivos'[t] = DOMAIN archivos[t] \ {x}
          /\ \A k \in DOMAIN archivos'[t] : archivos'[t][k] = archivos[t][k]
      BY <3>1, <3>2, QuitaDa, Zenon
    <3> QED BY <3>1, <3>3
  <2> QED BY <1>1, <2>1, <2>2, <2>3 DEF ArchivosDe
<1>2. ASSUME NEW c \in Clientes, ArchivosDe(c)
      PROVE  n \in DOMAIN archivos'[t] /\ archivos'[t][n] = archivos[t][n]
  BY <1>1, <1>2, SoloSuTabla
<1>3. ASSUME NEW i \in DOMAIN hilos, Compacta(i) PROVE archivos'[t] = archivos[t]
  BY <1>3, CompactaDa
<1>4. ASSUME CrearTmp \/ EscribirTmp, ~UNCHANGED archivos
      PROVE  n \in DOMAIN archivos'[t] /\ archivos'[t][n] = archivos[t][n]
  <2>1. n # Tmp \/ t # dump.tabla
    BY <1>4, TmpDa DEF Sano, DumpInv
  <2> QED BY <1>4, <2>1, TmpDa
<1> QED BY <1>2, <1>3, <1>4, SoloEllos

LEMMA NuloPrima ==
  ASSUME NEW t, EntradasDe(t)' = {}
  PROVE  EncontrarTabla(t)' = NULL
<1> DEFINE s == tablasParaCompactaciones'
           ps == {i \in DOMAIN s : entradas'[s[i]].tabla = t}
<1>1. \A i \in DOMAIN s : s[i] \in Listadas'
  BY DEF Listadas, ToSet
<1>2. ps = {}
  BY <1>1 DEF EntradasDe
<1> QED BY <1>2 DEF EncontrarTabla

\* A DROP that found no entry of its table will find none.
LEMMA NuloQueda ==
  ASSUME Tipos, Sano, Next, ~Reiniciar, NEW c \in Clientes, NEW t \in Tablas,
         cliente[c].pc \in PasosDeDrop, cliente[c].tabla = t, EncontrarTabla(t) = NULL
  PROVE  EncontrarTabla(t)' = NULL
<1>1. CASE Marca
  BY <1>1, EncontrarConMarca DEF Tipos
<1>2. ASSUME NEW d \in Clientes, AgregarEntrada(d) PROVE EncontrarTabla(t)' = NULL
  <2>1. cliente[d].pc = "agregarEntrada" /\ cliente[d].tabla # t
    <3>1. cliente[d].pc = "agregarEntrada"
      BY <1>2 DEF AgregarEntrada
    <3>2. Ocupado(d, cliente[d].tabla) /\ Ocupado(c, t) /\ d # c
      BY <3>1, OcupadoDe DEF PasosDeCreate, PasosDeDrop, Tipos
    <3> QED BY <3>1, <3>2 DEF Sano, UnoPorTabla
  <2>2. EntradasDe(t) = {}
    BY EncontrarTablaDa DEF Tipos
  <2>3. EntradasDe(t)' = {}
    <3>1. /\ \A e \in DOMAIN entradas : entradas'[e] = entradas[e]
          /\ Listadas' = Listadas \cup {Len(entradas) + 1}
          /\ entradas'[Len(entradas) + 1] = Entrada(cliente[d].tabla)
      BY <1>2, AgregarDa DEF Tipos
    <3>2. Entrada(cliente[d].tabla).tabla # t
      BY <2>1 DEF Entrada
    <3>3. Listadas \subseteq DOMAIN entradas
      BY DEF Tipos, TiposDeListas
    <3>4. \A e \in Listadas : entradas[e].tabla # t
      BY <2>2 DEF EntradasDe
    <3>5. \A e \in Listadas' : entradas'[e].tabla # t
      BY <3>1, <3>2, <3>3, <3>4
    <3> QED BY <3>5 DEF EntradasDe
  <2> QED BY <2>3, NuloPrima
<1>3. ASSUME NEW i \in DOMAIN hilos, FinalizarHilo(i) PROVE EncontrarTabla(t)' = NULL
  <2>1. EntradasDe(t) = {}
    BY EncontrarTablaDa DEF Tipos
  <2>2. EntradasDe(t)' = {}
    <3>1. /\ \A e \in DOMAIN entradas : entradas'[e].tabla = entradas[e].tabla
          /\ Listadas' \subseteq Listadas /\ Listadas \subseteq DOMAIN entradas
      BY <1>3, FinalizarDa DEF Tipos, TiposDeListas
    <3>2. \A e \in Listadas : entradas[e].tabla # t
      BY <2>1 DEF EntradasDe
    <3>3. \A e \in Listadas' : entradas'[e].tabla # t
      BY <3>1, <3>2
    <3> QED BY <3>3 DEF EntradasDe
  <2> QED BY <2>2, NuloPrima
<1> QED BY <1>1, <1>2, <1>3, PasosDeListas DEF Tipos

LEMMA NextCreate ==
  ASSUME Tipos, Tipos', MutexInv, Sano, Next, ~Reiniciar, NEW c \in Clientes
  PROVE  CreateInv(c)'
<1> DEFINE r == cliente[c]
           t == r.tabla
           Abre == {"abrirMetadata", "guardarMetadata"}
           Escribiendo == {"pedirBloque", "escribirParticion"}
<1>0. \A s : cliente' = [cliente EXCEPT ![c] = s] => cliente'[c] = s
  BY DEF Tipos, TiposDeClientes
<1>1. r \in Pedido
  BY LugarDe DEF Tipos
<1>2. CASE r.pc \in Abre \cup Escribiendo \cup {"abrirParticion"} /\ cliente'[c] = r
  <2>1. Ocupado(c, t) /\ t \in Tablas
    BY <1>2, OcupadoDe DEF Tipos, PasosDeCreate
  <2>2. /\ DOMAIN archivos'[t] \subseteq DOMAIN archivos[t] \cup Temporales
        /\ \A n \in DOMAIN archivos[t] : n \notin Temporales /\ ~archivos[t][n].completo =>
             n \in DOMAIN archivos'[t] /\ archivos'[t][n] = archivos[t][n]
    BY <1>2, <2>1, OtrosArchivos
  <2>3. r.pc \in Escribiendo => r.nombre \notin Temporales
    BY LugarDe DEF Tipos
  <2>4. CreateInv(c)
    BY DEF Sano
  <2>5. CASE r.pc \in Abre
    BY <1>2, <2>2, <2>4, <2>5 DEF CreateInv
  <2>6. CASE r.pc = "abrirParticion"
    BY <1>2, <2>2, <2>4, <2>6 DEF CreateInv
  <2>7. CASE r.pc \in Escribiendo
    BY <1>2, <2>2, <2>3, <2>4, <2>7 DEF CreateInv
  <2> QED BY <1>2, <2>5, <2>6, <2>7
<1>3. CASE r.pc \notin Abre \cup Escribiendo \cup {"abrirParticion"} /\ cliente'[c] = r
  BY <1>3 DEF CreateInv
<1>4. CASE Atender(c) /\ Sigue(r, cliente'[c])
  <2>1. CASE r.pc = "mkdir"
    <3>1. CrearDirectorio(c) /\ t \in Tablas
      BY <1>4, <2>1, AccionDe, LugarDe DEF Tipos
    <3>2. CASE dir[t] # 0
      <4>1. cliente'[c].pc = "libre"
        BY <1>0, <3>1, <3>2, LibreEsPedido DEF CrearDirectorio, SoloCliente, Pasa
      <4> QED BY <4>1 DEF CreateInv
    <3>3. CASE dir[t] = 0
      <4>1. UNCHANGED archivos
        BY <3>1, <3>3 DEF CrearDirectorio
      <4>2. cliente'[c].pc \in {"abrirMetadata", "libre"}
        BY <1>4, <2>1, LibreEsPedido DEF Sigue
      <4>3. cliente'[c].pc = "libre" \/ cliente'[c].tabla = t
        BY <1>4, LibreEsPedido DEF Sigue
      <4>4. DOMAIN archivos[t] = {}
        BY <3>1, <3>3 DEF Tipos, TiposDelDisco
      <4> QED BY <4>1, <4>2, <4>3, <4>4 DEF CreateInv
    <3> QED BY <3>2, <3>3
  <2>2. CASE r.pc = "abrirMetadata"
    <3>1. AbrirMetadata(c)
      BY <1>4, <2>2, AccionDe
    <3>2. UNCHANGED archivos
      BY <3>1 DEF AbrirMetadata, SoloCliente, disco
    <3>3. /\ cliente'[c].pc \in {"guardarMetadata", "libre"}
          /\ cliente'[c].pc = "libre" \/ cliente'[c].tabla = t
      BY <1>4, <2>2, LibreEsPedido DEF Sigue
    <3> QED BY <2>2, <3>2, <3>3 DEF Sano, CreateInv
  <2>3. CASE r.pc = "guardarMetadata"
    <3>1. GuardarMetadata(c)
      BY <1>4, <2>3, AccionDe
    <3>2. UNCHANGED archivos
      BY <3>1 DEF GuardarMetadata, Revienta, disco
    <3>3. cliente'[c].pc = "abrirParticion" /\ cliente'[c].tabla = t
      BY <1>4, <2>3, LibreEsPedido DEF Sigue
    <3>4. DOMAIN archivos[t] \subseteq Temporales
      BY <2>3 DEF Sano, CreateInv
    <3> QED BY <3>2, <3>3, <3>4 DEF CreateInv
  <2>4. CASE r.pc = "abrirParticion"
    <3>1. AbrirParticion(c)
      BY <1>4, <2>4, AccionDe
    <3>2. cliente'[c].pc = "pedirBloque" /\ cliente'[c].tabla = t
      BY <1>4, <2>4, LibreEsPedido DEF Sigue
    <3>3. Escribe(t, r.nombre, SinBloques) /\ t \in Tablas /\ r.nombre \in Nat
          /\ cliente'[c].nombre = r.nombre
      <4>1. ~Revienta
        BY <2>4, <3>2 DEF Revienta
      <4>2. Escribe(t, r.nombre, SinBloques)
            /\ cliente'[c] = [r EXCEPT !.pc = "pedirBloque"]
        BY <1>0, <3>1, <4>1 DEF AbrirParticion, EnDisco, Pasa
      <4> QED BY <1>1, <2>4, <4>2, LugarDe DEF Pedido, Tipos
    <3>4. /\ DOMAIN archivos'[t] = DOMAIN archivos[t] \cup {r.nombre}
          /\ archivos'[t][r.nombre] = SinBloques
      BY <3>3, EscribeDa DEF Tipos
    <3>5. \A n \in DOMAIN archivos[t] : n \in Temporales \/ n < r.nombre
      BY <2>4 DEF Sano, CreateInv
    <3>6. \A n \in DOMAIN archivos'[t] : n \in Temporales \/ n <= r.nombre
      <4>1. \A n \in DOMAIN archivos[t] : n \in Nat
        BY <3>3, ParticionesAssumption DEF Tipos, TiposDelDisco, Nombres
      <4> QED BY <3>3, <3>4, <3>5, <4>1
    <3> QED BY <3>2, <3>3, <3>4, <3>6, SinBloquesEsArchivo DEF CreateInv
  <2>5. CASE r.pc = "pedirBloque"
    <3>1. PedirBloque(c)
      BY <1>4, <2>5, AccionDe
    <3>2. UNCHANGED archivos /\ t \in Tablas /\ r.nombre \in Nat
      BY <1>1, <2>5, <3>1, LugarDe DEF PedirBloque, Pedido, Tipos
    <3>3. \/ cliente'[c] = OtraParticion(r)
          \/ cliente'[c] = [r EXCEPT !.pc = "escribirParticion", !.bloque = BloqueDisponible]
      BY <1>0, <3>1 DEF PedirBloque, EnDisco, Pasa
    <3>4. \/ /\ cliente'[c].pc \in {"abrirParticion", "agregarEntrada"}
             /\ cliente'[c].nombre = r.nombre + 1
          \/ cliente'[c].pc = "escribirParticion" /\ cliente'[c].nombre = r.nombre
      BY <1>1, <3>3 DEF OtraParticion, Pedido
    <3>5. cliente'[c].tabla = t
      BY <1>4, <2>5, LibreEsPedido DEF Sigue
    <3>6. /\ \A n \in DOMAIN archivos[t] : n \in Temporales \/ n <= r.nombre
          /\ r.nombre \in DOMAIN archivos[t] /\ ~archivos[t][r.nombre].completo
      BY <2>5 DEF Sano, CreateInv
    <3>7. \A n \in DOMAIN archivos[t] : n \in Nat
      BY <3>2, ParticionesAssumption DEF Tipos, TiposDelDisco, Nombres
    <3>8. \A n \in DOMAIN archivos[t] : n \in Temporales \/ n < r.nombre + 1
      BY <3>2, <3>6, <3>7
    <3> QED BY <3>2, <3>4, <3>5, <3>6, <3>8 DEF CreateInv
  <2>6. CASE r.pc = "escribirParticion"
    <3>1. EscribirParticion(c)
      BY <1>4, <2>6, AccionDe
    <3>2. cliente'[c].tabla = t /\ cliente'[c].pc \in {"abrirParticion", "agregarEntrada"}
          /\ t \in Tablas /\ r.nombre \in Nat
      BY <1>1, <1>4, <2>6, LibreEsPedido, LugarDe DEF Sigue, Pedido, Tipos
    <3>3. ~Revienta
      BY <2>6, <3>2 DEF Revienta
    <3>4. Escribe(t, r.nombre, ConBloques({r.bloque})) /\ cliente'[c] = OtraParticion(r)
          /\ r.nombre \in DOMAIN archivos[t]
      BY <1>0, <3>1, <3>3 DEF EscribirParticion, EnDisco, Pasa
    <3>5. DOMAIN archivos'[t] = DOMAIN archivos[t]
      <4>1. DOMAIN archivos'[t] = DOMAIN archivos[t] \cup {r.nombre}
        BY <1>1, <3>2, <3>4, EscribeDa DEF Tipos
      <4> QED BY <3>4, <4>1
    <3>6. cliente'[c].nombre = r.nombre + 1
      BY <1>1, <3>4 DEF OtraParticion, Pedido
    <3>7. \A n \in DOMAIN archivos[t] : n \in Temporales \/ n <= r.nombre
      BY <2>6 DEF Sano, CreateInv
    <3>8. \A n \in DOMAIN archivos[t] : n \in Temporales \/ n < r.nombre + 1
      <4>1. \A n \in DOMAIN archivos[t] : n \in Nat
        BY <3>2, ParticionesAssumption DEF Tipos, TiposDelDisco, Nombres
      <4> QED BY <3>2, <3>7, <4>1
    <3> QED BY <3>2, <3>5, <3>6, <3>8 DEF CreateInv
  <2>7. CASE r.pc \notin Abre \cup Escribiendo \cup {"abrirParticion", "mkdir"}
    <3>1. cliente'[c].pc \notin Abre \cup Escribiendo \cup {"abrirParticion"}
      BY <1>4, <2>7, LibreEsPedido DEF Sigue
    <3> QED BY <3>1 DEF CreateInv
  <2> QED BY <2>1, <2>2, <2>3, <2>4, <2>5, <2>6, <2>7
<1>5. CASE cliente'[c].pc \in {"INSERT", "CREATE", "DROP"}
  BY <1>5 DEF CreateInv
<1> QED BY <1>2, <1>3, <1>4, <1>5, PcSigue DEF Tipos

LEMMA NextDrop ==
  ASSUME Tipos, Tipos', MutexInv, Sano, Next, ~Reiniciar, NEW c \in Clientes
  PROVE  DropInv(c)'
<1> DEFINE r == cliente[c]
           t == r.tabla
<1>0. \A s : cliente' = [cliente EXCEPT ![c] = s] => cliente'[c] = s
  BY DEF Tipos, TiposDeClientes
<1>1. r \in Pedido
  BY LugarDe DEF Tipos
\* What it is removing.
<1>2. ASSUME cliente'[c].pc = "remove"
      PROVE  (cliente[c].nombre \in DOMAIN archivos[t] /\ archivos[t][cliente[c].nombre].completo)'
  <2>1. CASE cliente'[c] = r
    <3>1. r.pc = "remove" /\ t \in Tablas /\ Ocupado(c, t)
      BY <1>2, <2>1, OcupadoDe DEF Tipos, PasosDeDrop
    <3>2. r.nombre \in DOMAIN archivos[t] /\ archivos[t][r.nombre].completo
      BY <3>1 DEF Sano, DropInv
    <3>3. ASSUME NEW i \in DOMAIN hilos, Compacta(i) PROVE hilos[i].tabla # t
      <4>1. hilos[i].pc \in EnUso /\ \A d \in Clientes : DropInv(d)
        BY <3>3, CompactaDa DEF Sano
      <4>2. cliente[c].tabla = hilos[i].tabla => cliente[c].pc \notin ConMutex
        BY <4>1, EnExclusiva
      <4> QED BY <3>1, <4>2 DEF ConMutex
    <3>4. ASSUME NEW d \in Clientes, BorrarArchivo(d) PROVE cliente[d].tabla # t
      <4>1. Ocupado(d, cliente[d].tabla) /\ cliente'[d] # cliente[d]
        BY <3>4, SoloSuTabla DEF ArchivosDe
      <4> QED BY <2>1, <3>1, <4>1 DEF Sano, UnoPorTabla
    <3>5. r.nombre \in DOMAIN archivos'[t] /\ archivos'[t][r.nombre] = archivos[t][r.nombre]
      BY <3>1, <3>2, <3>3, <3>4, ArchivoQueda
    <3> QED BY <2>1, <3>2, <3>5
  <2>2. CASE Atender(c) /\ Sigue(r, cliente'[c])
    <3>1. r.pc = "readdir" /\ cliente'[c].tabla = t
      BY <1>2, <2>2, LibreEsPedido DEF Sigue
    <3>2. LiberarArchivo(c)
      <4>1. BorrarDirectorio(c) => cliente'[c].pc = "condenar"
        BY <1>0, <1>1 DEF BorrarDirectorio, EnDisco, Pasa, Pedido
      <4> QED BY <1>2, <2>2, <3>1, <4>1, AccionDe
    <3>3. ~Revienta
      BY <1>2, <3>1 DEF Revienta
    <3>4. PICK n \in DOMAIN archivos[t] :
            /\ archivos[t][n].completo /\ UNCHANGED archivos
            /\ cliente'[c] = [r EXCEPT !.pc = "remove", !.nombre = n]
      BY <1>0, <3>2, <3>3 DEF LiberarArchivo, EnDisco, Pasa
    <3>5. cliente'[c].nombre = n
      BY <1>1, <3>4 DEF Pedido
    <3> QED BY <3>1, <3>4, <3>5
  <2> QED BY <1>2, <2>1, <2>2, PcSigue DEF Tipos
\* And that it goes on without an entry.
<1>3. ASSUME cliente'[c].pc \in ConMutex, cliente'[c].entrada = NULL
      PROVE  EncontrarTabla(cliente[c].tabla)' = NULL
  <2>1. CASE r.pc \in ConMutex /\ cliente'[c].tabla = t /\ cliente'[c].entrada = r.entrada
    <3>1. EncontrarTabla(t) = NULL
      BY <1>3, <2>1 DEF Sano, DropInv
    <3>2. r.pc \in PasosDeDrop /\ t \in Tablas
      BY <2>1, LugarDe DEF ConMutex, PasosDeDrop, Tipos
    <3> PICK u \in Tablas : u = t
      BY <3>2
    <3>3. EncontrarTabla(u)' = NULL
      BY <3>1, <3>2, NuloQueda
    <3> QED BY <2>1, <3>3
  <2>2. CASE Atender(c) /\ Sigue(r, cliente'[c]) /\ r.pc = "DROP"
    <3>1. BuscarEntrada(c)
      BY <2>2, AccionDe
    <3> DEFINE e == EncontrarTabla(t)
               g == [r EXCEPT !.entrada = e, !.pc = IF e = NULL THEN "opendir" ELSE "bloquear"]
    <3>2. UNCHANGED listas /\ cliente'[c] = g
      BY <1>0, <3>1 DEF BuscarEntrada, SoloCliente, Pasa
    <3>3. g.entrada = e /\ g.tabla = t
      BY <1>1 DEF Pedido
    <3>4. EncontrarTabla(t) = NULL
      BY <1>3, <3>2, <3>3
    <3>5. EncontrarTabla(t)' = NULL
      BY <3>2, <3>4, EncontrarIgual
    <3> QED BY <3>2, <3>3, <3>5
  <2>3. CASE Atender(c) /\ Sigue(r, cliente'[c]) /\ r.pc = "bloquear"
    <3>1. cliente'[c].entrada = r.entrada
      BY <2>3, LibreEsPedido DEF Sigue
    <3> QED BY <1>3, <2>3, <3>1 DEF Sano, DropInv
  <2>4. CASE Atender(c) /\ Sigue(r, cliente'[c]) /\ r.pc \notin {"DROP", "bloquear"}
    <3>1. r.pc \in ConMutex /\ cliente'[c].tabla = t /\ cliente'[c].entrada = r.entrada
      BY <1>3, <2>4, LibreEsPedido DEF Sigue, ConMutex
    <3> QED BY <2>1, <3>1
  <2>5. CASE cliente'[c] = r
    BY <1>3, <2>1, <2>5
  <2> QED BY <1>3, <2>2, <2>3, <2>4, <2>5, PcSigue DEF ConMutex, Tipos
\* And what it waits for.
<1>4. ASSUME cliente'[c].pc = "bloquear" PROVE cliente'[c].entrada # NULL
  <2>1. CASE cliente'[c] = r
    BY <1>4, <2>1 DEF Sano, DropInv
  <2>2. CASE Atender(c) /\ Sigue(r, cliente'[c])
    <3>1. r.pc = "DROP"
      BY <1>4, <2>2, LibreEsPedido DEF Sigue
    <3>2. BuscarEntrada(c)
      BY <2>2, <3>1, AccionDe
    <3> DEFINE e == EncontrarTabla(t)
               g == [r EXCEPT !.entrada = e, !.pc = IF e = NULL THEN "opendir" ELSE "bloquear"]
    <3>3. cliente'[c] = g
      BY <1>0, <3>2 DEF BuscarEntrada, SoloCliente, Pasa
    <3>4. g.entrada = e /\ g.pc = IF e = NULL THEN "opendir" ELSE "bloquear"
      BY <1>1 DEF Pedido
    <3>5. e # NULL
      BY <1>4, <3>3, <3>4
    <3> QED BY <3>3, <3>4, <3>5
  <2> QED BY <1>4, <2>1, <2>2, PcSigue DEF Tipos
<1> QED BY <1>2, <1>3, <1>4 DEF DropInv

\* What a client does to the .tmp of a table: at most, to remove one that is
\* complete.
LEMMA TmpDelCliente ==
  ASSUME Tipos, Sano, NEW c \in Clientes, ArchivosDe(c), NEW u \in Tablas
  PROVE  /\ Tmp \in DOMAIN archivos'[u] => Tmp \in DOMAIN archivos[u]
         /\ Tmp \in DOMAIN archivos[u] /\ ~archivos[u][Tmp].completo =>
              Tmp \in DOMAIN archivos'[u] /\ archivos'[u][Tmp] = archivos[u][Tmp]
<1> DEFINE r == cliente[c]
<1>1. CASE u # r.tabla
  BY <1>1, SoloSuTabla
<1>2. ASSUME u = r.tabla, NEW n \in 1..Particiones, NEW f, Escribe(u, n, f)
      PROVE  /\ Tmp \in DOMAIN archivos'[u] <=> Tmp \in DOMAIN archivos[u]
             /\ Tmp \in DOMAIN archivos[u] => archivos'[u][Tmp] = archivos[u][Tmp]
  <2>1. n # Tmp
    BY ParticionesAssumption DEF Tmp
  <2> QED BY <1>2, <2>1, EscribeDa DEF Tipos
<1>3. CASE u = r.tabla /\ AbrirParticion(c) /\ ~UNCHANGED archivos
  BY <1>2, <1>3, AbrirDa
<1>4. CASE u = r.tabla /\ EscribirParticion(c) /\ ~UNCHANGED archivos
  <2>1. ~Revienta
    BY <1>4 DEF Revienta, disco
  <2> QED BY <1>2, <1>4, <2>1, EscribirDa
<1>5. CASE u = r.tabla /\ BorrarArchivo(c)
  <2>1. /\ r.pc = "remove"
        /\ archivos' = [archivos EXCEPT ![u] = Restrict(@, DOMAIN @ \ {r.nombre})]
    BY <1>5, BorrarDa
  <2>2. /\ DOMAIN archivos'[u] = DOMAIN archivos[u] \ {r.nombre}
        /\ \A m \in DOMAIN archivos'[u] : archivos'[u][m] = archivos[u][m]
    BY <2>1, QuitaDa DEF Tipos
  <2>3. archivos[u][r.nombre].completo
    BY <1>5, <2>1 DEF Sano, DropInv
  <2> QED BY <2>2, <2>3
<1> QED BY <1>1, <1>3, <1>4, <1>5 DEF ArchivosDe

LEMMA TmpQueda ==
  ASSUME Tipos, MutexInv, Sano, Next, ~Reiniciar, UNCHANGED dump \/ dump.pc = "bloquear",
         NEW u \in Tablas
  PROVE  /\ Tmp \notin DOMAIN archivos[u] => Tmp \notin DOMAIN archivos'[u]
         /\ dump.pc = "escribirTmp" /\ dump.tabla = u =>
              Tmp \in DOMAIN archivos'[u] /\ ~archivos'[u][Tmp].completo
<1>1. ~CrearTmp /\ ~EscribirTmp
  BY DEF CrearTmp, EscribirTmp, SoloDump, Tipos, TiposDelDump
<1>2. dump.pc = "escribirTmp" /\ dump.tabla = u =>
        Tmp \in DOMAIN archivos[u] /\ ~archivos[u][Tmp].completo
  BY DEF Sano, DumpInv
<1>3. Tmp # TmpC
  BY ParticionesAssumption DEF Tmp, TmpC
<1>4. ASSUME NEW i \in DOMAIN hilos, Compacta(i)
      PROVE  /\ Tmp \notin DOMAIN archivos[u] => Tmp \notin DOMAIN archivos'[u]
             /\ Tmp \in DOMAIN archivos[u] /\ ~archivos[u][Tmp].completo =>
                  Tmp \in DOMAIN archivos'[u] /\ archivos'[u][Tmp] = archivos[u][Tmp]
  <2>1. CASE u # hilos[i].tabla
    <3>1. archivos'[u] = archivos[u]
      BY <1>4, <2>1, CompactaDa
    <3> QED BY <3>1
  <2>2. CASE u = hilos[i].tabla
    BY <1>3, <1>4, <2>2, CompactaDa
  <2> QED BY <2>1, <2>2
<1> QED BY <1>1, <1>2, <1>4, TmpDelCliente, SoloEllos

LEMMA NextDumpInv ==
  ASSUME Tipos, Tipos', MutexInv, Sano, Next, ~Reiniciar
  PROVE  DumpInv'
<1>0. dump.faltan \subseteq Tablas
      /\ (dump.pc \in {"bloquear", "crearTmp", "escribirTmp"} => dump.tabla \in Tablas)
  BY DEF Tipos, TiposDelDump
<1>1. CASE UNCHANGED dump
  BY <1>0, <1>1, TmpQueda DEF Sano, DumpInv
<1>2. CASE DumpColgado /\ dump' = [dump EXCEPT !.pc = "crearTmp"]
  <2>1. dump.pc = "bloquear"
    BY <1>2 DEF DumpColgado
  <2>2. dump'.pc = "crearTmp" /\ dump'.faltan = dump.faltan /\ dump'.tabla = dump.tabla
    BY <1>2 DEF Tipos, TiposDelDump
  <2> QED BY <1>0, <2>1, <2>2, TmpQueda DEF Sano, DumpInv
<1>3. CASE Dumpear
  <2>1. ASSUME ComenzarDump PROVE DumpInv'
    <3>1. /\ dump' = [dump EXCEPT !.pc = "mirar", !.faltan = memtable] /\ UNCHANGED archivos
          /\ \A t \in memtable : Tmp \notin DOMAIN archivos[t]
      BY <2>1 DEF ComenzarDump, UnTmpPorTabla, SoloDump, disco
    <3>2. dump'.pc = "mirar" /\ dump'.faltan = memtable
      BY <3>1 DEF Tipos, TiposDelDump
    <3> QED BY <3>1, <3>2 DEF DumpInv
  <2>2. ASSUME NEW t \in Tablas, MirarTabla(t), ~UNCHANGED dump PROVE DumpInv'
    <3> PICK e : e = EncontrarTabla(t)
      OBVIOUS
    <3>1. /\ dump.pc = "mirar" /\ UNCHANGED archivos /\ t \in dump.faltan
          /\ \/ dump' = [dump EXCEPT !.faltan = @ \ {t}]
             \/ dump' = [dump EXCEPT !.faltan = @ \ {t}, !.tabla = t, !.entrada = e,
                                     !.pc = "bloquear"]
      BY <2>2 DEF MirarTabla, SoloDump, Revienta, disco
    <3>2. /\ dump'.faltan = dump.faltan \ {t}
          /\ dump'.pc = "mirar" \/ (dump'.pc = "bloquear" /\ dump'.tabla = t)
      BY <3>1 DEF Tipos, TiposDelDump
    <3>3. \A u \in dump.faltan : Tmp \notin DOMAIN archivos[u]
      BY <3>1 DEF Sano, DumpInv
    <3> QED BY <3>1, <3>2, <3>3 DEF DumpInv
  <2>3. ASSUME BloquearTmp PROVE DumpInv'
    <3>1. dump.pc = "bloquear" /\ dump' = [dump EXCEPT !.pc = "crearTmp"]
      BY <2>3 DEF BloquearTmp, SoloDump
    <3>2. dump'.pc = "crearTmp" /\ dump'.faltan = dump.faltan /\ dump'.tabla = dump.tabla
      BY <3>1 DEF Tipos, TiposDelDump
    <3> QED BY <1>0, <3>1, <3>2, TmpQueda DEF Sano, DumpInv
  <2>4. ASSUME CrearTmp PROVE DumpInv'
    <3>1. dump.pc = "crearTmp" /\ dump.tabla \in Tablas
      BY <2>4 DEF CrearTmp, Tipos, TiposDelDump
    <3>2. /\ \A u \in dump.faltan : u \in Tablas /\ Tmp \notin DOMAIN archivos[u]
          /\ dump.tabla \notin dump.faltan
      BY <3>1 DEF Sano, DumpInv, Tipos, TiposDelDump
    <3>3. CASE dump' = [dump EXCEPT !.pc = "mirar"] /\ UNCHANGED archivos
      <4>1. dump'.pc = "mirar" /\ dump'.faltan = dump.faltan
        BY <3>3 DEF Tipos, TiposDelDump
      <4> QED BY <3>2, <3>3, <4>1 DEF DumpInv
    <3>4. CASE /\ dump' = [dump EXCEPT !.pc = "escribirTmp"]
               /\ Escribe(dump.tabla, Tmp, SinBloques)
      <4>1. dump'.pc = "escribirTmp" /\ dump'.faltan = dump.faltan /\ dump'.tabla = dump.tabla
        BY <3>4 DEF Tipos, TiposDelDump
      <4>2. /\ Tmp \in DOMAIN archivos'[dump.tabla] /\ archivos'[dump.tabla][Tmp] = SinBloques
            /\ \A u \in Tablas : u # dump.tabla => archivos'[u] = archivos[u]
        BY <3>1, <3>4, EscribeDa DEF Tipos
      <4>3. \A u \in dump.faltan : Tmp \notin DOMAIN archivos'[u]
        BY <3>2, <4>2
      <4> QED BY <3>2, <4>1, <4>2, <4>3, SinBloquesEsArchivo DEF DumpInv
    <3> QED BY <2>4, <3>3, <3>4 DEF CrearTmp, SoloDump
  <2>5. ASSUME EscribirTmp PROVE DumpInv'
    <3>1. dump.pc = "escribirTmp" /\ dump.tabla \in Tablas
      BY <2>5 DEF EscribirTmp, Tipos, TiposDelDump
    <3>2. /\ \A u \in dump.faltan : u \in Tablas /\ Tmp \notin DOMAIN archivos[u]
          /\ dump.tabla \notin dump.faltan
      BY <3>1 DEF Sano, DumpInv, Tipos, TiposDelDump
    <3>3. dump' = [dump EXCEPT !.pc = "mirar"]
      BY <2>5 DEF EscribirTmp, SoloDump
    <3>4. dump'.pc = "mirar" /\ dump'.faltan = dump.faltan
      BY <3>3 DEF Tipos, TiposDelDump
    <3>5. \A u \in Tablas : u # dump.tabla => archivos'[u] = archivos[u]
      BY <2>5, TmpDa
    <3> QED BY <3>2, <3>4, <3>5 DEF DumpInv
  <2>6. ASSUME TerminarDump PROVE DumpInv'
    <3>1. dump' = Dormido
      BY <2>6 DEF TerminarDump, SoloDump
    <3>2. dump'.pc = "dormido"
      BY <3>1 DEF Dormido
    <3> QED BY <3>2 DEF DumpInv
  <2> QED BY <1>1, <1>3, <2>1, <2>2, <2>3, <2>4, <2>5, <2>6 DEF Dumpear
<1> QED BY <1>1, <1>2, <1>3, SoloEllos

\* What a compaction has read, after any step.
LEMMA NextCompactaInv ==
  ASSUME Tipos, Tipos', MutexInv, Sano, Next, ~Reiniciar, NEW j \in DOMAIN hilos'
  PROVE  CompactaInv(j)'
<1> DEFINE Bien(g) ==
             /\ \A n \in g.faltan \cup g.libera :
                  n \in DOMAIN archivos'[g.tabla] /\ archivos'[g.tabla][n].completo
             /\ g.libera \subseteq g.faltan \cup {TmpC}
             /\ g.pc = "bloquea" => g.libera = g.faltan \cup {TmpC}
<1>0. Bien(hilos'[j]) => CompactaInv(j)'
  BY DEF CompactaInv
<1>1. ASSUME NEW g, g.faltan = {}, g.libera = {}, g.pc # "bloquea" PROVE Bien(g)
  BY <1>1
<1>2. ASSUME NEW i \in DOMAIN hilos
      PROVE  /\ \A n \in hilos[i].faltan \cup hilos[i].libera :
                  /\ n \in DOMAIN archivos[hilos[i].tabla]
                  /\ archivos[hilos[i].tabla][n].completo
             /\ hilos[i].libera \subseteq hilos[i].faltan \cup {TmpC}
             /\ hilos[i].pc = "bloquea" => hilos[i].libera = hilos[i].faltan \cup {TmpC}
             /\ hilos[i].faltan \subseteq 1..Particiones /\ TmpC \notin hilos[i].faltan
             /\ hilos[i].tabla \in Tablas
  <2>1. hilos[i] \in UnHilo
    BY HiloDe DEF Tipos
  <2>2. TmpC \notin 1..Particiones
    BY ParticionesAssumption DEF TmpC
  <2> QED BY <2>1, <2>2 DEF Sano, CompactaInv, UnHilo
<1>3. ASSUME NEW i \in DOMAIN hilos, Compacta(i), j # i PROVE CompactaInv(j)'
  <2>1. /\ \A u \in Tablas : u # hilos[i].tabla => archivos'[u] = archivos[u]
        /\ \E g : Cambia(i, g)
        /\ hilos[i].pc \in EnUso
    BY <1>3, CompactaDa
  <2>2. j \in DOMAIN hilos /\ hilos'[j] = hilos[j]
    BY <1>3, <2>1 DEF Cambia, Tipos, TiposDeListas
  <2>3. CASE hilos[j].tabla = hilos[i].tabla
    <3>1. hilos[j].faltan = {} /\ hilos[j].libera = {} /\ hilos[j].pc \notin EnUso
      BY <1>3, <2>1, <2>2, <2>3, EnExclusiva DEF Sano
    <3> QED BY <1>0, <1>1, <2>2, <3>1 DEF EnUso
  <2>4. CASE hilos[j].tabla # hilos[i].tabla
    <3>1. archivos'[hilos[j].tabla] = archivos[hilos[j].tabla]
      BY <1>2, <2>1, <2>2, <2>4
    <3> QED BY <1>0, <1>2, <2>2, <3>1
  <2> QED BY <2>3, <2>4
<1>4. ASSUME Compacta(j), j \in DOMAIN hilos PROVE CompactaInv(j)'
  <2> DEFINE h == hilos[j]
  <2> PICK t \in Tablas : t = h.tabla
    BY <1>2, <1>4
  <2>1. \A g : Cambia(j, g) => hilos'[j] = g /\ g.tabla = t
    BY <1>4 DEF Cambia, Tipos, TiposDeListas
  <2>2. ~Revienta
    BY <1>4 DEF Compacta
  <2>3. TiposDelDisco
    BY DEF Tipos
  <2>4. CASE Renombrar(j)
    <3> DEFINE fs == Renombrados(archivos[t])
    <3> HIDE DEF fs
    <3>1. archivos' = [archivos EXCEPT ![t] = fs]
      BY <1>4, <2>2, <2>4, RenombrarDa DEF fs
    <3>2. archivos'[t] = fs
      BY <2>3, <3>1 DEF TiposDelDisco
    <3>3. PICK g : /\ Cambia(j, g)
                   /\ \/ g.faltan = {} /\ g.libera = {} /\ g.pc = "duerme"
                      \/ /\ g.libera = g.faltan \cup {TmpC}
                         /\ \A n \in g.libera : n \in DOMAIN fs /\ fs[n].completo
      BY <1>4, <2>2, <2>4, RenombrarDa DEF fs
    <3>4. Bien(g)
      BY <2>1, <3>2, <3>3
    <3> QED BY <1>0, <2>1, <3>3, <3>4
  <2>5. CASE BloquearTabla(j)
    <3>1. PICK g : /\ Cambia(j, g) /\ g.pc = "libera" /\ g.faltan = h.faltan
                   /\ g.libera = h.libera
      BY <1>4, <2>5, BloquearTablaDa
    <3>2. UNCHANGED archivos
      BY <1>4, <2>5, BloquearTablaDa
    <3>3. Bien(g)
      BY <1>2, <1>4, <2>1, <3>1, <3>2
    <3> QED BY <1>0, <2>1, <3>1, <3>3
  <2>6. CASE LiberarBloques(j)
    <3>1. PICK n \in h.libera : \E g :
              /\ Cambia(j, g) /\ g.pc # "bloquea" /\ g.faltan = h.faltan
              /\ g.libera = h.libera \ {n}
              /\ archivos' = IF n = TmpC
                             THEN [archivos EXCEPT ![t] = Restrict(@, DOMAIN @ \ {TmpC})]
                             ELSE archivos
      BY <1>4, <2>2, <2>6, LiberarBloquesDa
    <3>2. PICK g : /\ Cambia(j, g) /\ g.pc # "bloquea" /\ g.faltan = h.faltan
                   /\ g.libera = h.libera \ {n}
      BY <3>1
    <3>3. CASE n = TmpC
      <4>1. archivos' = [archivos EXCEPT ![t] = Restrict(@, DOMAIN @ \ {TmpC})]
        BY <3>1, <3>3
      <4>2. /\ DOMAIN archivos'[t] = DOMAIN archivos[t] \ {TmpC}
            /\ \A m \in DOMAIN archivos'[t] : archivos'[t][m] = archivos[t][m]
        BY <2>3, <4>1, QuitaDa, Zenon
      <4>3. Bien(g)
        BY <1>2, <1>4, <2>1, <3>2, <3>3, <4>2
      <4> QED BY <1>0, <2>1, <3>2, <4>3
    <3>4. CASE n # TmpC
      <4>1. UNCHANGED archivos
        BY <3>1, <3>4
      <4>2. Bien(g)
        BY <1>2, <1>4, <2>1, <3>2, <4>1
      <4> QED BY <1>0, <2>1, <3>2, <4>2
    <3> QED BY <3>3, <3>4
  <2>7. CASE PedirBloqueNuevo(j)
    <3>1. PICK g : /\ Cambia(j, g) /\ g.pc = "guarda" /\ g.faltan = h.faltan
                   /\ g.libera = h.libera
      BY <1>4, <2>7, PedirBloqueNuevoDa
    <3>2. UNCHANGED archivos
      BY <1>4, <2>7, PedirBloqueNuevoDa
    <3>3. Bien(g)
      BY <1>2, <1>4, <2>1, <3>1, <3>2
    <3> QED BY <1>0, <2>1, <3>1, <3>3
  <2>8. CASE GuardarParticion(j)
    <3>1. PICK n \in h.faltan : \E g :
              /\ Cambia(j, g) /\ g.pc # "bloquea" /\ g.faltan = h.faltan \ {n}
              /\ g.libera = {} /\ Escribe(t, n, ConBloques(h.bloques))
      BY <1>4, <2>2, <2>8, GuardarParticionDa
    <3>2. PICK g : /\ Cambia(j, g) /\ g.pc # "bloquea" /\ g.faltan = h.faltan \ {n}
                   /\ g.libera = {} /\ Escribe(t, n, ConBloques(h.bloques))
      BY <3>1
    <3>3. /\ DOMAIN archivos'[t] = DOMAIN archivos[t] \cup {n}
          /\ \A m \in DOMAIN archivos[t] : m # n => archivos'[t][m] = archivos[t][m]
      BY <2>3, <3>2, EscribeDa
    <3>4. Bien(g)
      BY <1>2, <1>4, <2>1, <3>2, <3>3
    <3> QED BY <1>0, <2>1, <3>2, <3>4
  <2> QED BY <1>4, <2>4, <2>5, <2>6, <2>7, <2>8 DEF Compacta, Compactar
<1>5. ASSUME \A i \in DOMAIN hilos : ~Compacta(i) PROVE CompactaInv(j)'
  <2>1. CASE hilos'[j].faltan = {} /\ hilos'[j].libera = {} /\ hilos'[j].pc # "bloquea"
    BY <1>0, <1>1, <2>1
  <2>2. CASE /\ j \in DOMAIN hilos /\ hilos'[j].tabla = hilos[j].tabla
             /\ hilos'[j].faltan = hilos[j].faltan /\ hilos'[j].libera = hilos[j].libera
             /\ hilos'[j].pc = hilos[j].pc \/ hilos'[j].pc # "bloquea"
    <3> PICK t \in Tablas : t = hilos[j].tabla
      BY <1>2, <2>2
    <3>1. ASSUME NEW n \in hilos[j].faltan \cup hilos[j].libera
          PROVE  n \in DOMAIN archivos'[t] /\ archivos'[t][n].completo
      <4>1. n \in DOMAIN archivos[t] /\ archivos[t][n].completo
        BY <1>2, <2>2, <3>1
      <4>2. hilos[j].pc \in EnUso
        BY <2>2, <3>1, SinCompactar
      <4>3. \A c \in Clientes : cliente[c].tabla = t => cliente[c].pc \notin ConMutex
        BY <2>2, <4>2, EnExclusiva DEF Sano
      <4>4. \A c \in Clientes : BorrarArchivo(c) => cliente[c].tabla # t
        BY <4>3 DEF BorrarArchivo, ConMutex
      <4>5. archivos'[t][n] = archivos[t][n] /\ n \in DOMAIN archivos'[t]
        BY <1>5, <4>1, <4>4, ArchivoQueda
      <4> QED BY <4>1, <4>5
    <3>2. Bien(hilos'[j])
      BY <1>2, <2>2, <3>1
    <3> QED BY <1>0, <3>2
  <2> QED BY <1>5, <2>1, <2>2, HiloMantiene DEF EnUso, Tipos
<1>6. ASSUME NEW i \in DOMAIN hilos, Compacta(i) PROVE j \in DOMAIN hilos
  <2>1. \E g : Cambia(i, g)
    BY <1>6, CompactaDa
  <2> QED BY <2>1 DEF Cambia, Tipos, TiposDeListas
<1> QED BY <1>3, <1>4, <1>5, <1>6

LEMMA NextTmpCInv ==
  ASSUME Tipos, Tipos', MutexInv, Sano, Next, ~Reiniciar, NEW t \in Tablas
  PROVE  TmpCInv(t)'
<1> SUFFICES ASSUME TmpC \in DOMAIN archivos'[t], archivos'[t][TmpC].bloques # {}
             PROVE  \E j \in DOMAIN hilos' : hilos'[j].tabla = t /\ TmpC \in hilos'[j].libera
  BY DEF TmpCInv
<1>1. Tmp # TmpC /\ TmpC \notin 1..Particiones
  BY ParticionesAssumption DEF Tmp, TmpC
<1>2. ASSUME TmpC \in DOMAIN archivos[t], archivos'[t][TmpC] = archivos[t][TmpC]
      PROVE  \E j \in DOMAIN hilos : hilos[j].tabla = t /\ TmpC \in hilos[j].libera
  BY <1>2 DEF Sano, TmpCInv
<1>3. ASSUME NEW i \in DOMAIN hilos, Compacta(i)
      PROVE  \E j \in DOMAIN hilos' : hilos'[j].tabla = t /\ TmpC \in hilos'[j].libera
  <2> DEFINE h == hilos[i]
  <2> PICK u \in Tablas : u = h.tabla
    BY HiloDe DEF Tipos
  <2>1. \A g : Cambia(i, g) => /\ DOMAIN hilos' = DOMAIN hilos /\ hilos'[i] = g /\ g.tabla = u
                               /\ \A j \in DOMAIN hilos : j # i => hilos'[j] = hilos[j]
    BY DEF Cambia, Tipos, TiposDeListas
  <2>2. ~Revienta
    BY <1>3 DEF Compacta
  <2>3. TiposDelDisco
    BY DEF Tipos
  <2>4. CASE u # t
    <3>1. archivos'[t] = archivos[t] /\ \E g : Cambia(i, g)
      BY <1>3, <2>4, CompactaDa
    <3>2. PICK j \in DOMAIN hilos : hilos[j].tabla = t /\ TmpC \in hilos[j].libera
      BY <1>2, <3>1
    <3>3. hilos'[j] = hilos[j] /\ j \in DOMAIN hilos'
      BY <2>1, <2>4, <3>1, <3>2
    <3> QED BY <3>2, <3>3
  <2>5. ASSUME NEW g, Cambia(i, g), \A n \in h.libera : n \in g.libera \/ n # TmpC,
               TmpC \in DOMAIN archivos[t], archivos'[t][TmpC] = archivos[t][TmpC]
        PROVE  \E j \in DOMAIN hilos' : hilos'[j].tabla = t /\ TmpC \in hilos'[j].libera
    <3>1. PICK j \in DOMAIN hilos : hilos[j].tabla = t /\ TmpC \in hilos[j].libera
      BY <1>2, <2>5
    <3>2. CASE j = i
      BY <2>1, <2>5, <3>1, <3>2
    <3>3. CASE j # i
      <4>1. hilos'[j] = hilos[j] /\ j \in DOMAIN hilos'
        BY <2>1, <2>5, <3>3
      <4> QED BY <3>1, <4>1
    <3> QED BY <3>2, <3>3
  <2>6. CASE u = t /\ Renombrar(i)
    <3> DEFINE fs == Renombrados(archivos[t])
    <3> HIDE DEF fs
    <3>0. hilos[i].tabla = t
      BY <2>6
    <3>1. archivos' = [archivos EXCEPT ![t] = fs]
      BY <2>2, <2>6, <3>0, RenombrarDa DEF fs
    <3>2. archivos'[t] = fs
      BY <2>3, <3>1 DEF TiposDelDisco
    <3>3. PICK g : /\ Cambia(i, g)
                   /\ \/ TmpC \in DOMAIN fs => fs[TmpC].bloques = {}
                      \/ TmpC \in g.libera
      BY <2>2, <2>6, <3>0, RenombrarDa DEF fs
    <3>4. TmpC \in g.libera
      BY <3>2, <3>3
    <3> QED BY <2>1, <2>6, <3>3, <3>4
  <2>7. CASE u = t /\ BloquearTabla(i)
    <3>1. UNCHANGED archivos
      BY <2>7, BloquearTablaDa
    <3>2. PICK g : Cambia(i, g) /\ g.libera = h.libera
      BY <2>7, BloquearTablaDa
    <3> QED BY <2>5, <3>1, <3>2
  <2>8. CASE u = t /\ LiberarBloques(i)
    <3>0. hilos[i].tabla = t
      BY <2>8
    <3>1. PICK n \in h.libera : \E g :
              /\ Cambia(i, g) /\ g.libera = h.libera \ {n}
              /\ archivos' = IF n = TmpC
                             THEN [archivos EXCEPT ![t] = Restrict(@, DOMAIN @ \ {TmpC})]
                             ELSE archivos
      BY <2>2, <2>8, <3>0, LiberarBloquesDa
    <3>2. n # TmpC
      <4> SUFFICES ASSUME n = TmpC PROVE FALSE
        OBVIOUS
      <4>1. archivos' = [archivos EXCEPT ![t] = Restrict(@, DOMAIN @ \ {TmpC})]
        BY <3>1
      <4>2. DOMAIN archivos'[t] = DOMAIN archivos[t] \ {TmpC}
        BY <2>3, <4>1, QuitaDa, Zenon
      <4> QED BY <4>2
    <3>3. UNCHANGED archivos
      BY <3>1, <3>2
    <3>4. PICK g : Cambia(i, g) /\ g.libera = h.libera \ {n}
      BY <3>1
    <3> QED BY <2>5, <3>2, <3>3, <3>4
  <2>9. CASE u = t /\ PedirBloqueNuevo(i)
    <3>1. UNCHANGED archivos
      BY <2>9, PedirBloqueNuevoDa
    <3>2. PICK g : Cambia(i, g) /\ g.libera = h.libera
      BY <2>9, PedirBloqueNuevoDa
    <3> QED BY <2>5, <3>1, <3>2
  <2>10. CASE u = t /\ GuardarParticion(i)
    <3>1. h.libera = {}
      BY <2>2, <2>10, GuardarParticionDa
    <3>2. PICK n \in h.faltan : \E g : Cambia(i, g) /\ Escribe(t, n, ConBloques(h.bloques))
      BY <2>2, <2>10, GuardarParticionDa
    <3>3. PICK g : Cambia(i, g)
      BY <3>2
    <3>4. n # TmpC
      <4>1. h \in UnHilo
        BY HiloDe DEF Tipos
      <4> QED BY <1>1, <4>1 DEF UnHilo
    <3>5. TmpC \in DOMAIN archivos[t] /\ archivos'[t][TmpC] = archivos[t][TmpC]
      BY <2>3, <3>2, <3>4, EscribeDa
    <3> QED BY <2>5, <3>1, <3>3, <3>5
  <2> QED BY <1>3, <2>4, <2>6, <2>7, <2>8, <2>9, <2>10 DEF Compacta, Compactar
<1>4. ASSUME \A i \in DOMAIN hilos : ~Compacta(i)
      PROVE  \E j \in DOMAIN hilos' : hilos'[j].tabla = t /\ TmpC \in hilos'[j].libera
  <2>1. ASSUME NEW n \in 1..Particiones, NEW f, Escribe(t, n, f)
        PROVE  TmpC \in DOMAIN archivos[t] /\ archivos'[t][TmpC] = archivos[t][TmpC]
    BY <1>1, <2>1, EscribeDa DEF Tipos
  <2>2. ASSUME NEW c \in Clientes, ArchivosDe(c)
        PROVE  TmpC \in DOMAIN archivos[t] /\ archivos'[t][TmpC] = archivos[t][TmpC]
    <3>1. CASE cliente[c].tabla # t
      BY <2>2, <3>1, SoloSuTabla
    <3>2. CASE cliente[c].tabla = t /\ AbrirParticion(c) /\ ~UNCHANGED archivos
      BY <2>1, <3>2, AbrirDa
    <3>3. CASE cliente[c].tabla = t /\ EscribirParticion(c) /\ ~UNCHANGED archivos
      <4>1. ~Revienta
        BY <3>3 DEF Revienta, disco
      <4> QED BY <2>1, <3>3, <4>1, EscribirDa
    <3>4. CASE cliente[c].tabla = t /\ BorrarArchivo(c)
      <4> PICK x : x = cliente[c].nombre
        OBVIOUS
      <4>1. archivos' = [archivos EXCEPT ![t] = Restrict(@, DOMAIN @ \ {x})]
        BY <3>4, BorrarDa
      <4>2. TiposDelDisco
        BY DEF Tipos
      <4>3. /\ DOMAIN archivos'[t] = DOMAIN archivos[t] \ {x}
            /\ \A m \in DOMAIN archivos'[t] : archivos'[t][m] = archivos[t][m]
        BY <4>1, <4>2, QuitaDa, Zenon
      <4> QED BY <4>3
    <3> QED BY <2>2, <3>1, <3>2, <3>3, <3>4 DEF ArchivosDe
  <2>3. ASSUME CrearTmp \/ EscribirTmp, ~UNCHANGED archivos
        PROVE  TmpC \in DOMAIN archivos[t] /\ archivos'[t][TmpC] = archivos[t][TmpC]
    BY <1>1, <2>3, TmpDa
  <2>4. TmpC \in DOMAIN archivos[t] /\ archivos'[t][TmpC] = archivos[t][TmpC]
    BY <1>4, <2>2, <2>3, SoloEllos
  <2>5. PICK j \in DOMAIN hilos : hilos[j].tabla = t /\ TmpC \in hilos[j].libera
    BY <1>2, <2>4
  <2>6. j \in DOMAIN hilos'
    BY <2>5, HilosQuedan DEF Tipos
  <2>7. hilos'[j].tabla = hilos[j].tabla /\ hilos'[j].libera = hilos[j].libera
    BY <1>4, <2>5, <2>6, HiloMantiene DEF Tipos
  <2> QED BY <2>5, <2>6, <2>7
<1> QED BY <1>3, <1>4

\* The files that list a block, those that are being removed or written apart.
Pares(fs, q, b) ==
  {p \in Tablas \X Nombres : /\ p[2] \in DOMAIN fs[p[1]] /\ b \in fs[p[1]][p[2]].bloques
                             /\ p \notin q}
Fuera == Quitados \cup {p \in Tablas \X Nombres : Reescrito(p[1], p[2])}

LEMMA EnPares ==
  ASSUME NEW fs, NEW q, NEW b, NEW t \in Tablas, NEW n \in Nombres
  PROVE  <<t, n>> \in Pares(fs, q, b) <=>
           n \in DOMAIN fs[t] /\ b \in fs[t][n].bloques /\ <<t, n>> \notin q
BY DEF Pares

LEMMA EnFuera ==
  ASSUME NEW t \in Tablas, NEW n \in Nombres
  PROVE  /\ <<t, n>> \in Fuera <=> <<t, n>> \in Quitados \/ Reescrito(t, n)
         /\ <<t, n>> \in Fuera' <=> <<t, n>> \in Quitados' \/ Reescrito(t, n)'
BY DEF Fuera

LEMMA ParesIguales ==
  ASSUME NEW S, NEW R, S \subseteq Tablas \X Nombres, R \subseteq Tablas \X Nombres,
         \A t \in Tablas, n \in Nombres : <<t, n>> \in S <=> <<t, n>> \in R
  PROVE  S = R
<1>1. \A p \in Tablas \X Nombres : \E t \in Tablas, n \in Nombres : p = <<t, n>>
  OBVIOUS
<1> QED BY <1>1

\* A set of files that has none.
LEMMA NingunPar ==
  ASSUME NEW S, S \subseteq Tablas \X Nombres,
         \A u \in Tablas, m \in Nombres : <<u, m>> \notin S
  PROVE  S = {}
<1>1. \A p \in S : \E u \in Tablas, m \in Nombres : p = <<u, m>>
  OBVIOUS
<1> QED BY <1>1

LEMMA ListanEs ==
  /\ \A b : Listan(b) = Pares(archivos, Fuera, b)
  /\ \A b : Listan(b)' = Pares(archivos', Fuera', b)
  /\ \A fs, q, b : Pares(fs, q, b) \subseteq Tablas \X Nombres
<1>1. \A fs, q, b : Pares(fs, q, b) \subseteq Tablas \X Nombres
  BY DEF Pares
<1>2. \A b : Listan(b) = Pares(archivos, Fuera, b)
  BY DEF Listan, Pares, Fuera
<1>3. \A b : Listan(b)' = Pares(archivos', Fuera', b)
  BY DEF Listan, Pares, Fuera
<1> QED BY <1>1, <1>2, <1>3

LEMMA ListanIgual ==
  ASSUME NEW b, Fuera' = Fuera,
         \A t \in Tablas, n \in Nombres :
           n \in DOMAIN archivos'[t] /\ b \in archivos'[t][n].bloques
             <=> n \in DOMAIN archivos[t] /\ b \in archivos[t][n].bloques
  PROVE  Listan(b)' = Listan(b)
<1> DEFINE S == Pares(archivos', Fuera', b)
           R == Pares(archivos, Fuera, b)
<1>1. \A t \in Tablas, n \in Nombres : <<t, n>> \in S <=> <<t, n>> \in R
  BY EnPares
<1>2. S \subseteq Tablas \X Nombres /\ R \subseteq Tablas \X Nombres
  BY ListanEs
<1> HIDE DEF S, R
<1>3. S = R
  BY <1>1, <1>2, ParesIguales
<1> QED BY <1>3, ListanEs DEF S, R

\* Threads that stay as they are.
LEMMA HilosQuietos ==
  ASSUME UNCHANGED hilos
  PROVE  /\ \A b : EnHiloDe(b)' = EnHiloDe(b)
         /\ \A t, n : Reescrito(t, n)' <=> Reescrito(t, n)
BY DEF EnHiloDe, Reescrito

LEMMA FueraIgual ==
  ASSUME Quitados' = Quitados,
         \A t \in Tablas, n \in Nombres : Reescrito(t, n)' <=> Reescrito(t, n)
  PROVE  Fuera' = Fuera
<1> DEFINE S == {p \in Tablas \X Nombres : Reescrito(p[1], p[2])}
           R == {p \in Tablas \X Nombres : Reescrito(p[1], p[2])'}
<1>1. S \subseteq Tablas \X Nombres /\ R \subseteq Tablas \X Nombres
  OBVIOUS
<1>2. \A t \in Tablas, n \in Nombres : <<t, n>> \in R <=> <<t, n>> \in S
  OBVIOUS
<1>3. Fuera = Quitados \cup S /\ Fuera' = Quitados' \cup R
  BY DEF Fuera
<1> HIDE DEF S, R
<1>4. R = S
  BY <1>1, <1>2, ParesIguales
<1> QED BY <1>3, <1>4

\* Which clients get a block, or write it, or begin or end to remove a file.
LEMMA ManoDe ==
  ASSUME Tipos, Tipos', Next, ~Reiniciar, NEW d \in Clientes, NEW b \in Bloques,
         cliente'[d] = cliente[d] \/ ~(PedirBloque(d) \/ EscribirParticion(d))
  PROVE  cliente'[d].bloque = b <=> cliente[d].bloque = b
<1>1. /\ cliente[d].bloque # -1 <=> cliente[d].pc = "escribirParticion"
      /\ cliente'[d].bloque # -1 <=> cliente'[d].pc = "escribirParticion"
  BY DEF Tipos, TiposDeClientes, EnSuLugar
<1>2. b # -1
  BY DEF Bloques
<1>3. CASE cliente'[d] # cliente[d]
  <2>1. cliente'[d].pc # "escribirParticion" /\ cliente[d].pc # "escribirParticion"
    BY <1>3, PcSigue, AccionDe, LibreEsPedido DEF Sigue, Tipos
  <2> QED BY <1>1, <1>2, <2>1
<1> QED BY <1>3

LEMMA ManosIguales ==
  ASSUME Tipos, Tipos', Next, ~Reiniciar, NEW b \in Bloques,
         \A d \in Clientes :
           cliente'[d] = cliente[d] \/ ~(PedirBloque(d) \/ EscribirParticion(d))
  PROVE  EnManoDe(b)' = EnManoDe(b)
BY ManoDe DEF EnManoDe

LEMMA RemoveDe ==
  ASSUME Tipos, Next, ~Reiniciar, NEW d \in Clientes,
         cliente'[d] = cliente[d] \/ ~(LiberarArchivo(d) \/ BorrarArchivo(d))
  PROVE  \/ cliente'[d] = cliente[d]
         \/ cliente'[d].pc # "remove" /\ cliente[d].pc # "remove"
<1>1. ASSUME BorrarDirectorio(d) PROVE cliente'[d].pc = "condenar"
  <2>1. cliente'[d] = [cliente[d] EXCEPT !.pc = "condenar"] /\ cliente[d] \in Pedido
    BY <1>1, LugarDe DEF BorrarDirectorio, EnDisco, Pasa, Tipos, TiposDeClientes
  <2> QED BY <2>1 DEF Pedido
<1> QED BY <1>1, PcSigue, AccionDe, LibreEsPedido DEF Sigue, Tipos

LEMMA QuitadosIguales ==
  ASSUME Tipos, Next, ~Reiniciar,
         \A d \in Clientes :
           cliente'[d] = cliente[d] \/ ~(LiberarArchivo(d) \/ BorrarArchivo(d))
  PROVE  Quitados' = Quitados
<1>1. \A d \in Clientes : \/ cliente'[d] = cliente[d]
                          \/ cliente'[d].pc # "remove" /\ cliente[d].pc # "remove"
  BY RemoveDe
<1> QED BY <1>1 DEF Quitados

\* While a client has a table to itself, no other one is removing a file of it.
LEMMA QuitadosDe ==
  ASSUME Tipos, Sano, NEW c \in Clientes, NEW t \in Tablas, NEW n, Ocupado(c, t),
         <<t, n>> \in Quitados
  PROVE  cliente[c].pc = "remove" /\ cliente[c].nombre = n
<1>1. PICK d \in Clientes : /\ cliente[d].pc = "remove" /\ cliente[d].tabla = t
                            /\ cliente[d].nombre = n
  BY DEF Quitados
<1>2. Ocupado(d, t)
  BY <1>1, OcupadoDe DEF Tipos, PasosDeDrop
<1> QED BY <1>1, <1>2 DEF Sano, UnoPorTabla

\* What a DROP frees is not being written by a compaction, nor is what is not complete,
\* or is no partition.
LEMMA NoReescrito ==
  ASSUME Tipos, MutexInv, Sano, NEW t \in Tablas, NEW n,
         \/ \E c \in Clientes : cliente[c].tabla = t /\ cliente[c].pc \in ConMutex
         \/ n \notin DOMAIN archivos[t] \/ ~archivos[t][n].completo
         \/ n \notin 1..Particiones
  PROVE  ~Reescrito(t, n)
<1> SUFFICES ASSUME NEW i \in DOMAIN hilos, hilos[i].tabla = t, n \in hilos[i].faltan
             PROVE  FALSE
  BY DEF Reescrito
<1>1. hilos[i].pc \in EnUso
  BY SinCompactar
<1>2. \A c \in Clientes : cliente[c].tabla = t => cliente[c].pc \notin ConMutex
  BY <1>1, EnExclusiva DEF Sano
<1>3. n \in DOMAIN archivos[t] /\ archivos[t][n].completo
  BY DEF Sano, CompactaInv
<1>4. n \in 1..Particiones
  BY HiloDe DEF Tipos, UnHilo
<1> QED BY <1>2, <1>3, <1>4

LEMMA DuenioIgual ==
  ASSUME NEW b, UnDuenio(b), EnManoDe(b)' = EnManoDe(b), EnHiloDe(b)' = EnHiloDe(b),
         Listan(b)' = Listan(b), b \in bitmap' <=> b \in bitmap
  PROVE  UnDuenio(b)'
BY DEF UnDuenio

\* The client that acts is the only one that moves.
LEMMA SoloUno ==
  ASSUME Tipos, NEW c \in Clientes, NEW r, cliente' = [cliente EXCEPT ![c] = r]
  PROVE  cliente'[c] = r /\ \A d \in Clientes : d # c => cliente'[d] = cliente[d]
BY DEF Tipos, TiposDeClientes

LEMMA PedirDuenio ==
  ASSUME Tipos, Tipos', MutexInv, Sano, Next, ~Reiniciar, NEW c \in Clientes, PedirBloque(c),
         NEW b \in Bloques
  PROVE  UnDuenio(b)'
<1> DEFINE r == cliente[c]
           x == BloqueDisponible
           s == [r EXCEPT !.pc = "escribirParticion", !.bloque = x]
<1>1. /\ r.pc = "pedirBloque" /\ r \in Pedido /\ UNCHANGED archivos
      /\ bitmap' = bitmap \cup ({x} \ {-1})
      /\ IF x = -1 THEN cliente' = [cliente EXCEPT ![c] = OtraParticion(r)]
         ELSE cliente' = [cliente EXCEPT ![c] = s]
  BY LugarDe DEF PedirBloque, EnDisco, Pasa, Marcado, Tipos
<1>0. UNCHANGED hilos
  BY DEF PedirBloque, EnDisco, Pasa
<1>2. \A d \in Clientes : d # c => cliente'[d] = cliente[d]
  BY <1>1, SoloUno
<1>3. ~LiberarArchivo(c) /\ ~BorrarArchivo(c)
  BY <1>1 DEF LiberarArchivo, BorrarArchivo
<1>4. Fuera' = Fuera /\ EnHiloDe(b)' = EnHiloDe(b)
  BY <1>0, <1>2, <1>3, QuitadosIguales, FueraIgual, HilosQuietos
<1>5. Listan(b)' = Listan(b)
  BY <1>1, <1>4, ListanIgual
<1>6. r.bloque = -1 /\ b # -1
  BY <1>1, LugarDe DEF Tipos, Bloques
<1>7. UnDuenio(b)
  BY DEF Sano
<1>8. CASE b # x
  <2>1. cliente'[c].bloque # b
    <3>1. CASE x = -1
      <4>1. cliente'[c] = OtraParticion(r)
        BY <1>1, <3>1, SoloUno
      <4>2. cliente'[c].bloque = -1
        BY <1>1, <4>1 DEF OtraParticion, Pedido
      <4> QED BY <1>6, <4>2
    <3>2. CASE x # -1
      <4>1. cliente'[c] = s
        BY <1>1, <3>2, SoloUno
      <4>2. s.bloque = x
        BY <1>1 DEF Pedido
      <4> QED BY <1>8, <4>1, <4>2
    <3> QED BY <3>1, <3>2
  <2>2. EnManoDe(b)' = EnManoDe(b)
    BY <1>2, <1>6, <2>1 DEF EnManoDe
  <2>3. b \in bitmap' <=> b \in bitmap
    BY <1>1, <1>8
  <2> QED BY <1>4, <1>5, <1>7, <2>2, <2>3, DuenioIgual
<1>9. CASE b = x
  <2>1. cliente'[c] = s
    BY <1>1, <1>6, <1>9, SoloUno
  <2>2. cliente'[c].bloque = b
    BY <1>1, <1>9, <2>1 DEF Pedido
  <2>3. b \notin bitmap
    BY <1>6, <1>9, HayBloque
  <2>4. EnManoDe(b) = {} /\ Listan(b) = {} /\ EnHiloDe(b) = {}
    BY <1>7, <2>3 DEF UnDuenio
  <2>5. EnManoDe(b)' = {c}
    BY <1>2, <2>2, <2>4 DEF EnManoDe
  <2>6. b \in bitmap'
    BY <1>1, <1>6, <1>9
  <2> QED BY <1>4, <1>5, <2>4, <2>5, <2>6 DEF UnDuenio
<1> QED BY <1>8, <1>9

LEMMA EscribirDuenio ==
  ASSUME Tipos, Tipos', MutexInv, Sano, Next, ~Reiniciar, NEW c \in Clientes, EscribirParticion(c),
         ~Revienta, NEW b \in Bloques
  PROVE  UnDuenio(b)'
<1> DEFINE r == cliente[c]
           t == r.tabla
           m == r.nombre
<1>1. /\ r.pc = "escribirParticion" /\ t \in Tablas /\ m \in 1..Particiones
      /\ r.bloque \in Bloques /\ Escribe(t, m, ConBloques({r.bloque}))
      /\ cliente' = [cliente EXCEPT ![c] = OtraParticion(r)] /\ UNCHANGED bitmap
  BY EscribirDa
<1>0. UNCHANGED hilos
  BY EscribirDa
<1>2. \A d \in Clientes : d # c => cliente'[d] = cliente[d]
  BY <1>1, SoloUno
<1>3. ~LiberarArchivo(c) /\ ~BorrarArchivo(c)
  BY <1>1 DEF LiberarArchivo, BorrarArchivo
<1>4. Fuera' = Fuera /\ EnHiloDe(b)' = EnHiloDe(b)
  BY <1>0, <1>2, <1>3, QuitadosIguales, FueraIgual, HilosQuietos
<1>5. UnDuenio(b) /\ m \in Nombres
  BY <1>1, ParticionesAssumption DEF Sano, Nombres
<1>6. cliente'[c].bloque = -1
  <2>1. cliente'[c] = OtraParticion(r) /\ r \in Pedido
    BY <1>1, SoloUno, LugarDe DEF Tipos
  <2> QED BY <2>1 DEF OtraParticion, Pedido
<1>7. /\ \A u \in Tablas : u # t => archivos'[u] = archivos[u]
      /\ DOMAIN archivos'[t] = DOMAIN archivos[t] \cup {m}
      /\ archivos'[t][m].bloques = {r.bloque}
      /\ \A n \in DOMAIN archivos[t] : n # m => archivos'[t][n] = archivos[t][n]
  <2>1. ASSUME NEW f, Escribe(t, m, f)
        PROVE  /\ \A u \in Tablas : u # t => archivos'[u] = archivos[u]
               /\ DOMAIN archivos'[t] = DOMAIN archivos[t] \cup {m}
               /\ archivos'[t][m] = f
               /\ \A n \in DOMAIN archivos[t] : n # m => archivos'[t][n] = archivos[t][n]
    BY <1>1, <2>1, EscribeDa DEF Tipos
  <2>2. ConBloques({r.bloque}).bloques = {r.bloque}
    BY DEF ConBloques
  <2> QED BY <1>1, <2>1, <2>2
<1>8. m \in DOMAIN archivos[t] /\ ~archivos[t][m].completo /\ archivos[t][m].bloques = {}
  BY <1>1 DEF Sano, CreateInv, Tipos, TiposDelDisco
<1>9. Ocupado(c, t)
  BY <1>1, OcupadoDe DEF Tipos, PasosDeCreate
<1>10. b # -1
  BY DEF Bloques
<1>11. CASE b # r.bloque
  <2>1. EnManoDe(b)' = EnManoDe(b)
    BY <1>2, <1>6, <1>10, <1>11 DEF EnManoDe
  <2>2. \A u \in Tablas, n \in Nombres :
           n \in DOMAIN archivos'[u] /\ b \in archivos'[u][n].bloques
             <=> n \in DOMAIN archivos[u] /\ b \in archivos[u][n].bloques
    <3> SUFFICES ASSUME NEW u \in Tablas, NEW n \in Nombres
                 PROVE  n \in DOMAIN archivos'[u] /\ b \in archivos'[u][n].bloques
                          <=> n \in DOMAIN archivos[u] /\ b \in archivos[u][n].bloques
      OBVIOUS
    <3>1. CASE u = t /\ n = m
      BY <1>7, <1>8, <1>11, <3>1
    <3>2. CASE u # t \/ n # m
      BY <1>7, <3>2
    <3> QED BY <3>1, <3>2
  <2>3. Listan(b)' = Listan(b)
    BY <1>4, <2>2, ListanIgual
  <2> QED BY <1>1, <1>4, <1>5, <2>1, <2>3, DuenioIgual
<1>12. CASE b = r.bloque
  <2>1. c \in EnManoDe(b)
    BY <1>12 DEF EnManoDe
  <2>2. EnManoDe(b)' = {}
    BY <1>2, <1>5, <1>6, <1>10, <2>1 DEF UnDuenio, EnManoDe
  <2>3. Listan(b) = {} /\ EnHiloDe(b) = {} /\ b \in bitmap
    BY <1>5, <2>1 DEF UnDuenio
  <2>4. <<t, m>> \notin Fuera
    <3>1. <<t, m>> \notin Quitados
      BY <1>1, <1>9, QuitadosDe
    <3>2. ~Reescrito(t, m)
      BY <1>1, <1>8, NoReescrito
    <3> QED BY <1>1, <1>5, <3>1, <3>2, EnFuera
  <2>5. \A u \in Tablas, n \in Nombres : <<u, n>> \in Listan(b)' <=> u = t /\ n = m
    <3> SUFFICES ASSUME NEW u \in Tablas, NEW n \in Nombres
                 PROVE  <<u, n>> \in Listan(b)' <=> u = t /\ n = m
      OBVIOUS
    <3>1. <<u, n>> \in Listan(b)' <=>
            n \in DOMAIN archivos'[u] /\ b \in archivos'[u][n].bloques /\ <<u, n>> \notin Fuera
      BY <1>4, ListanEs, EnPares
    <3>2. ~(n \in DOMAIN archivos[u] /\ b \in archivos[u][n].bloques /\ <<u, n>> \notin Fuera)
      BY <2>3, ListanEs, EnPares
    <3>3. CASE u = t /\ n = m
      BY <1>7, <1>12, <2>4, <3>1, <3>3
    <3>4. CASE u # t \/ n # m
      BY <1>7, <3>1, <3>2, <3>4
    <3> QED BY <3>3, <3>4
  <2>6. Listan(b)' # {} /\ \A p, q \in Listan(b)' : p = q
    <3>1. \A p \in Listan(b)' : \E u \in Tablas, n \in Nombres : p = <<u, n>>
      BY ListanEs
    <3>2. <<t, m>> \in Listan(b)'
      BY <1>1, <1>5, <2>5
    <3>3. \A p \in Listan(b)' : p = <<t, m>>
      BY <2>5, <3>1
    <3> QED BY <3>2, <3>3
  <2> QED BY <1>1, <1>4, <2>2, <2>3, <2>6 DEF UnDuenio
<1> QED BY <1>11, <1>12

LEMMA LiberarDuenio ==
  ASSUME Tipos, Tipos', MutexInv, Sano, Next, ~Reiniciar, NEW c \in Clientes, LiberarArchivo(c),
         ~Revienta, NEW b \in Bloques
  PROVE  UnDuenio(b)'
<1> DEFINE r == cliente[c]
           t == r.tabla
<1>1. r.pc = "readdir" /\ t \in Tablas /\ Ocupado(c, t) /\ r \in Pedido
  <2>1. r.pc = "readdir"
    BY DEF LiberarArchivo
  <2> QED BY <2>1, LugarDe, OcupadoDe DEF Tipos, PasosDeDrop
<1>2. PICK m \in DOMAIN archivos[t] :
        /\ bitmap' = bitmap \ archivos[t][m].bloques /\ UNCHANGED archivos
        /\ cliente' = [cliente EXCEPT ![c] = [r EXCEPT !.pc = "remove", !.nombre = m]]
  BY DEF LiberarArchivo, EnDisco, Pasa
<1>0. UNCHANGED hilos
  BY DEF LiberarArchivo, EnDisco, Pasa
<1>3. \A d \in Clientes : d # c => cliente'[d] = cliente[d]
  BY <1>2, SoloUno
<1>4. cliente'[c].pc = "remove" /\ cliente'[c].tabla = t /\ cliente'[c].nombre = m
      /\ cliente'[c].bloque = r.bloque
  <2>1. cliente'[c] = [r EXCEPT !.pc = "remove", !.nombre = m]
    BY <1>2, SoloUno
  <2> QED BY <1>1, <2>1 DEF Pedido
<1>5. EnManoDe(b)' = EnManoDe(b)
  BY <1>3, <1>4 DEF EnManoDe
<1>6. \A q : q \in Quitados' <=> q \in Quitados \/ q = <<t, m>>
  BY <1>1, <1>3, <1>4 DEF Quitados
<1>8. m \in Nombres /\ UnDuenio(b)
  BY <1>1 DEF Sano, Tipos, TiposDelDisco
<1>7. <<t, m>> \notin Fuera
  <2>1. <<t, m>> \notin Quitados
    BY <1>1, QuitadosDe
  <2>2. ~Reescrito(t, m)
    BY <1>1, NoReescrito DEF ConMutex
  <2> QED BY <1>1, <1>8, <2>1, <2>2, EnFuera
<1>11. \A u \in Tablas, n \in Nombres :
         <<u, n>> \in Fuera' <=> <<u, n>> \in Fuera \/ <<u, n>> = <<t, m>>
  BY <1>0, <1>6, EnFuera, HilosQuietos
<1>12. EnHiloDe(b)' = EnHiloDe(b)
  BY <1>0, HilosQuietos
<1>9. CASE b \notin archivos[t][m].bloques
  <2>1. \A u \in Tablas, n \in Nombres : <<u, n>> \in Listan(b)' <=> <<u, n>> \in Listan(b)
    <3> SUFFICES ASSUME NEW u \in Tablas, NEW n \in Nombres
                 PROVE  <<u, n>> \in Listan(b)' <=> <<u, n>> \in Listan(b)
      OBVIOUS
    <3>1. <<u, n>> \in Listan(b)' <=>
            n \in DOMAIN archivos[u] /\ b \in archivos[u][n].bloques /\ <<u, n>> \notin Fuera'
      BY <1>2, ListanEs, EnPares
    <3>2. <<u, n>> \in Listan(b) <=>
            n \in DOMAIN archivos[u] /\ b \in archivos[u][n].bloques /\ <<u, n>> \notin Fuera
      BY ListanEs, EnPares
    <3>3. <<u, n>> = <<t, m>> => u = t /\ n = m
      OBVIOUS
    <3> QED BY <1>11, <1>9, <3>1, <3>2, <3>3
  <2>2. Listan(b)' = Listan(b)
    BY <2>1, ListanEs, ParesIguales
  <2> QED BY <1>2, <1>5, <1>8, <1>9, <1>12, <2>2, DuenioIgual
<1>10. CASE b \in archivos[t][m].bloques
  <2>1. <<t, m>> \in Listan(b)
    BY <1>1, <1>2, <1>7, <1>8, <1>10, ListanEs, EnPares
  <2>2. EnManoDe(b) = {} /\ EnHiloDe(b) = {} /\ \A p \in Listan(b) : p = <<t, m>>
    BY <1>8, <2>1 DEF UnDuenio
  <2>3. Listan(b)' = {}
    <3>1. \A u \in Tablas, n \in Nombres : <<u, n>> \notin Listan(b)'
      <4> SUFFICES ASSUME NEW u \in Tablas, NEW n \in Nombres PROVE <<u, n>> \notin Listan(b)'
        OBVIOUS
      <4>1. <<u, n>> \in Listan(b)' <=>
              n \in DOMAIN archivos[u] /\ b \in archivos[u][n].bloques /\ <<u, n>> \notin Fuera'
        BY <1>2, ListanEs, EnPares
      <4>2. <<u, n>> \in Listan(b) <=>
              n \in DOMAIN archivos[u] /\ b \in archivos[u][n].bloques /\ <<u, n>> \notin Fuera
        BY ListanEs, EnPares
      <4> QED BY <1>11, <2>2, <4>1, <4>2
    <3> DEFINE S == Listan(b)'
    <3>2. S \subseteq Tablas \X Nombres /\ \A u \in Tablas, n \in Nombres : <<u, n>> \notin S
      BY <3>1, ListanEs
    <3> HIDE DEF S
    <3>3. S = {}
      BY <3>2, NingunPar
    <3> QED BY <3>3 DEF S
  <2>4. b \notin bitmap'
    BY <1>2, <1>10
  <2> QED BY <1>5, <1>12, <2>2, <2>3, <2>4 DEF UnDuenio
<1> QED BY <1>9, <1>10

LEMMA BorrarDuenio ==
  ASSUME Tipos, Tipos', MutexInv, Sano, Next, ~Reiniciar, NEW c \in Clientes, BorrarArchivo(c),
         NEW b \in Bloques
  PROVE  UnDuenio(b)'
<1> DEFINE r == cliente[c]
           t == r.tabla
           m == r.nombre
<1>1. /\ r.pc = "remove" /\ t \in Tablas /\ r \in Pedido /\ UNCHANGED bitmap
      /\ archivos' = [archivos EXCEPT ![t] = Restrict(@, DOMAIN @ \ {m})]
      /\ cliente' = [cliente EXCEPT ![c] = [r EXCEPT !.pc = "readdir", !.debe = @ \ {m}]]
  BY BorrarDa, LugarDe DEF Tipos
<1>0. UNCHANGED hilos
  BY BorrarDa
<1>2. \A d \in Clientes : d # c => cliente'[d] = cliente[d]
  BY <1>1, SoloUno
<1>3. cliente'[c].pc = "readdir" /\ cliente'[c].bloque = r.bloque
  <2>1. cliente'[c] = [r EXCEPT !.pc = "readdir", !.debe = @ \ {m}]
    BY <1>1, SoloUno
  <2> QED BY <1>1, <2>1 DEF Pedido
<1>4. EnManoDe(b)' = EnManoDe(b)
  BY <1>2, <1>3 DEF EnManoDe
<1>5. /\ \A u \in Tablas : u # t => archivos'[u] = archivos[u]
      /\ DOMAIN archivos'[t] = DOMAIN archivos[t] \ {m}
      /\ \A n \in DOMAIN archivos'[t] : archivos'[t][n] = archivos[t][n]
  <2> PICK u \in Tablas : u = t
    BY <1>1
  <2> PICK x : x = m
    OBVIOUS
  <2>1. archivos' = [archivos EXCEPT ![u] = Restrict(@, DOMAIN @ \ {x})] /\ TiposDelDisco
    BY <1>1 DEF Tipos
  <2>2. /\ \A y \in Tablas : y # u => archivos'[y] = archivos[y]
        /\ DOMAIN archivos'[u] = DOMAIN archivos[u] \ {x}
        /\ \A n \in DOMAIN archivos'[u] : archivos'[u][n] = archivos[u][n]
    BY <2>1, QuitaDa, Zenon
  <2> QED BY <2>2
<1>6. <<t, m>> \in Fuera
  BY <1>1 DEF Fuera, Quitados
<1>7. \A u \in Tablas, n \in Nombres :
        u # t \/ n # m => (<<u, n>> \in Fuera' <=> <<u, n>> \in Fuera)
  <2>1. \A u, n : u # t \/ n # m => (<<u, n>> \in Quitados' <=> <<u, n>> \in Quitados)
    BY <1>2, <1>3 DEF Quitados
  <2> QED BY <1>0, <2>1, EnFuera, HilosQuietos
<1>10. EnHiloDe(b)' = EnHiloDe(b)
  BY <1>0, HilosQuietos
<1>8. \A u \in Tablas, n \in Nombres : <<u, n>> \in Listan(b)' <=> <<u, n>> \in Listan(b)
  <2> SUFFICES ASSUME NEW u \in Tablas, NEW n \in Nombres
               PROVE  <<u, n>> \in Listan(b)' <=> <<u, n>> \in Listan(b)
    OBVIOUS
  <2>1. <<u, n>> \in Listan(b)' <=>
          n \in DOMAIN archivos'[u] /\ b \in archivos'[u][n].bloques /\ <<u, n>> \notin Fuera'
    BY ListanEs, EnPares
  <2>2. <<u, n>> \in Listan(b) <=>
          n \in DOMAIN archivos[u] /\ b \in archivos[u][n].bloques /\ <<u, n>> \notin Fuera
    BY ListanEs, EnPares
  <2>3. CASE u = t /\ n = m
    BY <1>5, <1>6, <2>1, <2>2, <2>3
  <2>4. CASE u # t \/ n # m
    BY <1>5, <1>7, <2>1, <2>2, <2>4
  <2> QED BY <2>3, <2>4
<1>9. Listan(b)' = Listan(b)
  BY <1>8, ListanEs, ParesIguales
<1> QED BY <1>1, <1>4, <1>9, <1>10, DuenioIgual DEF Sano

LEMMA AbrirDuenio ==
  ASSUME Tipos, Tipos', MutexInv, Sano, Next, ~Reiniciar, NEW c \in Clientes, AbrirParticion(c),
         ~UNCHANGED archivos, NEW b \in Bloques
  PROVE  UnDuenio(b)'
<1> DEFINE r == cliente[c]
           t == r.tabla
           m == r.nombre
<1>1. /\ r.pc = "abrirParticion" /\ t \in Tablas /\ m \in 1..Particiones
      /\ Escribe(t, m, SinBloques) /\ UNCHANGED bitmap
      /\ cliente' = [cliente EXCEPT ![c] = [r EXCEPT !.pc = "pedirBloque"]]
  BY AbrirDa
<1>0. UNCHANGED hilos
  BY AbrirDa
<1>2. \A d \in Clientes : d # c => cliente'[d] = cliente[d]
  BY <1>1, SoloUno
<1>3. /\ ~LiberarArchivo(c) /\ ~BorrarArchivo(c) /\ ~PedirBloque(c) /\ ~EscribirParticion(c)
  BY <1>1 DEF LiberarArchivo, BorrarArchivo, PedirBloque, EscribirParticion
<1>4. Fuera' = Fuera /\ EnHiloDe(b)' = EnHiloDe(b)
  BY <1>0, <1>2, <1>3, QuitadosIguales, FueraIgual, HilosQuietos
<1>5. EnManoDe(b)' = EnManoDe(b)
  BY <1>2, <1>3, ManosIguales
<1>6. /\ \A u \in Tablas : u # t => archivos'[u] = archivos[u]
      /\ DOMAIN archivos'[t] = DOMAIN archivos[t] \cup {m}
      /\ archivos'[t][m].bloques = {}
      /\ \A n \in DOMAIN archivos[t] : n # m => archivos'[t][n] = archivos[t][n]
  <2>1. archivos'[t][m] = SinBloques
    BY <1>1, EscribeDa DEF Tipos
  <2> QED BY <1>1, <2>1, EscribeDa, SinBloquesEsArchivo DEF Tipos
<1>7. m \notin DOMAIN archivos[t]
  <2>1. \A n \in DOMAIN archivos[t] : n \in Temporales \/ n < m
    BY <1>1 DEF Sano, CreateInv
  <2>2. m \notin Temporales /\ ~(m < m)
    BY <1>1, ParticionesAssumption DEF Temporales, Tmp, TmpC
  <2> QED BY <2>1, <2>2
<1>8. \A u \in Tablas, n \in Nombres :
         n \in DOMAIN archivos'[u] /\ b \in archivos'[u][n].bloques
           <=> n \in DOMAIN archivos[u] /\ b \in archivos[u][n].bloques
  <2> SUFFICES ASSUME NEW u \in Tablas, NEW n \in Nombres
               PROVE  n \in DOMAIN archivos'[u] /\ b \in archivos'[u][n].bloques
                        <=> n \in DOMAIN archivos[u] /\ b \in archivos[u][n].bloques
    OBVIOUS
  <2>1. CASE u = t /\ n = m
    BY <1>6, <1>7, <2>1
  <2>2. CASE u # t \/ n # m
    BY <1>6, <2>2
  <2> QED BY <2>1, <2>2
<1>9. Listan(b)' = Listan(b)
  BY <1>4, <1>8, ListanIgual
<1> QED BY <1>1, <1>4, <1>5, <1>9, DuenioIgual DEF Sano

LEMMA TmpDuenio ==
  ASSUME Tipos, Tipos', MutexInv, Sano, Next, ~Reiniciar, CrearTmp \/ EscribirTmp, NEW b \in Bloques
  PROVE  UnDuenio(b)'
<1> DEFINE t == dump.tabla
           x == BloqueDisponible
<1>1. UNCHANGED cliente /\ t \in Tablas /\ Tmp \in Nombres
  BY ParticionesAssumption
     DEF CrearTmp, EscribirTmp, SoloDump, Tipos, TiposDelDump, Tmp, Nombres
<1>0. UNCHANGED hilos
  BY DEF CrearTmp, EscribirTmp, SoloDump
<1>2. EnManoDe(b)' = EnManoDe(b) /\ Fuera' = Fuera /\ EnHiloDe(b)' = EnHiloDe(b)
  <2>1. EnManoDe(b)' = EnManoDe(b) /\ Quitados' = Quitados
    BY <1>1 DEF EnManoDe, Quitados
  <2> QED BY <1>0, <2>1, FueraIgual, HilosQuietos
<1>3. UnDuenio(b) /\ b # -1
  BY DEF Sano, Bloques
<1>4. ASSUME NEW f, Escribe(t, Tmp, f)
      PROVE  /\ \A u \in Tablas : u # t => archivos'[u] = archivos[u]
             /\ DOMAIN archivos'[t] = DOMAIN archivos[t] \cup {Tmp}
             /\ archivos'[t][Tmp] = f
             /\ \A n \in DOMAIN archivos[t] : n # Tmp => archivos'[t][n] = archivos[t][n]
  BY <1>1, <1>4, EscribeDa DEF Tipos
<1>5. ASSUME NEW f, Escribe(t, Tmp, f), b \notin f.bloques,
             ~(Tmp \in DOMAIN archivos[t] /\ b \in archivos[t][Tmp].bloques)
      PROVE  Listan(b)' = Listan(b)
  <2>1. \A u \in Tablas, n \in Nombres :
           n \in DOMAIN archivos'[u] /\ b \in archivos'[u][n].bloques
             <=> n \in DOMAIN archivos[u] /\ b \in archivos[u][n].bloques
    <3> SUFFICES ASSUME NEW u \in Tablas, NEW n \in Nombres
                 PROVE  n \in DOMAIN archivos'[u] /\ b \in archivos'[u][n].bloques
                          <=> n \in DOMAIN archivos[u] /\ b \in archivos[u][n].bloques
      OBVIOUS
    <3>1. CASE u = t /\ n = Tmp
      BY <1>4, <1>5, <3>1
    <3>2. CASE u # t \/ n # Tmp
      BY <1>4, <1>5, <3>2
    <3> QED BY <3>1, <3>2
  <2> QED BY <1>2, <2>1, ListanIgual
<1>6. UNCHANGED archivos => Listan(b)' = Listan(b)
  BY <1>2, ListanIgual
<1>7. CASE CrearTmp
  <2>1. dump.pc = "crearTmp" /\ UNCHANGED bitmap
        /\ (UNCHANGED archivos \/ Escribe(t, Tmp, SinBloques))
    BY <1>7 DEF CrearTmp
  <2>2. Tmp \notin DOMAIN archivos[t]
    BY <2>1 DEF Sano, DumpInv
  <2>3. b \notin SinBloques.bloques
    BY SinBloquesEsArchivo
  <2>4. Listan(b)' = Listan(b)
    BY <1>5, <1>6, <2>1, <2>2, <2>3
  <2> QED BY <1>2, <1>3, <2>1, <2>4, DuenioIgual
<1>8. CASE EscribirTmp
  <2> DEFINE f == ConBloques({x} \ {-1})
  <2>1. Tmp \in DOMAIN archivos[t] /\ ~archivos[t][Tmp].completo
    BY <1>8 DEF EscribirTmp, Sano, DumpInv
  <2>2. archivos[t][Tmp].bloques = {}
    BY <1>1, <2>1 DEF Tipos, TiposDelDisco
  <2>3. Escribe(t, Tmp, f) /\ bitmap' = bitmap \cup ({x} \ {-1})
    BY <1>8, <2>1 DEF EscribirTmp, Marcado
  <2>4. f.bloques = {x} \ {-1}
    BY DEF ConBloques
  <2> HIDE DEF f
  <2>5. CASE b # x
    <3>1. Listan(b)' = Listan(b)
      BY <1>5, <2>2, <2>3, <2>4, <2>5
    <3>2. b \in bitmap' <=> b \in bitmap
      BY <2>3, <2>5
    <3> QED BY <1>2, <1>3, <3>1, <3>2, DuenioIgual
  <2>6. CASE b = x
    <3>1. b \notin bitmap
      BY <1>3, <2>6, HayBloque
    <3>2. EnManoDe(b) = {} /\ Listan(b) = {} /\ EnHiloDe(b) = {}
      BY <1>3, <3>1 DEF UnDuenio
    <3>3. <<t, Tmp>> \notin Fuera
      <4>1. <<t, Tmp>> \notin Quitados
        BY <2>1 DEF Quitados, Sano, DropInv
      <4>2. ~Reescrito(t, Tmp)
        BY <1>1, <2>1, NoReescrito
      <4> QED BY <1>1, <4>1, <4>2, EnFuera
    <3>4. \A u \in Tablas, n \in Nombres : <<u, n>> \in Listan(b)' <=> u = t /\ n = Tmp
      <4> SUFFICES ASSUME NEW u \in Tablas, NEW n \in Nombres
                   PROVE  <<u, n>> \in Listan(b)' <=> u = t /\ n = Tmp
        OBVIOUS
      <4>1. <<u, n>> \in Listan(b)' <=>
              n \in DOMAIN archivos'[u] /\ b \in archivos'[u][n].bloques
              /\ <<u, n>> \notin Fuera
        BY <1>2, ListanEs, EnPares
      <4>2. ~(/\ n \in DOMAIN archivos[u] /\ b \in archivos[u][n].bloques
              /\ <<u, n>> \notin Fuera)
        BY <3>2, ListanEs, EnPares
      <4>3. CASE u = t /\ n = Tmp
        BY <1>3, <1>4, <2>3, <2>4, <2>6, <3>3, <4>1, <4>3
      <4>4. CASE u # t \/ n # Tmp
        BY <1>4, <2>3, <4>1, <4>2, <4>4
      <4> QED BY <4>3, <4>4
    <3>5. Listan(b)' # {} /\ \A p, q \in Listan(b)' : p = q
      <4>1. \A p \in Listan(b)' : \E u \in Tablas, n \in Nombres : p = <<u, n>>
        BY ListanEs
      <4>2. <<t, Tmp>> \in Listan(b)'
        BY <1>1, <3>4
      <4>3. \A p \in Listan(b)' : p = <<t, Tmp>>
        BY <3>4, <4>1
      <4> QED BY <4>2, <4>3
    <3>6. b \in bitmap'
      BY <1>3, <2>3, <2>6
    <3> QED BY <1>2, <3>2, <3>5, <3>6 DEF UnDuenio
  <2> QED BY <2>5, <2>6
<1> QED BY <1>7, <1>8

\* Who has a block, when the thread that steps is one that is compacting its table: no
\* client is removing files of that table, and no other thread is rewriting them.
LEMMA ListanDeHilo ==
  ASSUME Tipos, MutexInv, Sano, NEW i \in DOMAIN hilos, hilos[i].pc \in EnUso,
         NEW g, Cambia(i, g), NEW b
  PROVE  /\ EnManoDe(b)' = EnManoDe(b)
         /\ \A j : j \in EnHiloDe(b)' <=> IF j = i THEN b \in g.bloques ELSE j \in EnHiloDe(b)
         /\ \A t \in Tablas, n \in Nombres : t # hilos[i].tabla /\ archivos'[t] = archivos[t] =>
              (<<t, n>> \in Listan(b)' <=> <<t, n>> \in Listan(b))
         /\ \A t \in Tablas, n \in Nombres : t = hilos[i].tabla =>
              /\ <<t, n>> \in Listan(b) <=>
                   /\ n \in DOMAIN archivos[t] /\ b \in archivos[t][n].bloques
                   /\ n \notin hilos[i].faltan \ hilos[i].libera
              /\ <<t, n>> \in Listan(b)' <=>
                   /\ n \in DOMAIN archivos'[t] /\ b \in archivos'[t][n].bloques
                   /\ n \notin g.faltan \ g.libera
<1> DEFINE h == hilos[i]
<1>1. /\ DOMAIN hilos' = DOMAIN hilos /\ hilos'[i] = g /\ g.tabla = h.tabla
      /\ \A j \in DOMAIN hilos : j # i => hilos'[j] = hilos[j]
      /\ UNCHANGED cliente
  BY DEF Cambia, Tipos, TiposDeListas
<1>2. /\ \A c \in Clientes : cliente[c].tabla = h.tabla => cliente[c].pc \notin ConMutex
      /\ \A j \in DOMAIN hilos : j # i /\ hilos[j].tabla = h.tabla => hilos[j].faltan = {}
  BY EnExclusiva DEF Sano
<1>3. EnManoDe(b)' = EnManoDe(b) /\ Quitados' = Quitados
  BY <1>1 DEF EnManoDe, Quitados
<1>4. \A j : j \in EnHiloDe(b)' <=> IF j = i THEN b \in g.bloques ELSE j \in EnHiloDe(b)
  BY <1>1 DEF EnHiloDe
<1>5. \A t, n : t # h.tabla => (Reescrito(t, n)' <=> Reescrito(t, n))
  BY <1>1 DEF Reescrito
<1>6. ASSUME NEW t, t = h.tabla, NEW n
      PROVE  /\ Reescrito(t, n) <=> n \in h.faltan \ h.libera
             /\ Reescrito(t, n)' <=> n \in g.faltan \ g.libera
  BY <1>1, <1>2, <1>6 DEF Reescrito
<1>7. ASSUME NEW t, t = h.tabla, NEW n PROVE <<t, n>> \notin Quitados
  BY <1>2, <1>7 DEF Quitados, ConMutex
<1>8. \A t \in Tablas, n \in Nombres :
        /\ <<t, n>> \in Listan(b) <=>
             /\ n \in DOMAIN archivos[t] /\ b \in archivos[t][n].bloques
             /\ <<t, n>> \notin Quitados /\ ~Reescrito(t, n)
        /\ <<t, n>> \in Listan(b)' <=>
             /\ n \in DOMAIN archivos'[t] /\ b \in archivos'[t][n].bloques
             /\ <<t, n>> \notin Quitados /\ ~Reescrito(t, n)'
  BY <1>3, ListanEs, EnPares, EnFuera
<1>9. ASSUME NEW t \in Tablas, NEW n \in Nombres, t # h.tabla, archivos'[t] = archivos[t]
      PROVE  <<t, n>> \in Listan(b)' <=> <<t, n>> \in Listan(b)
  BY <1>5, <1>8, <1>9
<1>10. ASSUME NEW t \in Tablas, NEW n \in Nombres, t = h.tabla
       PROVE  /\ <<t, n>> \in Listan(b) <=>
                   /\ n \in DOMAIN archivos[t] /\ b \in archivos[t][n].bloques
                   /\ n \notin h.faltan \ h.libera
              /\ <<t, n>> \in Listan(b)' <=>
                   /\ n \in DOMAIN archivos'[t] /\ b \in archivos'[t][n].bloques
                   /\ n \notin g.faltan \ g.libera
  BY <1>6, <1>7, <1>8, <1>10
<1> QED BY <1>3, <1>4, <1>9, <1>10

LEMMA ListanSeparado ==
  ASSUME NEW b, \A t \in Tablas, n \in Nombres : <<t, n>> \in Listan(b)' <=> <<t, n>> \in Listan(b)
  PROVE  Listan(b)' = Listan(b)
BY ListanEs, ParesIguales

LEMMA ListanUno ==
  ASSUME NEW b, NEW t \in Tablas, NEW n \in Nombres,
         \A u \in Tablas, m \in Nombres : <<u, m>> \in Listan(b)' <=> u = t /\ m = n
  PROVE  Listan(b)' # {} /\ \A p, q \in Listan(b)' : p = q
<1>1. \A p \in Listan(b)' : \E u \in Tablas, m \in Nombres : p = <<u, m>>
  BY ListanEs
<1>2. <<t, n>> \in Listan(b)' /\ \A p \in Listan(b)' : p = <<t, n>>
  BY <1>1
<1> QED BY <1>2

LEMMA ListanNinguno ==
  ASSUME NEW b, \A u \in Tablas, m \in Nombres : <<u, m>> \notin Listan(b)'
  PROVE  Listan(b)' = {}
<1>1. \A p \in Listan(b)' : \E u \in Tablas, m \in Nombres : p = <<u, m>>
  BY ListanEs
<1> QED BY <1>1

\* The rename moves the blocks of a .tmp, over a .tmpc that has none.
LEMMA RenombrarDuenio ==
  ASSUME Tipos, MutexInv, Sano, NEW i \in DOMAIN hilos, Renombrar(i), ~Revienta,
         NEW b \in Bloques
  PROVE  UnDuenio(b)'
<1> PICK t \in Tablas : t = hilos[i].tabla
  BY HiloDe DEF Tipos
<1>1. /\ hilos[i].pc = "decide" /\ hilos[i].faltan = {} /\ hilos[i].libera = {}
      /\ hilos[i].bloques = {} /\ UNCHANGED bitmap
      /\ archivos' = [archivos EXCEPT ![t] = Renombrados(archivos[t])]
      /\ \E g : Cambia(i, g) /\ g.bloques = {} /\ g.faltan \ g.libera = {}
  BY RenombrarDa
<1>2. PICK g : Cambia(i, g) /\ g.bloques = {} /\ g.faltan \ g.libera = {}
  BY <1>1
<1>3. hilos[i].pc \in EnUso
  BY <1>1 DEF EnUso
<1>4. TiposDelDisco /\ Tmp \in Nombres /\ TmpC \in Nombres /\ UnDuenio(b)
  BY ParticionesAssumption DEF Tipos, Tmp, TmpC, Nombres, Sano
<1>5. /\ \A u \in Tablas : u # t => archivos'[u] = archivos[u]
      /\ Tmp \notin DOMAIN archivos'[t] /\ Tmp # TmpC
      /\ \A n \in DOMAIN archivos'[t] :
           \/ n # TmpC /\ n \in DOMAIN archivos[t] /\ archivos'[t][n] = archivos[t][n]
           \/ /\ n = TmpC /\ Tmp \in DOMAIN archivos[t]
              /\ archivos'[t][TmpC] = archivos[t][Tmp]
           \/ /\ n = TmpC /\ Tmp \notin DOMAIN archivos[t]
              /\ TmpC \in DOMAIN archivos[t] /\ archivos'[t][TmpC] = archivos[t][TmpC]
      /\ \A n \in DOMAIN archivos[t] \ {Tmp} : n \in DOMAIN archivos'[t]
      /\ Tmp \in DOMAIN archivos[t] => TmpC \in DOMAIN archivos'[t]
  BY <1>1, <1>4, RenombradosDa, Zenon
<1>6. ~(TmpC \in DOMAIN archivos[t] /\ b \in archivos[t][TmpC].bloques)
  <2> SUFFICES ASSUME TmpC \in DOMAIN archivos[t], b \in archivos[t][TmpC].bloques PROVE FALSE
    OBVIOUS
  <2>1. PICK j \in DOMAIN hilos : hilos[j].tabla = t /\ TmpC \in hilos[j].libera
    BY DEF Sano, TmpCInv
  <2>2. j # i => hilos[j].libera = {}
    BY <1>3, <2>1, EnExclusiva DEF Sano
  <2> QED BY <1>1, <2>1, <2>2
<1>7. /\ EnManoDe(b)' = EnManoDe(b)
      /\ \A j : j \in EnHiloDe(b)' <=> IF j = i THEN b \in g.bloques ELSE j \in EnHiloDe(b)
      /\ \A u \in Tablas, n \in Nombres : u # t =>
           (<<u, n>> \in Listan(b)' <=> <<u, n>> \in Listan(b))
      /\ \A n \in Nombres :
           /\ <<t, n>> \in Listan(b) <=> n \in DOMAIN archivos[t] /\ b \in archivos[t][n].bloques
           /\ <<t, n>> \in Listan(b)' <=>
                n \in DOMAIN archivos'[t] /\ b \in archivos'[t][n].bloques
  BY <1>1, <1>2, <1>3, <1>5, ListanDeHilo
<1>8. EnHiloDe(b)' = EnHiloDe(b)
  <2>1. i \notin EnHiloDe(b)
    BY <1>1 DEF EnHiloDe
  <2>2. \A j : j \in EnHiloDe(b)' <=> j \in EnHiloDe(b)
    BY <1>2, <1>7, <2>1
  <2> QED BY <2>2
<1>9. CASE Tmp \notin DOMAIN archivos[t] \/ b \notin archivos[t][Tmp].bloques
  <2>1. \A n \in Nombres : <<t, n>> \in Listan(b)' <=> <<t, n>> \in Listan(b)
    BY <1>5, <1>6, <1>7, <1>9
  <2>2. Listan(b)' = Listan(b)
    BY <1>7, <2>1, ListanSeparado
  <2> QED BY <1>1, <1>4, <1>7, <1>8, <2>2, DuenioIgual
<1>10. CASE Tmp \in DOMAIN archivos[t] /\ b \in archivos[t][Tmp].bloques
  <2>1. <<t, Tmp>> \in Listan(b)
    BY <1>4, <1>7, <1>10
  <2>2. EnManoDe(b) = {} /\ EnHiloDe(b) = {} /\ b \in bitmap /\ \A p \in Listan(b) : p = <<t, Tmp>>
    BY <1>4, <2>1 DEF UnDuenio
  <2>3. TmpC \in DOMAIN archivos'[t] /\ b \in archivos'[t][TmpC].bloques
    BY <1>5, <1>10
  <2>4. \A u \in Tablas, n \in Nombres : <<u, n>> \in Listan(b)' <=> u = t /\ n = TmpC
    <3> SUFFICES ASSUME NEW u \in Tablas, NEW n \in Nombres
                 PROVE  <<u, n>> \in Listan(b)' <=> u = t /\ n = TmpC
      OBVIOUS
    <3>1. CASE u # t
      <4>1. <<u, n>> # <<t, Tmp>>
        BY <3>1
      <4> QED BY <1>7, <2>2, <3>1, <4>1
    <3>2. CASE u = t /\ n = TmpC
      BY <1>7, <2>3, <3>2
    <3>3. CASE u = t /\ n # TmpC
      <4>1. n \in DOMAIN archivos'[t] =>
              n # Tmp /\ n \in DOMAIN archivos[t] /\ archivos'[t][n] = archivos[t][n]
        BY <1>5, <3>3
      <4>2. n # Tmp => <<t, n>> \notin Listan(b)
        BY <2>2
      <4> QED BY <1>7, <3>3, <4>1, <4>2
    <3> QED BY <3>1, <3>2, <3>3
  <2>5. Listan(b)' # {} /\ \A p, q \in Listan(b)' : p = q
    BY <1>4, <2>4, ListanUno
  <2> QED BY <1>1, <1>7, <1>8, <2>2, <2>5 DEF UnDuenio
<1> QED BY <1>9, <1>10

\* Who waits for the mutex of the table's dump changes nothing.
LEMMA BloquearTablaDuenio ==
  ASSUME Tipos, MutexInv, Sano, NEW i \in DOMAIN hilos, BloquearTabla(i), NEW b \in Bloques
  PROVE  UnDuenio(b)'
<1>1. hilos[i].pc = "bloquea" /\ UNCHANGED <<archivos, bitmap>>
  BY BloquearTablaDa
<1>2. PICK g : /\ Cambia(i, g) /\ g.faltan = hilos[i].faltan
               /\ g.libera = hilos[i].libera /\ g.bloques = hilos[i].bloques
  BY BloquearTablaDa
<1>3. hilos[i].pc \in EnUso
  BY <1>1 DEF EnUso
<1>4. /\ EnManoDe(b)' = EnManoDe(b)
      /\ \A j : j \in EnHiloDe(b)' <=> IF j = i THEN b \in g.bloques ELSE j \in EnHiloDe(b)
      /\ \A t \in Tablas, n \in Nombres : <<t, n>> \in Listan(b)' <=> <<t, n>> \in Listan(b)
  BY <1>1, <1>2, <1>3, ListanDeHilo
<1>5. EnHiloDe(b)' = EnHiloDe(b)
  <2>1. \A j : j \in EnHiloDe(b)' <=> j \in EnHiloDe(b)
    BY <1>2, <1>4 DEF EnHiloDe
  <2> QED BY <2>1
<1>6. Listan(b)' = Listan(b)
  BY <1>4, ListanSeparado
<1> QED BY <1>1, <1>4, <1>5, <1>6, DuenioIgual DEF Sano

\* Freeing the blocks of a file takes them from it.
LEMMA LiberarBloquesDuenio ==
  ASSUME Tipos, MutexInv, Sano, NEW i \in DOMAIN hilos, LiberarBloques(i), ~Revienta,
         NEW b \in Bloques
  PROVE  UnDuenio(b)'
<1> DEFINE h == hilos[i]
<1> PICK t \in Tablas : t = h.tabla
  BY HiloDe DEF Tipos
<1>1. h.pc = "libera" /\ h.pc \in EnUso
  BY LiberarBloquesDa DEF EnUso
<1>2. PICK n \in h.libera : \E g :
         /\ Cambia(i, g) /\ g.faltan = h.faltan
         /\ g.libera = h.libera \ {n} /\ g.bloques = h.bloques
         /\ n \in DOMAIN archivos[t] /\ bitmap' = bitmap \ archivos[t][n].bloques
         /\ archivos' = IF n = TmpC
                        THEN [archivos EXCEPT ![t] = Restrict(@, DOMAIN @ \ {TmpC})]
                        ELSE archivos
  BY LiberarBloquesDa DEF SusArchivos, SuArchivo
<1>3. PICK g :
         /\ Cambia(i, g) /\ g.faltan = h.faltan
         /\ g.libera = h.libera \ {n} /\ g.bloques = h.bloques
  BY <1>2
<1>4. UnDuenio(b) /\ n \in Nombres
  BY <1>2 DEF Sano, Tipos, TiposDelDisco
<1>5. h.libera \subseteq h.faltan \cup {TmpC}
  BY DEF Sano, CompactaInv
<1>6. /\ \A u \in Tablas : u # t => archivos'[u] = archivos[u]
      /\ \A m : m \in DOMAIN archivos'[t] <=> m \in DOMAIN archivos[t] /\ ~(m = n /\ n = TmpC)
      /\ \A m \in DOMAIN archivos'[t] : archivos'[t][m] = archivos[t][m]
  <2>1. CASE n = TmpC
    <3>1. archivos' = [archivos EXCEPT ![t] = Restrict(@, DOMAIN @ \ {TmpC})] /\ TiposDelDisco
      BY <1>2, <2>1 DEF Tipos
    <3>2. /\ \A u \in Tablas : u # t => archivos'[u] = archivos[u]
          /\ DOMAIN archivos'[t] = DOMAIN archivos[t] \ {TmpC}
          /\ \A m \in DOMAIN archivos'[t] : archivos'[t][m] = archivos[t][m]
      BY <3>1, QuitaDa, Zenon
    <3> QED BY <2>1, <3>2
  <2>2. CASE n # TmpC
    BY <1>2, <2>2
  <2> QED BY <2>1, <2>2
<1>7. /\ EnManoDe(b)' = EnManoDe(b)
      /\ \A j : j \in EnHiloDe(b)' <=> IF j = i THEN b \in g.bloques ELSE j \in EnHiloDe(b)
      /\ \A u \in Tablas, m \in Nombres : u # t =>
           (<<u, m>> \in Listan(b)' <=> <<u, m>> \in Listan(b))
      /\ \A m \in Nombres :
           /\ <<t, m>> \in Listan(b) <=>
                /\ m \in DOMAIN archivos[t] /\ b \in archivos[t][m].bloques
                /\ m \notin h.faltan \ h.libera
           /\ <<t, m>> \in Listan(b)' <=>
                /\ m \in DOMAIN archivos'[t] /\ b \in archivos'[t][m].bloques
                /\ m \notin h.faltan \ (h.libera \ {n})
  BY <1>1, <1>3, <1>6, ListanDeHilo
<1>8. EnHiloDe(b)' = EnHiloDe(b)
  <2>1. \A j : j \in EnHiloDe(b)' <=> j \in EnHiloDe(b)
    BY <1>3, <1>7 DEF EnHiloDe
  <2> QED BY <2>1
<1>9. \A m \in Nombres : m # n => (<<t, m>> \in Listan(b)' <=> <<t, m>> \in Listan(b))
  BY <1>6, <1>7
<1>10. CASE b \notin archivos[t][n].bloques
  <2>1. <<t, n>> \in Listan(b)' <=> <<t, n>> \in Listan(b)
    BY <1>4, <1>6, <1>7, <1>10
  <2>2. \A u \in Tablas, m \in Nombres : <<u, m>> \in Listan(b)' <=> <<u, m>> \in Listan(b)
    BY <1>7, <1>9, <2>1
  <2>3. Listan(b)' = Listan(b)
    BY <2>2, ListanSeparado
  <2> QED BY <1>2, <1>4, <1>7, <1>8, <1>10, <2>3, DuenioIgual
<1>11. CASE b \in archivos[t][n].bloques
  <2>1. <<t, n>> \in Listan(b)
    BY <1>2, <1>4, <1>7, <1>11
  <2>2. EnManoDe(b) = {} /\ EnHiloDe(b) = {} /\ \A p \in Listan(b) : p = <<t, n>>
    BY <1>4, <2>1 DEF UnDuenio
  <2>3. \A u \in Tablas, m \in Nombres : <<u, m>> \notin Listan(b)'
    <3> SUFFICES ASSUME NEW u \in Tablas, NEW m \in Nombres PROVE <<u, m>> \notin Listan(b)'
      OBVIOUS
    <3>1. CASE u # t
      <4>1. <<u, m>> # <<t, n>>
        BY <3>1
      <4> QED BY <1>7, <2>2, <3>1, <4>1
    <3>2. CASE u = t /\ m # n
      <4>1. <<t, m>> # <<t, n>>
        BY <3>2
      <4> QED BY <1>9, <2>2, <3>2, <4>1
    <3>3. CASE u = t /\ m = n
      <4>1. n \in DOMAIN archivos'[t] => n \in h.faltan
        BY <1>2, <1>5, <1>6
      <4> QED BY <1>7, <3>3, <4>1
    <3> QED BY <3>1, <3>2, <3>3
  <2>4. Listan(b)' = {}
    BY <2>3, ListanNinguno
  <2>5. b \notin bitmap'
    BY <1>2, <1>11
  <2> QED BY <1>7, <1>8, <2>2, <2>4, <2>5 DEF UnDuenio
<1> QED BY <1>10, <1>11

\* The block that a compaction asks for had no owner.
LEMMA PedirNuevoDuenio ==
  ASSUME Tipos, MutexInv, Sano, NEW i \in DOMAIN hilos, PedirBloqueNuevo(i), NEW b \in Bloques
  PROVE  UnDuenio(b)'
<1> DEFINE x == BloqueDisponible
<1>1. hilos[i].pc \in EnUso /\ UNCHANGED archivos /\ bitmap' = bitmap \cup ({x} \ {-1})
  BY PedirBloqueNuevoDa DEF EnUso
<1>2. PICK g : /\ Cambia(i, g) /\ g.faltan = hilos[i].faltan /\ g.libera = hilos[i].libera
               /\ g.bloques = hilos[i].bloques \cup ({x} \ {-1})
  BY PedirBloqueNuevoDa
<1>3. /\ EnManoDe(b)' = EnManoDe(b)
      /\ \A j : j \in EnHiloDe(b)' <=> IF j = i THEN b \in g.bloques ELSE j \in EnHiloDe(b)
      /\ \A t \in Tablas, n \in Nombres : <<t, n>> \in Listan(b)' <=> <<t, n>> \in Listan(b)
  BY <1>1, <1>2, ListanDeHilo
<1>4. Listan(b)' = Listan(b)
  BY <1>3, ListanSeparado
<1>5. UnDuenio(b) /\ b # -1
  BY DEF Sano, Bloques
<1>6. CASE b # x
  <2>1. \A j : j \in EnHiloDe(b)' <=> j \in EnHiloDe(b)
    BY <1>2, <1>3, <1>6 DEF EnHiloDe
  <2>2. EnHiloDe(b)' = EnHiloDe(b)
    BY <2>1
  <2>3. b \in bitmap' <=> b \in bitmap
    BY <1>1, <1>6
  <2> QED BY <1>3, <1>4, <1>5, <2>2, <2>3, DuenioIgual
<1>7. CASE b = x
  <2>1. b \notin bitmap
    BY <1>5, <1>7, HayBloque
  <2>2. EnManoDe(b) = {} /\ EnHiloDe(b) = {} /\ Listan(b) = {}
    BY <1>5, <2>1 DEF UnDuenio
  <2>3. \A j : j \in EnHiloDe(b)' <=> j = i
    BY <1>2, <1>3, <1>5, <1>7, <2>2
  <2>4. b \in bitmap'
    BY <1>1, <1>5, <1>7
  <2> QED BY <1>3, <1>4, <2>2, <2>3, <2>4 DEF UnDuenio
<1> QED BY <1>6, <1>7

\* The blocks that it was given go to the partition.
LEMMA GuardarDuenio ==
  ASSUME Tipos, MutexInv, Sano, NEW i \in DOMAIN hilos, GuardarParticion(i), ~Revienta,
         NEW b \in Bloques
  PROVE  UnDuenio(b)'
<1> DEFINE h == hilos[i]
<1> PICK t \in Tablas : t = h.tabla
  BY HiloDe DEF Tipos
<1>1. h.pc \in EnUso /\ h.libera = {} /\ UNCHANGED bitmap
  BY GuardarParticionDa DEF EnUso
<1>2. PICK n \in h.faltan : \E g :
         /\ Cambia(i, g) /\ g.faltan = h.faltan \ {n} /\ g.libera = {} /\ g.bloques = {}
         /\ n \in DOMAIN archivos[t] /\ Escribe(t, n, ConBloques(h.bloques))
  BY GuardarParticionDa DEF SusArchivos
<1>3. PICK g : Cambia(i, g) /\ g.faltan = h.faltan \ {n} /\ g.libera = {} /\ g.bloques = {}
  BY <1>2
<1>4. UnDuenio(b) /\ n \in Nombres
  BY <1>2 DEF Sano, Tipos, TiposDelDisco
<1>5. /\ \A u \in Tablas : u # t => archivos'[u] = archivos[u]
      /\ DOMAIN archivos'[t] = DOMAIN archivos[t]
      /\ archivos'[t][n].bloques = h.bloques
      /\ \A m \in DOMAIN archivos[t] : m # n => archivos'[t][m] = archivos[t][m]
  <2>1. ASSUME NEW f, Escribe(t, n, f)
        PROVE  /\ \A u \in Tablas : u # t => archivos'[u] = archivos[u]
               /\ DOMAIN archivos'[t] = DOMAIN archivos[t] \cup {n}
               /\ archivos'[t][n] = f
               /\ \A m \in DOMAIN archivos[t] : m # n => archivos'[t][m] = archivos[t][m]
    BY <2>1, EscribeDa DEF Tipos
  <2>2. ConBloques(h.bloques).bloques = h.bloques
    BY DEF ConBloques
  <2> QED BY <1>2, <2>1, <2>2
<1>6. /\ EnManoDe(b)' = EnManoDe(b)
      /\ \A j : j \in EnHiloDe(b)' <=> IF j = i THEN b \in g.bloques ELSE j \in EnHiloDe(b)
      /\ \A u \in Tablas, m \in Nombres : u # t =>
           (<<u, m>> \in Listan(b)' <=> <<u, m>> \in Listan(b))
      /\ \A m \in Nombres :
           /\ <<t, m>> \in Listan(b) <=>
                m \in DOMAIN archivos[t] /\ b \in archivos[t][m].bloques /\ m \notin h.faltan
           /\ <<t, m>> \in Listan(b)' <=>
                /\ m \in DOMAIN archivos'[t] /\ b \in archivos'[t][m].bloques
                /\ m \notin h.faltan \ {n}
  BY <1>1, <1>3, <1>5, ListanDeHilo
<1>7. \A m \in Nombres : m # n => (<<t, m>> \in Listan(b)' <=> <<t, m>> \in Listan(b))
  BY <1>5, <1>6
<1>8. CASE b \notin h.bloques
  <2>1. <<t, n>> \notin Listan(b)' /\ <<t, n>> \notin Listan(b)
    BY <1>4, <1>5, <1>6, <1>8
  <2>2. \A u \in Tablas, m \in Nombres : <<u, m>> \in Listan(b)' <=> <<u, m>> \in Listan(b)
    BY <1>6, <1>7, <2>1
  <2>3. Listan(b)' = Listan(b)
    BY <2>2, ListanSeparado
  <2>4. \A j : j \in EnHiloDe(b)' <=> j \in EnHiloDe(b)
    BY <1>3, <1>6, <1>8 DEF EnHiloDe
  <2>5. EnHiloDe(b)' = EnHiloDe(b)
    BY <2>4
  <2> QED BY <1>1, <1>4, <1>6, <2>3, <2>5, DuenioIgual
<1>9. CASE b \in h.bloques
  <2>1. i \in EnHiloDe(b)
    BY <1>9 DEF EnHiloDe
  <2>2. b \in bitmap /\ EnManoDe(b) = {} /\ Listan(b) = {} /\ \A j \in EnHiloDe(b) : j = i
    BY <1>4, <2>1 DEF UnDuenio
  <2>3. EnHiloDe(b)' = {}
    <3>1. \A j : j \notin EnHiloDe(b)'
      BY <1>3, <1>6, <2>2
    <3> QED BY <3>1
  <2>4. <<t, n>> \in Listan(b)'
    BY <1>2, <1>4, <1>5, <1>6, <1>9
  <2>5. \A u \in Tablas, m \in Nombres : <<u, m>> \in Listan(b)' <=> u = t /\ m = n
    BY <1>6, <1>7, <2>2, <2>4
  <2>6. Listan(b)' # {} /\ \A p, q \in Listan(b)' : p = q
    <3> PICK x \in Nombres : x = n
      BY <1>4
    <3>1. \A u \in Tablas, m \in Nombres : <<u, m>> \in Listan(b)' <=> u = t /\ m = x
      BY <2>5
    <3> QED BY <3>1, ListanUno
  <2> QED BY <1>1, <1>6, <2>2, <2>3, <2>6 DEF UnDuenio
<1> QED BY <1>8, <1>9

LEMMA CompactarDuenio ==
  ASSUME Tipos, MutexInv, Sano, NEW i \in DOMAIN hilos, Compacta(i), NEW b \in Bloques
  PROVE  UnDuenio(b)'
<1>1. ~Revienta
  BY DEF Compacta
<1> QED BY <1>1, RenombrarDuenio, BloquearTablaDuenio, LiberarBloquesDuenio, PedirNuevoDuenio,
           GuardarDuenio DEF Compacta, Compactar

\* Who has each block, after any step but a restart.
LEMMA NextDuenio ==
  ASSUME Tipos, Tipos', MutexInv, Sano, Next, ~Reiniciar, NEW b \in Bloques
  PROVE  UnDuenio(b)'
<1> DEFINE Quieto == UNCHANGED <<archivos, bitmap, cliente, hilos>>
<1>1. CASE Quieto
  <2>1. EnManoDe(b)' = EnManoDe(b) /\ Quitados' = Quitados
    BY <1>1 DEF EnManoDe, Quitados
  <2>2. EnHiloDe(b)' = EnHiloDe(b) /\ Fuera' = Fuera
    BY <1>1, <2>1, HilosQuietos, FueraIgual
  <2>3. Listan(b)' = Listan(b)
    BY <1>1, <2>2, ListanIgual
  <2> QED BY <1>1, <2>1, <2>2, <2>3, DuenioIgual DEF Sano
<1>2. ~Quieto => ~Revienta
  BY DEF Revienta, disco
<1>3. CASE \E c \in Clientes : PedirBloque(c)
  BY <1>3, PedirDuenio
<1>4. CASE \E c \in Clientes : BorrarArchivo(c)
  BY <1>4, BorrarDuenio
<1>5. CASE \E i \in DOMAIN hilos : Compacta(i)
  BY <1>5, CompactarDuenio
<1>6. CASE CrearTmp \/ EscribirTmp
  BY <1>6, TmpDuenio
<1>7. CASE (\E c \in Clientes : EscribirParticion(c)) /\ ~Quieto
  BY <1>2, <1>7, EscribirDuenio
<1>8. CASE (\E c \in Clientes : LiberarArchivo(c)) /\ ~Quieto
  BY <1>2, <1>8, LiberarDuenio
<1>9. CASE \E c \in Clientes : AbrirParticion(c) /\ ~UNCHANGED archivos
  BY <1>9, AbrirDuenio
<1>10. CASE /\ \A c \in Clientes : /\ ~PedirBloque(c) /\ ~BorrarArchivo(c)
                                   /\ ~EscribirParticion(c) /\ ~LiberarArchivo(c)
                                   /\ ~(AbrirParticion(c) /\ ~UNCHANGED archivos)
            /\ \A i \in DOMAIN hilos : ~Compacta(i)
            /\ ~CrearTmp /\ ~EscribirTmp
  <2>1. UNCHANGED archivos /\ UNCHANGED bitmap
    BY <1>10, SoloEllos DEF ArchivosDe
  <2>2. EnManoDe(b)' = EnManoDe(b) /\ Quitados' = Quitados
    BY <1>10, ManosIguales, QuitadosIguales
  <2>3. /\ EnHiloDe(b)' = EnHiloDe(b)
        /\ \A t \in Tablas, n \in Nombres : Reescrito(t, n)' <=> Reescrito(t, n)
    BY <1>10, HilosIguales DEF Tipos
  <2>4. Fuera' = Fuera
    BY <2>2, <2>3, FueraIgual
  <2>5. Listan(b)' = Listan(b)
    BY <2>1, <2>4, ListanIgual
  <2> QED BY <2>1, <2>2, <2>3, <2>5, DuenioIgual DEF Sano
<1> QED BY <1>1, <1>3, <1>4, <1>5, <1>6, <1>7, <1>8, <1>9, <1>10

LEMMA NextSano ==
  ASSUME Tipos, Tipos', MutexInv, Sano, Next, ~Reiniciar, ~choque'
  PROVE  Sano'
<1>1. UnoPorTabla'
  BY NextUnoPorTabla DEF Sano
<1> QED BY <1>1, NextCreate, NextDrop, NextDumpInv, NextCompactaInv, NextTmpCInv, NextDuenio
        DEF Sano

\* A restart while nobody creates, drops, dumps or compacts leaves nothing by half.
LEMMA ReiniciarSano ==
  ASSUME Tipos, Tipos', MutexInv, Sano, Reiniciar, ~cortado'
  PROVE  Sano'
<1>1. /\ \A c \in Clientes : cliente'[c].pc = "libre"
      /\ dump'.pc = "dormido" /\ UNCHANGED <<archivos, bitmap>>
  <2>1. /\ cliente' = [c \in Clientes |-> Libre] /\ dump' = Dormido
        /\ UNCHANGED <<archivos, bitmap>>
    BY DEF Reiniciar, Levantado, disco
  <2> QED BY <2>1, LibreEsPedido DEF Dormido
<1>2. /\ \A c \in Clientes, t \in Tablas : ~Ocupado(c, t)
      /\ \A i \in DOMAIN hilos : ~Compactando(i)
  BY DEF Reiniciar
<1>3. \A i \in DOMAIN hilos :
        hilos[i].faltan = {} /\ hilos[i].libera = {} /\ hilos[i].bloques = {}
  BY <1>2, SinCompactar DEF Compactando, EnUso
<1>4. \A i \in DOMAIN hilos' : /\ hilos'[i].pc = "inicio" /\ hilos'[i].faltan = {}
                              /\ hilos'[i].libera = {} /\ hilos'[i].bloques = {}
  <2> DEFINE ts == SetToSeq({t \in Tablas : dir'[t] # 0})
  <2>1. hilos' = [i \in DOMAIN ts |-> Hilo(ts[i])]
    BY DEF Reiniciar, Levantado
  <2> HIDE DEF ts
  <2> QED BY <2>1 DEF Hilo
<1>5. UnoPorTabla'
  BY <1>1 DEF UnoPorTabla, Ocupado
<1>6. \A c \in Clientes : CreateInv(c)' /\ DropInv(c)'
  BY <1>1 DEF CreateInv, DropInv, ConMutex
<1>7. DumpInv'
  BY <1>1 DEF DumpInv
<1>8. \A i \in DOMAIN hilos' : CompactaInv(i)'
  BY <1>4 DEF CompactaInv
<1>9. ASSUME NEW t \in Tablas PROVE TmpCInv(t)'
  <2>1. ~(TmpC \in DOMAIN archivos[t] /\ archivos[t][TmpC].bloques # {})
    BY <1>3 DEF Sano, TmpCInv
  <2> QED BY <1>1, <2>1 DEF TmpCInv
<1>10. ASSUME NEW b \in Bloques PROVE UnDuenio(b)'
  <2>1. \A c \in Clientes : cliente[c].pc \notin PasosDeCreate \cup PasosDeDrop
    BY <1>2, OcupadoDe DEF Tipos
  <2>2. \A c \in Clientes : cliente[c].bloque # b /\ cliente[c].pc # "remove"
    <3>1. b # -1
      BY DEF Bloques
    <3> QED BY <2>1, <3>1, LugarDe DEF Tipos, PasosDeCreate, PasosDeDrop
  <2>3. \A c \in Clientes : cliente'[c].bloque # b
    BY <1>1, <1>10 DEF Tipos, TiposDeClientes, EnSuLugar, Bloques
  <2>4. EnManoDe(b) = {} /\ EnManoDe(b)' = {} /\ Quitados = {} /\ Quitados' = {}
    BY <1>1, <2>2, <2>3 DEF EnManoDe, Quitados
  <2>5. EnHiloDe(b) = {} /\ EnHiloDe(b)' = {}
    BY <1>3, <1>4 DEF EnHiloDe
  <2>6. \A t \in Tablas, n \in Nombres : ~Reescrito(t, n) /\ ~Reescrito(t, n)'
    BY <1>3, <1>4 DEF Reescrito
  <2>7. Listan(b)' = Listan(b)
    BY <1>1, <2>4, <2>6, FueraIgual, ListanIgual
  <2> QED BY <1>1, <2>4, <2>5, <2>7, DuenioIgual DEF Sano
<1> QED BY <1>5, <1>6, <1>7, <1>8, <1>9, <1>10 DEF Sano

LEMMA InitSano == Init => Sano
<1> SUFFICES ASSUME Init PROVE Sano
  OBVIOUS
<1>1. \A c \in Clientes : cliente[c].pc = "libre" /\ cliente[c].bloque = -1
  BY DEF Init, Libre
<1>2. \A t \in Tablas : DOMAIN archivos[t] = {}
  BY DEF Init
<1>3. DOMAIN hilos = {}
  BY DEF Init
<1>4. UnoPorTabla
  BY <1>1 DEF UnoPorTabla, Ocupado
<1>5. \A c \in Clientes : CreateInv(c) /\ DropInv(c)
  BY <1>1 DEF CreateInv, DropInv, ConMutex
<1>6. DumpInv
  <2>1. dump.pc = "dormido"
    BY DEF Init, Dormido
  <2> QED BY <2>1 DEF DumpInv
<1>7. \A t \in Tablas : TmpCInv(t)
  BY <1>2 DEF TmpCInv
<1>8. ASSUME NEW b \in Bloques PROVE UnDuenio(b)
  <2>1. EnManoDe(b) = {} /\ EnHiloDe(b) = {}
    BY <1>1, <1>3, <1>8 DEF EnManoDe, EnHiloDe, Bloques
  <2>2. Listan(b) = {}
    BY <1>2 DEF Listan
  <2> QED BY <2>1, <2>2 DEF UnDuenio, Init
<1> QED BY <1>3, <1>4, <1>5, <1>6, <1>7, <1>8 DEF Sano

LEMMA QuietoSano == ASSUME UNCHANGED vars, Sano PROVE Sano'
<1>1. UNCHANGED <<archivos, bitmap, cliente, hilos, dump, entradas, tablasParaCompactaciones>>
  BY DEF vars, disco, listas
<1>2. UnoPorTabla' /\ DumpInv'
  BY <1>1 DEF Sano, UnoPorTabla, Ocupado, DumpInv
<1>3. \A t : EncontrarTabla(t)' = EncontrarTabla(t)
  BY EncontrarIgual DEF vars
<1>4. \A c \in Clientes : CreateInv(c)' /\ DropInv(c)'
  BY <1>1, <1>3 DEF Sano, CreateInv, DropInv
<1>5. \A i \in DOMAIN hilos' : CompactaInv(i)'
  BY <1>1 DEF Sano, CompactaInv
<1>6. \A t \in Tablas : TmpCInv(t)'
  BY <1>1 DEF Sano, TmpCInv
<1>7. ASSUME NEW b \in Bloques PROVE UnDuenio(b)'
  <2>1. EnManoDe(b)' = EnManoDe(b) /\ Quitados' = Quitados
    BY <1>1 DEF EnManoDe, Quitados
  <2>2. EnHiloDe(b)' = EnHiloDe(b) /\ Fuera' = Fuera
    BY <1>1, <2>1, HilosQuietos, FueraIgual
  <2>3. Listan(b)' = Listan(b)
    BY <1>1, <2>2, ListanIgual
  <2> QED BY <1>1, <2>1, <2>2, <2>3, DuenioIgual DEF Sano
<1> QED BY <1>2, <1>4, <1>5, <1>6, <1>7 DEF Sano

\* The two marks of history are never taken back.
LEMMA MarcasQuedan ==
  ASSUME [Next]_vars
  PROVE  (choque => choque' = TRUE) /\ (cortado => cortado' = TRUE)
<1> USE DEF cuentas
<1>1. ASSUME NEW c \in Clientes, Atender(c) PROVE UNCHANGED <<choque, cortado>>
  <2> USE DEF SoloCliente, EnDisco, Pasa, Revienta
  <2>1. BuscarTablaDeInsert(c) \/ Insertar(c) => UNCHANGED <<choque, cortado>>
    BY DEF BuscarTablaDeInsert, Insertar
  <2>2. Create(c) => UNCHANGED <<choque, cortado>>
    BY DEF Create, BuscarDirectorio, CrearDirectorio, AbrirMetadata, GuardarMetadata,
           AbrirParticion, PedirBloque, EscribirParticion, AgregarEntrada, CrearHilo
  <2>3. Drop(c) => UNCHANGED <<choque, cortado>>
    BY DEF Drop, BuscarEntrada, BloquearEntrada, AbrirDirectorio, BorrarMetadata,
           LiberarArchivo, BorrarArchivo, BorrarDirectorio, Condenar, BuscarEnMemtable,
           DesbloquearEntrada
  <2> QED BY <1>1, <2>1, <2>2, <2>3 DEF Atender
<1>2. ASSUME NEW i, Compacta(i) \/ Compactacion(i) PROVE UNCHANGED <<choque, cortado>>
  BY <1>2, CompactarEs DEF Compacta, Compactacion, LeerMetadata, BuscarEntradaDeHilo, Despertar,
              FinalizarHilo, SoloHilo, Revienta
<1>3. Dumpear => UNCHANGED <<choque, cortado>>
  BY DEF Dumpear, ComenzarDump, MirarTabla, BloquearTmp, CrearTmp, EscribirTmp, TerminarDump, SoloDump,
         Revienta
<1>4. ASSUME NEW c, NEW op, NEW t, Pedir(c, op, t)
      PROVE  (choque => choque' = TRUE) /\ (cortado => cortado' = TRUE)
  BY <1>4 DEF Pedir
<1>5. Reiniciar => (choque => choque' = TRUE) /\ (cortado => cortado' = TRUE)
  BY DEF Reiniciar
<1>6. UNCHANGED vars => UNCHANGED <<choque, cortado>>
  BY DEF vars
<1> QED BY <1>1, <1>2, <1>3, <1>4, <1>5, <1>6, UsarLiberadaEs DEF Next

LEMMA SpecBloques == Spec => []BloquesInv
<1>1. BloquesInv <=> (~choque /\ ~cortado => Sano)
  BY DEF BloquesInv, Sano
<1>2. ASSUME Tipos, Tipos', MutexInv, ~choque /\ ~cortado => Sano, [Next]_vars, ~choque', ~cortado'
      PROVE  Sano'
  <2>1. ~choque /\ ~cortado
    BY <1>2, MarcasQuedan
  <2> QED BY <1>2, <2>1, QuietoSano, NextSano, ReiniciarSano
<1>3. Tipos /\ Tipos' /\ MutexInv /\ BloquesInv /\ [Next]_vars => BloquesInv'
  BY <1>1, <1>2 DEF BloquesInv, Sano
<1>4. Init => BloquesInv
  BY <1>1, InitSano
<1> QED BY <1>3, <1>4, SpecTipos, SpecMutex, PTL DEF Spec

\* While no CREATE and DROP of one table overlap and nothing is killed half way, a block
\* is marked in the bitmap if and only if somebody has it, and only one: a CREATE, a
\* compaction, or a file whose blocks have not been freed.  No order of two tables'
\* CREATE and DROP, the dump, and the compactions that free the blocks of a table and
\* ask for others one at a time, loses a block or gives it twice.
THEOREM CadaBloqueUnDuenio == Spec => []BloquesExactos
<1>1. BloquesInv => BloquesExactos
  BY DEF BloquesInv, BloquesExactos
<1> QED BY <1>1, SpecBloques, PTL
==============================================================================
