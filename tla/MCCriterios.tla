----------------------------- MODULE MCCriterios -----------------------------
(* Instances of Criterios for TLC.                                         *)
EXTENDS Criterios

Otra == CHOOSE m \in Memorias : m # Ppal

UnaTabla == {[t \in Tablas |-> "SHC"], [t \in Tablas |-> Nadie]}

Pedido(op) == [op |-> op, tabla |-> "T", criterio |-> "SC", clave |-> 0, memoria |-> Nadie]
DeUnaTabla ==
  {[Pedido("INSERT") EXCEPT !.clave = 1], [Pedido("CREATE") EXCEPT !.criterio = "EC"],
   Pedido("DROP")}
DeVarias ==
  {[Pedido("JOURNAL") EXCEPT !.tabla = Nadie],
   [Pedido("ADD") EXCEPT !.tabla = Nadie, !.criterio = "SC", !.memoria = Ppal],
   [Pedido("ADD") EXCEPT !.tabla = Nadie, !.criterio = "SHC", !.memoria = Ppal],
   [Pedido("ADD") EXCEPT !.tabla = Nadie, !.criterio = "SHC", !.memoria = Otra],
   [Pedido("ADD") EXCEPT !.tabla = Nadie, !.criterio = "EC", !.memoria = Otra]}
TiposDeRequest == DeUnaTabla \cup DeVarias

\* The kernel starts, and nothing is typed.
Arranque ==
  /\ ApenasEmpieza
  /\ pedidos = MaxPedidos

\* The kernel as a few ADDs and a DESCRIBE leave it, when each memory has some
\* criterion and SHC has one of them.
Armado ==
  /\ memorias = Memorias /\ levantadas = Memorias
  /\ memoriaSc = Otra /\ memoriasShc = <<Otra>> /\ memoriasEc = {Ppal}
  /\ lfs \in LfsInicial
  /\ tablas = [c \in Consistencias |-> [t \in Tablas |-> IF lfs[t] = c THEN 1 ELSE 0]]
  /\ hilo = [h \in Todos |->
       IF h = HiloGossip THEN [Libre EXCEPT !.pc = "gossip", !.memoria = Ppal,
                                            !.fase = "vuelta"]
                         ELSE Libre]
  /\ cursor = [h \in Todos |-> Nadie]
  /\ numeroPpal = TRUE /\ vivo = TRUE
  /\ pedidos = 0 /\ fallas = 0
  /\ fantasmas = {} /\ deben = [h \in Todos |-> {}]

InitArmado == Arranque \/ Armado
SpecArmado == InitArmado /\ [][Next]_vars
==============================================================================
