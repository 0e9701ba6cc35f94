--------------------------- MODULE TablaAbstracta ---------------------------
(***************************************************************************)
(* What the file system promises of a table, whatever it keeps in memory   *)
(* and on disk: a SELECT answers with a record of the key that was         *)
(* inserted, and not with one older than any INSERT of the key that had    *)
(* succeeded when the SELECT arrived.  Once the disk has run out of blocks *)
(* or a dump could not open a file, only the first half is promised.       *)
(***************************************************************************)
EXTENDS Integers

CONSTANTS Tablas, Claves, Timestamps, Clientes

KEY_NO_EXISTE == -1

Registro == [key : Claves, timestamp : Timestamps]

VARIABLES
  insertados,   \* the records of each table
  pedido,       \* the SELECT of each client
  degradado     \* a dump has dropped records it could not write

vars == <<insertados, pedido, degradado>>

SinPedido == [estado |-> "ninguno"]

DeLaClave(t, k) == {r.timestamp : r \in {q \in insertados[t] : q.key = k}}

Init ==
  /\ insertados = [t \in Tablas |-> {}]
  /\ pedido = [c \in Clientes |-> SinPedido]
  /\ degradado = FALSE

Insertar(t, r) ==
  /\ insertados' = [insertados EXCEPT ![t] = @ \cup {r}]
  /\ UNCHANGED <<pedido, degradado>>

\* The records the client knew of become the least it may be answered with.
Pedir(c, t, k) ==
  /\ pedido[c] = SinPedido
  /\ pedido' = [pedido EXCEPT ![c] =
       [estado |-> "pendiente", tabla |-> t, key |-> k,
        debidos |-> DeLaClave(t, k)]]
  /\ UNCHANGED <<insertados, degradado>>

Permitidas(p) ==
  {r \in DeLaClave(p.tabla, p.key) \cup {KEY_NO_EXISTE} :
     degradado \/ \A d \in p.debidos : r >= d}

Responder(c) ==
  /\ pedido[c].estado = "pendiente"
  /\ \E r \in Permitidas(pedido[c]) :
       pedido' = [pedido EXCEPT ![c] = [estado |-> "respondido", respuesta |-> r]]
  /\ UNCHANGED <<insertados, degradado>>

Olvidar(c) ==
  /\ pedido[c].estado = "respondido"
  /\ pedido' = [pedido EXCEPT ![c] = SinPedido]
  /\ UNCHANGED <<insertados, degradado>>

Degradar ==
  /\ degradado' = TRUE
  /\ UNCHANGED <<insertados, pedido>>

Next ==
  \/ \E t \in Tablas, r \in Registro : Insertar(t, r)
  \/ \E c \in Clientes, t \in Tablas, k \in Claves : Pedir(c, t, k)
  \/ \E c \in Clientes : Responder(c) \/ Olvidar(c)
  \/ Degradar

Spec == Init /\ [][Next]_vars
=============================================================================
