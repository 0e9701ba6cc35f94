--------------------------- MODULE MCPlanificador ---------------------------
(* Instances of Planificador for TLC.                                      *)
EXTENDS Planificador

\* Every kind of request: two scripts, one of which stops at an illegal line,
\* a request on its own, one that is not valid and one that is not scheduled.
UnaDeCada == {"larga", "corta", "select", "mala", "add"}

MCTipo ==
  [r \in Requests |-> CASE r \in {"larga", "corta"} -> "run"
                        [] r = "select" -> "comun"
                        [] r = "mala" -> "rechazada"
                        [] r = "add" -> "directa"]

MCLineas ==
  [r \in Requests |-> CASE r = "larga" -> <<"memoria", "memoria">>
                        [] r = "corta" -> <<"ilegal">>
                        [] OTHER -> <<>>]
==============================================================================
