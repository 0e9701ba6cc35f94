------------------------ MODULE PlanificadorAbstracto ------------------------
(***************************************************************************)
(* What the kernel promises of the requests it is given: it runs at most   *)
(* Multiprocesamiento of them at once, the lines of a script in order and  *)
(* each one once, by one thread at a time, and a script stops at the first *)
(* line that fails.                                                        *)
(***************************************************************************)
EXTENDS Integers, Sequences, FiniteSets

CONSTANTS Requests, Directas, Lineas, Multiprocesamiento

VARIABLES
  estado,   \* where each request is
  avance,   \* the lines of each script that succeeded
  exec      \* the requests that are running

vars == <<estado, avance, exec>>

Init ==
  /\ estado = [r \in Requests |-> "afuera"]
  /\ avance = [r \in Requests |-> 0]
  /\ exec = {}

Aceptar(r) ==
  /\ estado[r] = "afuera"
  /\ estado' = [estado EXCEPT ![r] = "aceptada"]
  /\ UNCHANGED <<avance, exec>>

\* Invalid requests are rejected; those whose thread cannot be created are lost.
Descartar(r) ==
  /\ estado[r] = IF r \in Directas THEN "afuera" ELSE "aceptada"
  /\ r \notin exec
  /\ estado' = [estado EXCEPT ![r] = "descartada"]
  /\ UNCHANGED <<avance, exec>>

\* ADD and METRICS are served beside the rest.
Atender(r) ==
  /\ estado[r] = "aceptada" /\ r \in Directas
  /\ estado' = [estado EXCEPT ![r] = "terminada"]
  /\ UNCHANGED <<avance, exec>>

Empezar(r) ==
  /\ estado[r] = "aceptada" /\ r \notin exec \cup Directas
  /\ Cardinality(exec) < Multiprocesamiento
  /\ exec' = exec \cup {r}
  /\ UNCHANGED <<estado, avance>>

Avanzar(r) ==
  /\ r \in exec /\ avance[r] < Len(Lineas[r])
  /\ avance' = [avance EXCEPT ![r] = @ + 1]
  /\ UNCHANGED <<estado, exec>>

\* End of quantum.
Pausar(r) ==
  /\ r \in exec /\ avance[r] < Len(Lineas[r])
  /\ exec' = exec \ {r}
  /\ UNCHANGED <<estado, avance>>

Terminar(r) ==
  /\ r \in exec /\ avance[r] = Len(Lineas[r])
  /\ estado' = [estado EXCEPT ![r] = "terminada"]
  /\ exec' = exec \ {r}
  /\ UNCHANGED avance

Cancelar(r) ==
  /\ r \in exec /\ avance[r] < Len(Lineas[r])
  /\ estado' = [estado EXCEPT ![r] = "cancelada"]
  /\ exec' = exec \ {r}
  /\ UNCHANGED avance

Next ==
  \E r \in Requests :
    \/ Aceptar(r) \/ Descartar(r) \/ Atender(r) \/ Empezar(r) \/ Avanzar(r)
    \/ Pausar(r) \/ Terminar(r) \/ Cancelar(r)

Spec == Init /\ [][Next]_vars
==============================================================================
