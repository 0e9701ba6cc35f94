------------------------------ MODULE MCMemoria ------------------------------
(* Instances of Memoria for TLC.                                           *)
EXTENDS Memoria

SoloKernel == {"kernel", "journal"}
Todos == {"kernel", "consola", "journal"}

Datos == {"SELECT", "INSERT", "CREATE", "DESCRIBE"}
\* DESCRIBE touches nothing of the cache.
Cambian == {"SELECT", "INSERT", "CREATE", "DROP", "JOURNAL"}
TodasLasOperaciones == {"SELECT", "INSERT", "CREATE", "DESCRIBE", "DROP", "JOURNAL"}

\* The cache as a SELECT of a key of the file system leaves it: something that
\* the few requests that follow can evict, drop and journal.
CacheConPagina ==
  LET t == CHOOSE x \in TablasDeLFS : TRUE
      k == CHOOSE x \in ClavesDeLFS : TRUE
  IN  /\ segmentos = <<[id |-> 1, tabla |-> t]>>
      /\ paginas = {[id |-> 1, seg |-> 1, marco |-> 0, modificado |-> FALSE]}
      /\ bits = {0}
      /\ marcos = [m \in Marcos |->
           [key |-> IF m = 0 THEN k ELSE UnaClave,
            valor |-> IF m = 0 THEN 0 ELSE SIN_VALOR, timestamp |-> 0]]

InitConPagina == CacheConPagina /\ NadieSirve

SpecConPagina == InitConPagina /\ [][Next]_vars /\ Fairness
==============================================================================
