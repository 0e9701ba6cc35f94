-------------------------------- MODULE MCLFS --------------------------------
(* Instances of LFS for TLC.                                               *)
EXTENDS LFS

CONSTANTS consola, idDump

SoloConsola == {consola}
CosasDeConsola == <<consola, idDump>>

\* The writing side alone: what INSERT, dump and compaction leave on disk.
NextEscritura ==
  \/ \E c \in Clientes, t \in Tablas, r \in Registro : Insertar(c, t, r)
  \/ AccionesDeDump
  \/ \E t \in Tablas : AccionesDeCompactacion(t)

SpecEscritura == Init /\ [][NextEscritura]_vars
==============================================================================
