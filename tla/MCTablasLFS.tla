----------------------------- MODULE MCTablasLFS -----------------------------
(* Instances of TablasLFS for TLC.                                         *)
EXTENDS TablasLFS

T == "T"

\* The disk with one table, and the rest as it begins.
UnaTabla ==
  /\ dir = [t \in Tablas |-> IF t = T THEN 1 ELSE 0]
  /\ metadata = [t \in Tablas |-> IF t = T THEN "completa" ELSE "no"]
  /\ archivos = [t \in Tablas |->
       IF t = T THEN [n \in 1..Particiones |-> ConBloques({n - 1})] ELSE <<>>]
  /\ bitmap = 0..(Particiones - 1) /\ creados = 1
  /\ memtable = {} /\ dump = Dormido /\ vivo = TRUE
  /\ cliente = [c \in Clientes |-> Libre]
  /\ pedidos = 0 /\ fallas = 0 /\ reinicios = 0
  /\ choque = FALSE /\ cortado = FALSE

\* The table was there when the file system started.
Levantada ==
  /\ UnaTabla
  /\ entradas = <<Entrada(T)>> /\ tablasParaCompactaciones = <<1>>
  /\ hilos = <<Hilo(T)>>

\* It was dropped and created again while its thread slept.
Recreada ==
  /\ UnaTabla
  /\ entradas = <<[Entrada(T) EXCEPT !.finalizar = TRUE], Entrada(T)>>
  /\ tablasParaCompactaciones = <<1, 2>>
  /\ hilos = <<[Hilo(T) EXCEPT !.pc = "duerme", !.entrada = 1], Hilo(T)>>

InitDeTablas == Init \/ Levantada \/ Recreada
SpecDeTablas == InitDeTablas /\ [][Next]_vars /\ Fairness
==============================================================================
