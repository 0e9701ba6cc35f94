SPECIFICATION SpecDeTablas
CONSTANTS
  Tablas = {"T", "U"}
  Clientes = {c1, c2}
  Particiones = 1
  CantBloques = 2
  MaxPedidos = 2
  MaxFallas = 1
  MaxReinicios = 1
INVARIANTS TypeOK BloquesExactos EntradaVigente HilosConEntrada
PROPERTIES RequestTermina CondenadaSeQuita
