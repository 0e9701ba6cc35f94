SPECIFICATION SpecEscritura
CONSTANTS
  consola = consola
  idDump = idDump
  Clientes <- SoloConsola
  IdDump = idDump
  CosasABloquear <- CosasDeConsola
  Tablas = {"T"}
  Claves = {1, 2}
  MaxTimestamp = 1
  NumParticiones = 1
  CantBloques = 8
  MaxInserts = 4
INVARIANTS SinClavesRepetidas
