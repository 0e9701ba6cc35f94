SPECIFICATION SpecEscritura
CONSTANTS
  consola = consola
  idDump = idDump
  Clientes <- SoloConsola
  IdDump = idDump
  CosasABloquear <- CosasDeConsola
  Tablas = {"T"}
  Claves = {1}
  MaxTimestamp = 1
  NumParticiones = 1
  CantBloques = 2
  MaxInserts = 2
PROPERTIES DumpBajaLosDatos
