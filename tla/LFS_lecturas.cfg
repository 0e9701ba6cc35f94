SPECIFICATION FairSpec
CONSTANTS
  consola = consola
  idDump = idDump
  Clientes <- SoloConsola
  IdDump = idDump
  CosasABloquear <- CosasDeConsola
  Tablas = {"T"}
  Claves = {1, 2}
  MaxTimestamp = 1
  NumParticiones = 2
  CantBloques = 3
  MaxInserts = 2
INVARIANTS Frescura NadaInventado Exclusion
PROPERTIES ImplementaTabla SelectTermina MemtableSeVacia TmpSeCompacta
