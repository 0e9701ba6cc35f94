SPECIFICATION SpecConPagina
CONSTANTS
  Hilos <- Todos
  Operaciones <- Cambian
  Tablas = {"T"}
  Claves = {1, 2}
  MarcosTotales = 1
  TablasDeLFS = {"T"}
  ClavesDeLFS = {1}
  MaxPedidos = 2
  MaxCaidas = 1
INVARIANTS TypeOK ElJournalSirveSolo
PROPERTIES JournalCompleto RequestTermina
