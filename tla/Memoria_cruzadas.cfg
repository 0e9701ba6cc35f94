SPECIFICATION Spec
CONSTANTS
  Hilos <- Todos
  Operaciones <- TodasLasOperaciones
  Tablas = {"T", "U"}
  Claves = {1}
  MarcosTotales = 2
  TablasDeLFS = {"T"}
  ClavesDeLFS = {1}
  MaxPedidos = 2
  MaxCaidas = 0
INVARIANTS RespuestaPropia
