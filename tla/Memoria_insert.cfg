SPECIFICATION Spec
CONSTANTS
  Hilos <- SoloKernel
  Operaciones <- Datos
  Tablas = {"T", "U"}
  Claves = {1}
  MarcosTotales = 1
  TablasDeLFS = {"T", "U"}
  ClavesDeLFS = {1}
  MaxPedidos = 3
  MaxCaidas = 0
INVARIANTS InsertQueda
