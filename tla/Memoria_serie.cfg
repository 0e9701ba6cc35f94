SPECIFICATION Spec
CONSTANTS
  Hilos <- SoloKernel
  Operaciones <- Datos
  Tablas = {"T", "U"}
  Claves = {1, 2}
  MarcosTotales = 2
  TablasDeLFS = {"T", "U"}
  ClavesDeLFS = {1}
  MaxPedidos = 4
  MaxCaidas = 0
INVARIANTS MarcosExactos ClavesUnicas LecturaCorrecta NadaSePierde LlenaDeVerdad
