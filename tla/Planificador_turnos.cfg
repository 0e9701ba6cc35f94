SPECIFICATION FairSpec
CONSTANTS
  Requests <- UnaDeCada
  Tipo <- MCTipo
  Lineas <- MCLineas
  Multiprocesamiento = 1
  Quantums = {0, 1}
  Hilos = {1, 2}
  Nadie = Nadie
  MaxFallas = 1
INVARIANTS TypeOK SlotsConservados SemaforosRespaldados EnUnSoloLugar TurnosJustos
PROPERTIES ImplementaPlanificador TodaRequestTermina
