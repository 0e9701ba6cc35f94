SPECIFICATION SpecArmado
CONSTANTS
  Memorias = {m1, m2}
  m1 = m1
  m2 = m2
  Ppal = m1
  Tablas = {"T"}
  Hilos = {h1}
  HiloDescribe = hd
  HiloGossip = hg
  Requests <- TiposDeRequest
  Nadie = Nadie
  Liberada = Liberada
  LfsInicial <- UnaTabla
  MaxPedidos = 1
  Fragiles = {m1}
  MaxFallas = 1
INVARIANTS TypeOK UnaSolaVez FantasmaSoloPorAdd JournalATodas
