SPECIFICATION FairSpec
CONSTANTS
  a = a
  b = b
  c = c
  Nadie = Nadie
  Memorias = {a, b, c}
  Seeds <- Cadena
  Fragiles = {a, c}
  MaxCaidas = 2
  MaxInicios = 1
  MaxRondas = 1
INVARIANTS TypeOK
PROPERTIES SeConocenTodas CaidasSeOlvidan
