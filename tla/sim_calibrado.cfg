SPECIFICATION Spec
CHECK_DEADLOCK FALSE
CONSTANTS
  h1 = h1
  Simulacion = TRUE
  N = 4
  MaxPosicionesIni = 4
  AnchoDAH = 1
  Plus = 1
  Hilos = {h1}
  Ninguno = Ninguno
  MaxFallos = 0
  Recorrido = 20
  Margen = 3
  Puntual = TRUE
  Paciente = TRUE
  OrdenesMover = {"PARADO"}
  OrdenesPosicion <- PosDestino
  OrdenesAngulo <- AngulosDestino
  OrdenesDAH = {TRUE}
  OrdenesCalibrar <- CalibrarTodo
  OrdenesFinalizar = {}
INVARIANT ConteoFiel
PROPERTY CalibraCorrecto
PROPERTY CalibraTermina
