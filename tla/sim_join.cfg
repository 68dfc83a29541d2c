SPECIFICATION Spec
CHECK_DEADLOCK FALSE
CONSTANTS
  h1 = h1
  h2 = h2
  Simulacion = TRUE
  N = 2
  MaxPosicionesIni = 2
  AnchoDAH = 1
  Plus = 1
  Hilos = {h1, h2}
  Ninguno = Ninguno
  MaxFallos = 0
  Recorrido = 1
  Margen = 1
  Puntual = FALSE
  Paciente = FALSE
  OrdenesMover = {"PARADO", "CW"}
  OrdenesPosicion <- PosInterrumpidas
  OrdenesAngulo <- Nada
  OrdenesDAH = {}
  OrdenesCalibrar <- CalibrarOrigen
  OrdenesFinalizar = {"todos", "stop"}
PROPERTY JoinTermina
PROPERTY ImplementaManiobras
