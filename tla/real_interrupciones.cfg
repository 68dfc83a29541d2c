SPECIFICATION Spec
CHECK_DEADLOCK FALSE
SYMMETRY Simetria
CONSTANTS
  h1 = h1
  h2 = h2
  Simulacion = FALSE
  N = 2
  MaxPosicionesIni = 2
  AnchoDAH = 1
  Plus = 1
  Hilos = {h1, h2}
  Ninguno = Ninguno
  MaxFallos = 1
  Recorrido = 1
  Margen = 1
  Puntual = TRUE
  Paciente = FALSE
  OrdenesMover = {"PARADO", "CW", "CCW"}
  OrdenesPosicion <- Nada
  OrdenesAngulo <- AngulosReales
  OrdenesDAH = {}
  OrdenesCalibrar <- Nada
  OrdenesFinalizar = {}
INVARIANT InterbloqueoActuadores
INVARIANT CorrienteEnDAH
