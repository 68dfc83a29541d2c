SPECIFICATION Spec
CHECK_DEADLOCK FALSE
SYMMETRY Simetria
CONSTANTS
  h1 = h1
  h2 = h2
  Simulacion = TRUE
  N = 2
  MaxPosicionesIni = 2
  AnchoDAH = 1
  Plus = 1
  Hilos = {h1, h2}
  Ninguno = Ninguno
  MaxFallos = 0
  Recorrido = 2
  Margen = 1
  Puntual = FALSE
  Paciente = FALSE
  OrdenesMover = {"PARADO", "CW", "CCW"}
  OrdenesPosicion <- PosInterrumpidas
  OrdenesAngulo <- Nada
  OrdenesDAH = {FALSE}
  OrdenesCalibrar <- CalibrarCorto
  OrdenesFinalizar = {"todos", "stop", "encoderSimulator"}
INVARIANT TypeOK
INVARIANT InterbloqueoActuadores
INVARIANT UnSoloParador
INVARIANT MandoCoherente
INVARIANT Coherencia
PROPERTY MiraSegunSentido
