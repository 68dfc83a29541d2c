SPECIFICATION Programa
CHECK_DEADLOCK FALSE
CONSTANTS
  h1 = h1
  Simulacion = TRUE
  N = 2
  MaxPosicionesIni = 2
  AnchoDAH = 1
  Plus = 1
  Hilos = {h1}
  Ninguno = Ninguno
  MaxFallos = 0
  Recorrido = 2
  Margen = 1
  Puntual = TRUE
  Paciente = FALSE
  OrdenesMover = {"PARADO", "CW", "CCW"}
  OrdenesPosicion <- SoloDAH
  OrdenesAngulo <- Angulos
  OrdenesDAH = {TRUE}
  OrdenesCalibrar <- SiNo
  OrdenesFinalizar = {}
  stoi <- Conversiones
  Recibidas <- Peticiones
  EsperasDAH = 2
  EsperasCorriente = 2
INVARIANT TypeTratamiento
INVARIANT ParaDeVerdad
INVARIANT MuereConCausa
PROPERTY ImplementaCupula
PROPERTY ConectaEnDAH
PROPERTY AtiendeSiempre
