SPECIFICATION Spec
CONSTANTS
  h1 = h1
  Simulacion = TRUE
  N = 4
  MaxPosicionesIni = 4
  AnchoDAH = 1
  Plus = 1
  Hilos = {h1}
  Ninguno = Ninguno
  MaxFallos = 0
  Recorrido = 12
  Margen = 3
  Puntual = TRUE
  Paciente = TRUE
  OrdenesMover = {"PARADO"}
  OrdenesPosicion <- PosDestino
  OrdenesAngulo <- AngulosDestino
  OrdenesDAH = {TRUE, FALSE}
  OrdenesCalibrar <- CalibrarOrigen
  OrdenesFinalizar = {}
INVARIANT PosicionFiel
INVARIANT UnaVuelta
INVARIANT Viaje
PROPERTY LlegaADestino
PROPERTY MovimientoTermina
PROPERTY CaminoCorto
