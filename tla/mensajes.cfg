SPECIFICATION Spec
CHECK_DEADLOCK FALSE
CONSTANTS
  s1 = s1
  s2 = s2
  parar = parar
  salir = salir
  setEmergencyShutterTimeout = setEmergencyShutterTimeout
  Sesiones = {s1, s2}
  Textos = {parar, salir, setEmergencyShutterTimeout}
  Salir = salir
  Fatales = {setEmergencyShutterTimeout}
  Principal = Principal
  Ninguno = Ninguno
INVARIANT TypeOK
INVARIANT Exclusion
INVARIANT Coherencia
INVARIANT RespuestaPropia
PROPERTY MapaQuieto
PROPERTY SinFugas
PROPERTY ImplementaPeticiones
