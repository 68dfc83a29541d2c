SPECIFICATION Spec
CHECK_DEADLOCK FALSE
CONSTANTS
  MODO = "desarrollo"
  Pulsos = 2
  Giros = {3}
  Pedidos = {"getInputs", "getStatus", "GET", "PUT", "CALIBRATE", "calibrateSincrono"}
  MaxMedidas = 1
  MaxSondeos = 1
  MaxCortes = 1
  MaxPedidas = 4
  MaxLinea = 7
  MaxArranques = 1
INVARIANT TypeOK
INVARIANT FicheroAlDia
INVARIANT TiemposMedidos
PROPERTY LeerNoMata
PROPERTY SincronoTermina
PROPERTY ImplementaDialogo
