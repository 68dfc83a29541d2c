SPECIFICATION Spec
CHECK_DEADLOCK FALSE
CONSTANTS
  MODO = "produccion"
  Pulsos = 2
  Giros = {3}
  Pedidos = {"GET", "CALIBRATE"}
  MaxMedidas = 1
  MaxSondeos = 1
  MaxCortes = 1
  MaxPedidas = 4
  MaxLinea = 7
  MaxArranques = 1
INVARIANT FicheroAlDia
