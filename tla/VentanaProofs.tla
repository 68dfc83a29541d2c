--------------------------- MODULE VentanaProofs ---------------------------
(***************************************************************************)
(* Theorems about the mobile part and the configuration: their types, the  *)
(* file that a restart reads, and what the serial line promises.           *)
(***************************************************************************)
EXTENDS Ventana, TLAPS

Carta == [de : Nat, t : Tiempos,
          mensaje : Metodos \ {"getLuz", "getStatus", "calibrateSincrono"}]
Respuesta == [ok : BOOLEAN, n : 1 .. 4, ninguno : BOOLEAN, uno : BOOLEAN, t : Tiempos]
DatosCalibrado == [fin : BOOLEAN, t : Tiempos]

(***************************************************************************)
(* Types.                                                                  *)
(***************************************************************************)
Firmware == [cal : {"nunca", "mide", "medido"}, t : Tiempos, sondeos : Nat]

Vuelta == [de : Nat, r : Respuesta]

Tipos ==
    /\ puerto \in {"nulo", "abierto", "fallido"}
    /\ pcm \in {"libre", "espera", "duerme", "muerto"}
    /\ llamada \in Metodos \cup {"sondeo", "ninguna"}
    /\ dc \in DatosCalibrado
    /\ pedidas \in Nat /\ leida \in Nat /\ plazos \in Nat
    /\ cortes \in Nat /\ medidas \in Nat
    /\ tarde \in BOOLEAN /\ sinTiempos \in BOOLEAN /\ potencia \in BOOLEAN
    /\ salida \in Seq(Carta) /\ entrada \in Seq(Vuelta)
    /\ fw \in Firmware

LEMMA MovilTipos == (TypeMovil <=> Tipos) /\ (TypeMovil' <=> Tipos')
BY DEF TypeMovil, Tipos, DatosCalibrado, Carta, Vuelta, Respuesta, Firmware

LEMMA MensajeTipo ==
    ASSUME NEW m \in Metodos \cup {"sondeo"}
    PROVE  Mensaje(m) \in Metodos \ {"getLuz", "getStatus", "calibrateSincrono"}
BY DEF Mensaje, Metodos

LEMMA FormasGET ==
    ASSUME fw.cal \in {"nunca", "mide", "medido"}, NEW r \in RespuestasGET
    PROVE  \/ r = SinMedir
           \/ r = Medida(fw.t) /\ fw.cal = "medido"
           \/ \E b \in BOOLEAN : r = Datos(2, b)
<1>1. CASE fw.cal = "nunca"
  BY <1>1 DEF RespuestasGET
<1>2. CASE fw.cal = "mide"
  BY <1>2 DEF RespuestasGET
<1>3. CASE fw.cal = "medido"
  <2>1. r \in {Medida(fw.t), Datos(2, TRUE)}
    BY <1>3 DEF RespuestasGET
  <2> QED
    BY <1>3, <2>1
<1> QED
  BY <1>1, <1>2, <1>3

LEMMA RespuestasTipo ==
    ASSUME fw.t \in Tiempos, fw.cal \in {"nunca", "mide", "medido"}, NEW mensaje,
           NEW r \in Respuestas(mensaje)
    PROVE  r \in Respuesta
<1>1. Basura \in Tiempos
  BY DEF Tiempos
<1>2. /\ Error \in Respuesta /\ Simple \in Respuesta /\ SinMedir \in Respuesta
      /\ \A n \in 1 .. 4, b \in BOOLEAN : Datos(n, b) \in Respuesta
      /\ Medida(fw.t) \in Respuesta
  <2>1. Error \in Respuesta
    BY <1>1 DEF Error, Respuesta
  <2>2. Simple \in Respuesta
    BY <2>1 DEF Simple, Respuesta
  <2>3. ASSUME NEW n \in 1 .. 4, NEW b \in BOOLEAN PROVE Datos(n, b) \in Respuesta
    BY <2>2, <2>3 DEF Datos, Respuesta
  <2>4. SinMedir \in Respuesta
    <3>0. \A b \in BOOLEAN : Datos(2, b) \in Respuesta
      BY <2>3
    <3>1. Datos(2, FALSE) \in Respuesta
      BY <3>0
    <3>2. \A f \in Respuesta : [f EXCEPT !.ninguno = TRUE] \in Respuesta
      BY DEF Respuesta
    <3> QED
      BY <3>1, <3>2 DEF SinMedir
  <2>5. Medida(fw.t) \in Respuesta
    BY DEF Medida, Respuesta
  <2> QED
    BY <2>1, <2>2, <2>3, <2>4, <2>5
<1> HIDE DEF Respuesta
<1>3. CASE mensaje \in {"getRelays", "movimiento"}
  <2>1. PICK b \in BOOLEAN : r = Datos(3, b)
    BY <1>3 DEF Respuestas
  <2> QED
    BY <1>2, <2>1
<1>4. CASE mensaje = "getButtons"
  <2>1. PICK b \in BOOLEAN : r = Datos(4, b)
    BY <1>4 DEF Respuestas
  <2> QED
    BY <1>2, <2>1
<1>5. CASE mensaje = "getInputs"
  <2>1. PICK b \in BOOLEAN : r = Datos(2, b)
    BY <1>5 DEF Respuestas
  <2> QED
    BY <1>2, <2>1
<1>6. CASE mensaje = "GET"
  <2>1. r \in RespuestasGET
    BY <1>6 DEF Respuestas
  <2>2. r = SinMedir \/ r = Medida(fw.t) \/ \E b \in BOOLEAN : r = Datos(2, b)
    BY <2>1, FormasGET
  <2> QED
    BY <1>2, <2>2
<1>7. CASE mensaje \notin {"getRelays", "movimiento", "getButtons", "getInputs", "GET"}
  BY <1>2, <1>7 DEF Respuestas
<1> QED
  BY <1>3, <1>4, <1>5, <1>6, <1>7

LEMMA LecturasTipo ==
    ASSUME dc \in DatosCalibrado, NEW m, NEW r \in Respuesta, NEW x \in Lecturas(m, r)
    PROVE  x.vive \in BOOLEAN /\ x.ok \in BOOLEAN /\ x.dc \in DatosCalibrado
<1>0. Usa(m, r) \in Nat /\ r.n \in Nat /\ r.ok \in BOOLEAN
  BY DEF Usa, Respuesta
<1>1. Rellena(r) \in DatosCalibrado
  BY DEF Rellena, Respuesta, DatosCalibrado
<1>3. CASE ~r.ok
  <2>1. x = [vive |-> TRUE, ok |-> FALSE, dc |-> dc]
    BY <1>3 DEF Lecturas
  <2> QED
    BY <2>1
<1>4. CASE r.ok /\ Usa(m, r) <= r.n
  <2>1. x \in {[vive |-> TRUE, ok |-> TRUE, dc |-> IF Consulta(m) THEN Rellena(r) ELSE dc]}
    BY <1>0, <1>4 DEF Lecturas
  <2>2. x = [vive |-> TRUE, ok |-> TRUE, dc |-> Rellena(r)]
        \/ x = [vive |-> TRUE, ok |-> TRUE, dc |-> dc]
    BY <2>1 DEF Consulta
  <2>3. CASE x = [vive |-> TRUE, ok |-> TRUE, dc |-> Rellena(r)]
    BY <1>1, <2>3
  <2>4. CASE x = [vive |-> TRUE, ok |-> TRUE, dc |-> dc]
    BY <2>4
  <2> QED
    BY <2>2, <2>3, <2>4
<1>5. CASE r.ok /\ ~(Usa(m, r) <= r.n)
  <2>1. x \in [vive : BOOLEAN, ok : {TRUE}, dc : [fin : BOOLEAN, t : {dc.t}]]
    BY <1>5 DEF Lecturas
  <2> QED
    BY <2>1 DEF DatosCalibrado
<1> QED
  BY <1>0, <1>3, <1>4, <1>5

LEMMA InicialTipo == Init => TypeOK
<1> SUFFICES ASSUME Init PROVE TypeOK
  OBVIOUS
<1>1. TypeMovil
  <2>1. DcVacio \in DatosCalibrado /\ FwNuevo \in Firmware
    BY DEF DcVacio, FwNuevo, DatosCalibrado, Firmware, Tiempos
  <2>2. salida \in Seq(Carta) /\ entrada \in Seq(Vuelta)
    BY DEF Init, InitMovil
  <2> QED
    BY <2>1, <2>2, MovilTipos DEF Tipos, Init, InitMovil
<1>2. Entregado \in Arboles
  BY PulsosAssumption DEF Entregado, Arboles, Secciones, Ausente, Campos
<1>3. \A a \in Arboles : Vale(a) \in Campos
  BY ModoBuild DEF Vale, Arboles, Campos, Secciones, Ausente
<1>4. TypeConfig
  BY <1>2, <1>3 DEF Init, InitConfig, TypeConfig
<1> QED
  BY <1>1, <1>4 DEF TypeOK, Init

LEMMA DcVacioTipo == DcVacio \in DatosCalibrado /\ FwNuevo \in Firmware
BY DEF DcVacio, FwNuevo, DatosCalibrado, Firmware, Tiempos

LEMMA CaeTipo ==
    ASSUME TypeMovil, Cae, UNCHANGED <<cartas, firmware>> PROVE TypeMovil'
BY MovilTipos, DcVacioTipo DEF Tipos, Cae, desconectar, cartas, firmware

LEMMA PideTipo ==
    ASSUME TypeMovil, NEW m \in Metodos \cup {"sondeo"}, NEW datos \in DatosCalibrado,
           Pide(m, datos)
    PROVE  TypeMovil'
<1>1. CASE Cae /\ UNCHANGED <<cartas, firmware>>
  BY <1>1, CaeTipo
<1>2. CASE puerto = "abierto" /\ pcm' = "espera"
  <2>1. /\ pcm' = "espera" /\ llamada' = m /\ dc' = datos /\ pedidas' = pedidas + 1
        /\ salida' = IF potencia
                     THEN Append(salida, [de |-> pedidas', mensaje |-> Mensaje(m),
                                          t |-> datos.t])
                     ELSE salida
        /\ UNCHANGED <<puerto, entrada, leida, plazos, tarde, sinTiempos, firmware>>
    BY <1>2 DEF Pide, Cae
  <2>2. [de |-> pedidas', mensaje |-> Mensaje(m), t |-> datos.t] \in Carta
    <3>1. pedidas' \in Nat /\ datos.t \in Tiempos
      BY <2>1 DEF TypeMovil, DatosCalibrado
    <3> QED
      BY <3>1, MensajeTipo DEF Carta
  <2>3. salida' \in Seq(Carta)
    BY <2>1, <2>2, MovilTipos DEF Tipos
  <2> QED
    BY <2>1, <2>3, MovilTipos DEF Tipos, firmware
<1> QED
  BY <1>1, <1>2 DEF Pide

LEMMA LeeTipo ==
    ASSUME TypeMovil, NEW x \in Lecturas(llamada, Head(entrada).r), Lee(x)
    PROVE  TypeMovil' /\ x.dc.t \in Tiempos
<1>0. Tipos
  BY MovilTipos
<1>1. entrada \in Seq(Vuelta) /\ entrada # <<>>
      /\ dc \in DatosCalibrado
  BY MovilTipos DEF Tipos, Lee
<1>2. Head(entrada) \in Vuelta
      /\ Tail(entrada) \in Seq(Vuelta)
  BY <1>1
<1>3. Head(entrada).de \in Nat /\ Head(entrada).r \in Respuesta
  BY <1>2 DEF Vuelta
<1>4. x.vive \in BOOLEAN /\ x.dc \in DatosCalibrado
  BY <1>1, <1>3, LecturasTipo
<1>5. x.dc.t \in Tiempos
  BY <1>4 DEF DatosCalibrado
<1>6. /\ leida' \in Nat /\ tarde' \in BOOLEAN /\ sinTiempos' \in BOOLEAN
      /\ UNCHANGED <<pedidas, plazos, firmware>>
  BY <1>3, MovilTipos DEF Tipos, Lee
<1>7. CASE Cae
  <2>1. /\ pcm' = "muerto" /\ llamada' = "ninguna" /\ dc' \in DatosCalibrado
        /\ puerto' = "nulo" /\ salida' \in Seq(Carta) /\ entrada' \in Seq(Vuelta)
    BY <1>7, DcVacioTipo DEF Cae, desconectar
  <2>2. Tipos'
    BY <1>0, <1>6, <2>1 DEF Tipos, firmware
  <2> QED
    BY <1>5, <2>2, MovilTipos
<1>8. CASE ~Cae
  <2>1. entrada' = Tail(entrada) /\ UNCHANGED <<puerto, salida>>
    BY <1>8 DEF Lee
  <2>2. /\ pcm' \in {"duerme", "libre"} /\ llamada' \in {"sondeo", "ninguna"}
        /\ dc' \in DatosCalibrado
    BY <1>4, <1>8, DcVacioTipo DEF Lee, Acaba
  <2>3. Tipos'
    BY <1>0, <1>2, <1>6, <2>1, <2>2 DEF Tipos, firmware
  <2> QED
    BY <1>5, <2>3, MovilTipos
<1> QED
  BY <1>5, <1>7, <1>8

LEMMA ContestaTipo == ASSUME TypeMovil, Contesta PROVE TypeMovil'
<1>0. /\ salida \in Seq(Carta) /\ salida # <<>> /\ fw \in Firmware /\ medidas \in Nat
      /\ entrada \in Seq(Vuelta)
      /\ salida' = Tail(salida)
      /\ UNCHANGED <<llamadas, cartas, potencia, cortes>>
  BY MovilTipos DEF Tipos, Contesta
<1> DEFINE p == Head(salida)
<1>1. PICK r \in Respuestas(p.mensaje) :
          /\ entrada' = Append(entrada, [de |-> p.de, r |-> r])
          /\ fw' = IF r.ok THEN Obedece(p) ELSE fw
          /\ medidas' = IF p.mensaje = "CALIBRATE" /\ r.ok THEN medidas + 1 ELSE medidas
  BY DEF Contesta
<1>2. p \in Carta /\ salida' \in Seq(Carta)
  BY <1>0
<1>3. p.de \in Nat /\ p.t \in Tiempos
  BY <1>2 DEF Carta
<1>4. r \in Respuesta
  BY <1>0, RespuestasTipo DEF Firmware
<1>5. entrada' \in Seq(Vuelta)
  <2>1. [de |-> p.de, r |-> r] \in Vuelta
    BY <1>3, <1>4 DEF Vuelta
  <2> QED
    BY <1>0, <1>1, <2>1
<1>6. Obedece(p) \in Firmware
  <2>1. [cal |-> "mide", t |-> 0, sondeos |-> 0] \in Firmware
    BY DEF Firmware, Tiempos
  <2>2. [cal |-> "medido", t |-> p.t, sondeos |-> 0] \in Firmware
    BY <1>3 DEF Firmware
  <2>3. [fw EXCEPT !.sondeos = @ + 1] \in Firmware
    <3>1. fw.sondeos + 1 \in Nat
      BY <1>0 DEF Firmware
    <3>2. \A n \in Nat : [fw EXCEPT !.sondeos = n] \in Firmware
      BY <1>0 DEF Firmware
    <3> QED
      BY <3>1, <3>2
  <2> QED
    BY <1>0, <2>1, <2>2, <2>3 DEF Obedece
<1>7. fw' \in Firmware /\ medidas' \in Nat
  BY <1>0, <1>1, <1>6
<1> QED
  BY <1>0, <1>2, <1>5, <1>7, MovilTipos DEF Tipos, llamadas, cartas

LEMMA CortaTipo == ASSUME TypeMovil, Corta PROVE TypeMovil'
<1>1. PICK n \in 0 .. Len(entrada) : entrada' = SubSeq(entrada, 1, n)
  BY DEF Corta
<1>2. entrada' \in Seq(Vuelta)
  BY <1>1, MovilTipos DEF Tipos
<1>3. /\ potencia' = FALSE /\ cortes' = cortes + 1 /\ fw' = FwNuevo /\ salida' = <<>>
      /\ UNCHANGED <<llamadas, cartas, medidas>>
  BY DEF Corta
<1>4. /\ Tipos /\ cortes' \in Nat /\ FwNuevo \in Firmware
      /\ salida' \in Seq(Carta)
  BY <1>3, MovilTipos, DcVacioTipo DEF Tipos
<1>5. Tipos'
  BY <1>2, <1>3, <1>4 DEF Tipos, llamadas, cartas
<1> QED
  BY <1>5, MovilTipos

LEMMA TerminaMedidaTipo == ASSUME TypeMovil, TerminaMedida PROVE TypeMovil'
<1>1. fw' \in Firmware
  BY DEF TerminaMedida, Firmware, Tiempos, TypeMovil
<1> QED
  BY <1>1, MovilTipos DEF Tipos, TerminaMedida, llamadas, cartas, linea

(***************************************************************************)
(* The times that a restart finds, and those that PUT sends, are never the *)
(* ones that tree.get is told to return for what it does not find.         *)
(***************************************************************************)
Entero(arbol) == arbol["comun"].tiempos = 0 /\ arbol[MODO].tiempos \in {-1} \cup Tiempos

TiemposGuardados ==
    /\ parametros.tiempos \in Tiempos
    /\ Entero(tree)
    /\ fichero = Ilegible \/ Entero(fichero)

LEMMA MovilPaso == TypeOK /\ TiemposGuardados /\ [Next]_vars => TypeMovil'
<1> SUFFICES ASSUME TypeOK, TiemposGuardados, [Next]_vars PROVE TypeMovil'
  OBVIOUS
<1>1. TypeMovil /\ Tipos /\ TypeConfig
  BY MovilTipos DEF TypeOK
<1>2. CASE Conecta
  <2>1. /\ puerto' \in {"fallido", "abierto"}
        /\ UNCHANGED <<pcm, llamada, dc, cartas, linea, firmware>>
    BY <1>2 DEF Conecta, conectar
  <2>2. Tipos'
    BY <1>1, <2>1 DEF Tipos, cartas, linea, firmware
  <2> QED
    BY <2>2, MovilTipos
<1>3. ASSUME NEW m \in Pedidos, Llama(m) PROVE TypeMovil'
  <2>1. parametros.tiempos \in Tiempos
    BY DEF TiemposGuardados
  <2> DEFINE datos == IF m = "PUT" THEN [fin |-> TRUE, t |-> parametros.tiempos] ELSE DcVacio
  <2>2. m \in Metodos /\ Pide(m, datos)
    BY <1>3, VentanaAssumption DEF Llama
  <2>3. datos \in DatosCalibrado
    BY <2>1, DcVacioTipo DEF DatosCalibrado
  <2> QED
    BY <1>1, <2>2, <2>3, PideTipo
<1>4. CASE Sondea
  BY <1>1, <1>4, PideTipo DEF Sondea, Tipos
<1>5. CASE Recibe
  BY <1>1, <1>5, LeeTipo DEF Recibe
<1>6. CASE NoContesta
  <2>1. /\ pcm' = "libre" /\ llamada' = "ninguna" /\ dc' \in DatosCalibrado
        /\ plazos' = plazos + 1
        /\ UNCHANGED <<puerto, pedidas, leida, tarde, sinTiempos, linea, firmware>>
    BY <1>6, DcVacioTipo DEF NoContesta, Vence, Acaba
  <2>2. plazos' \in Nat
    BY <1>1, <2>1 DEF Tipos
  <2>3. Tipos'
    BY <1>1, <2>1, <2>2 DEF Tipos, linea, firmware
  <2> QED
    BY <2>3, MovilTipos
<1>7. CASE Mata
  BY <1>1, <1>7, CaeTipo DEF Mata
<1>8. CASE Arranca
  <2>1. /\ pcm' = "libre" /\ plazos' = 0
        /\ UNCHANGED <<puerto, llamada, dc, pedidas, leida, tarde, sinTiempos, linea, firmware>>
    BY <1>8 DEF Arranca, ArrancaMovil
  <2>2. plazos' \in Nat
    BY <2>1
  <2>3. Tipos'
    BY <1>1, <2>1, <2>2 DEF Tipos, linea, firmware
  <2> QED
    BY <2>3, MovilTipos
<1>9. CASE Mundo
  <2>1. CASE Contesta
    BY <1>1, <2>1, ContestaTipo
  <2>2. CASE TerminaMedida
    BY <1>1, <2>2, TerminaMedidaTipo
  <2>3. CASE Corta
    BY <1>1, <2>3, CortaTipo
  <2>4. CASE Repone
    <3>1. potencia' = TRUE
          /\ UNCHANGED <<llamadas, cartas, linea, cortes, fw, medidas>>
      BY <2>4 DEF Repone
    <3>2. Tipos'
      BY <1>1, <3>1 DEF Tipos, llamadas, cartas, linea
    <3> QED
      BY <3>2, MovilTipos
  <2> QED
    BY <1>9, <2>1, <2>2, <2>3, <2>4 DEF Mundo
<1>10. CASE UNCHANGED movil
  <2>1. Tipos'
    BY <1>1, <1>10 DEF Tipos, movil, llamadas, cartas, linea, firmware
  <2> QED
    BY <2>1, MovilTipos
<1> QED
  BY <1>2, <1>3, <1>4, <1>5, <1>6, <1>7, <1>8, <1>9, <1>10
     DEF Next, Sigue, save, CalibraCupula, vars

LEMMA ValeTipo ==
    ASSUME NEW a \in Arboles PROVE Vale(a) \in Campos /\ (Entero(a) => Vale(a).tiempos \in Tiempos)
<1>1. Vale(a) \in Campos
  BY ModoBuild DEF Vale, Arboles, Campos, Secciones, Ausente
<1>2. ASSUME Entero(a) PROVE Vale(a).tiempos \in Tiempos
  <2>1. Vale(a).tiempos = IF a[MODO].tiempos # -1 THEN a[MODO].tiempos
                                                  ELSE a["comun"].tiempos
    BY DEF Vale, Ausente
  <2> QED
    BY <1>2, <2>1 DEF Entero, Tiempos
<1> QED
  BY <1>1, <1>2

Config2 == TypeConfig /\ TiemposGuardados

LEMMA PonMaximoTipo ==
    ASSUME Config2, NEW v \in Int, put_cupula_max_posiciones(v) PROVE Config2'
<1>1. tree' = [tree EXCEPT ![MODO] = [tree[MODO] EXCEPT !.max = v]]
      /\ parametros' = [parametros EXCEPT !.max = v]
      /\ guardando' = "abre" /\ fichero' = fichero
  BY DEF put_cupula_max_posiciones
<1>2. MODO \in Secciones /\ "comun" \in Secciones /\ MODO # "comun"
  BY ModoBuild DEF Secciones
<1>3. tree \in Arboles /\ parametros \in Campos /\ fichero \in Arboles
  BY DEF Config2, TypeConfig
<1>4. [tree[MODO] EXCEPT !.max = v] \in Campos /\ parametros' \in Campos
      /\ [tree[MODO] EXCEPT !.max = v].tiempos = tree[MODO].tiempos
      /\ parametros'.tiempos = parametros.tiempos
  BY <1>1, <1>2, <1>3 DEF Arboles, Campos
<1>5. tree' \in Arboles /\ tree'["comun"] = tree["comun"]
      /\ tree'[MODO].tiempos = tree[MODO].tiempos
  BY <1>1, <1>2, <1>3, <1>4 DEF Arboles
<1> QED
  BY <1>1, <1>3, <1>4, <1>5 DEF Config2, TypeConfig, TiemposGuardados, Entero

LEMMA PonVentanaTipo ==
    ASSUME Config2, NEW t \in Tiempos, put_ventana_calibrado(t) PROVE Config2'
<1>1. tree' = [[tree EXCEPT ![SeccionEstado].estado = 1] EXCEPT ![MODO].tiempos = t]
      /\ parametros' = [parametros EXCEPT !.estado = 1, !.tiempos = t]
      /\ guardando' = "abre" /\ fichero' = fichero
  BY DEF put_ventana_calibrado
<1>2. /\ MODO \in Secciones /\ "comun" \in Secciones /\ MODO # "comun"
      /\ SeccionEstado \in Secciones \ {"comun"} /\ t \in Int
  BY ModoBuild DEF Secciones, SeccionEstado, Tiempos, Basura
<1>3. tree \in Arboles /\ parametros \in Campos /\ fichero \in Arboles
  BY DEF Config2, TypeConfig
<1> DEFINE a == [tree EXCEPT ![SeccionEstado].estado = 1]
<1>4. a \in Arboles /\ a["comun"] = tree["comun"]
  BY <1>2, <1>3 DEF Arboles, Campos
<1>5. tree' = [a EXCEPT ![MODO].tiempos = t]
  BY <1>1
<1> HIDE DEF a
<1>6. tree' \in Arboles /\ tree'["comun"] = a["comun"] /\ tree'[MODO].tiempos = t
  BY <1>2, <1>4, <1>5 DEF Arboles, Campos
<1>7. parametros' \in Campos /\ parametros'.tiempos = t
  BY <1>1, <1>2, <1>3 DEF Campos
<1> QED
  BY <1>1, <1>3, <1>4, <1>6, <1>7 DEF Config2, TypeConfig, TiemposGuardados, Entero

LEMMA ConfigPaso == TypeOK /\ TiemposGuardados /\ [Next]_vars => Config2'
<1> SUFFICES ASSUME TypeOK, TiemposGuardados, [Next]_vars PROVE Config2'
  OBVIOUS
<1>1. Config2
  BY DEF TypeOK, Config2
<1>2. CASE UNCHANGED config
  BY <1>1, <1>2 DEF config, Config2, TypeConfig, TiemposGuardados
<1>3. ASSUME NEW v \in Giros, CalibraCupula(v) PROVE Config2'
  <2>1. v \in Int
    BY VentanaAssumption
  <2> QED
    BY <1>1, <1>3, <2>1, PonMaximoTipo DEF CalibraCupula
<1>4. CASE Recibe
  <2>1. PICK x \in Lecturas(llamada, Head(entrada).r) :
            /\ Lee(x)
            /\ IF Guarda(llamada, x) THEN put_ventana_calibrado(x.dc.t)
                                     ELSE UNCHANGED config
    BY <1>4 DEF Recibe
  <2>2. x.dc.t \in Tiempos
    BY <2>1, LeeTipo DEF TypeOK
  <2>3. CASE put_ventana_calibrado(x.dc.t)
    BY <1>1, <2>2, <2>3, PonVentanaTipo
  <2>4. CASE UNCHANGED config
    BY <1>2, <2>4
  <2> QED
    BY <2>1, <2>3, <2>4
<1>5. CASE save
  <2>1. Ilegible \in Arboles
    BY DEF Ilegible, Arboles, Ausente, Campos
  <2> QED
    BY <1>1, <1>5, <2>1
       DEF save, AbreFichero, EscribeFichero, Config2, TypeConfig, TiemposGuardados
<1>6. CASE Arranca
  <2>1. /\ fichero # Ilegible /\ tree' = fichero /\ parametros' = Vale(fichero)
        /\ guardando' = "no" /\ fichero' = fichero
    BY <1>6 DEF Arranca, load
  <2>2. fichero \in Arboles /\ Entero(fichero)
    BY <1>1, <2>1 DEF Config2, TypeConfig, TiemposGuardados
  <2>3. Vale(fichero) \in Campos /\ Vale(fichero).tiempos \in Tiempos
    BY <2>2, ValeTipo
  <2> QED
    BY <2>1, <2>2, <2>3 DEF Config2, TypeConfig, TiemposGuardados, Entero
<1> QED
  BY <1>2, <1>3, <1>4, <1>5, <1>6
     DEF Next, Sigue, Conecta, Llama, Sondea, NoContesta, Mata, Mundo, vars

LEMMA TipoSiempre == Spec => [](TypeOK /\ TiemposGuardados)
<1>1. Init => TypeOK /\ TiemposGuardados
  <2>1. Init => TiemposGuardados
    BY ModoBuild, PulsosAssumption DEF Init, InitConfig, TiemposGuardados, Entregado, Entero,
       Vale, Ausente, Tiempos, Secciones
  <2> QED
    BY <2>1, InicialTipo
<1>2. TypeOK /\ TiemposGuardados /\ [Next]_vars => (TypeOK /\ TiemposGuardados)'
  <2> SUFFICES ASSUME TypeOK, TiemposGuardados, [Next]_vars
               PROVE  (TypeOK /\ TiemposGuardados)'
    OBVIOUS
  <2>1. arranques' \in Nat
    BY DEF TypeOK, Next, Sigue, Conecta, Llama, Sondea, Recibe, NoContesta, save,
           CalibraCupula, Mata, Arranca, Mundo, vars
  <2> QED
    BY <2>1, MovilPaso, ConfigPaso DEF TypeOK, Config2
<1> QED
  BY <1>1, <1>2, PTL DEF Spec

(* Type correctness of the mobile part and of the configuration.           *)
THEOREM TipoCorrecto == Spec => []TypeOK
<1>1. TypeOK /\ TiemposGuardados => TypeOK
  OBVIOUS
<1> QED
  BY <1>1, TipoSiempre, PTL

(***************************************************************************)
(* The file.  The tree is what makes the parameters, and the file is the   *)
(* tree once it has been saved; a program that is killed while it saves is *)
(* started again from the old file, or not at all.                         *)
(***************************************************************************)
AlDia ==
    /\ parametros = Vale(tree)
    /\ guardando = "no" => fichero = tree

LEMMA ValeCampos ==
    ASSUME NEW a \in Arboles
    PROVE  Vale(a) = [max     |-> IF a[MODO].max # -2 THEN a[MODO].max ELSE a["comun"].max,
                      estado  |-> IF a[MODO].estado # -1 THEN a[MODO].estado
                                                         ELSE a["comun"].estado,
                      tiempos |-> IF a[MODO].tiempos # -1 THEN a[MODO].tiempos
                                                          ELSE a["comun"].tiempos]
BY DEF Vale, Ausente

LEMMA PonMaximoVale ==
    ASSUME Config2, NEW v \in Nat, put_cupula_max_posiciones(v)
    PROVE  Vale(tree') = [Vale(tree) EXCEPT !.max = v]
<1>1. /\ tree' = [tree EXCEPT ![MODO].max = v]
      /\ parametros' = [parametros EXCEPT !.max = v] /\ guardando' = "abre"
  BY DEF put_cupula_max_posiciones
<1>2. Config2'
  BY PonMaximoTipo
<1>3. tree \in Arboles /\ tree' \in Arboles /\ parametros \in Campos
  BY <1>2 DEF Config2, TypeConfig
<1>4. /\ MODO \in Secciones /\ "comun" \in Secciones /\ MODO # "comun"
  BY ModoBuild DEF Secciones
<1>5. /\ tree'["comun"] = tree["comun"] /\ tree'[MODO].max = v
      /\ tree'[MODO].estado = tree[MODO].estado
      /\ tree'[MODO].tiempos = tree[MODO].tiempos
  BY <1>1, <1>3, <1>4 DEF Arboles, Campos
<1> QED
  BY <1>3, <1>5, ValeCampos

LEMMA PonMaximoAlDia ==
    ASSUME Config2, AlDia, NEW v \in Nat, put_cupula_max_posiciones(v) PROVE AlDia'
<1>1. parametros' = [parametros EXCEPT !.max = v] /\ guardando' = "abre"
  BY DEF put_cupula_max_posiciones
<1> QED
  BY <1>1, PonMaximoVale DEF AlDia

LEMMA PonVentanaAlDia ==
    ASSUME Config2, AlDia, MODO = "desarrollo", NEW t \in Tiempos, put_ventana_calibrado(t)
    PROVE  AlDia'
<1>1. /\ tree' = [[tree EXCEPT !["desarrollo"].estado = 1] EXCEPT !["desarrollo"].tiempos = t]
      /\ parametros' = [parametros EXCEPT !.estado = 1, !.tiempos = t] /\ guardando' = "abre"
  BY DEF put_ventana_calibrado, SeccionEstado
<1>2. Config2'
  BY PonVentanaTipo
<1>3. tree \in Arboles /\ tree' \in Arboles /\ parametros \in Campos
  BY <1>2 DEF Config2, TypeConfig
<1>4. t # -1
  BY DEF Tiempos, Basura
<1> DEFINE a == [tree EXCEPT !["desarrollo"].estado = 1]
<1>5. /\ a \in Arboles /\ a["comun"] = tree["comun"] /\ a["desarrollo"].estado = 1
      /\ a["desarrollo"].max = tree["desarrollo"].max
  BY <1>3 DEF Arboles, Campos, Secciones
<1>6. tree' = [a EXCEPT !["desarrollo"].tiempos = t]
  BY <1>1
<1> HIDE DEF a
<1>7. /\ tree'["comun"] = tree["comun"] /\ tree'[MODO].max = tree[MODO].max
      /\ tree'[MODO].estado = 1 /\ tree'[MODO].tiempos = t
  BY <1>5, <1>6 DEF Arboles, Campos, Secciones
<1>8. Vale(tree') = [Vale(tree) EXCEPT !.estado = 1, !.tiempos = t]
  <2> DEFINE m == IF tree[MODO].max # -2 THEN tree[MODO].max ELSE tree["comun"].max
  <2>1. Vale(tree') = [max |-> m, estado |-> 1, tiempos |-> t]
    BY <1>3, <1>4, <1>7, ValeCampos
  <2>2. PICK e, u : Vale(tree) = [max |-> m, estado |-> e, tiempos |-> u]
    BY <1>3, ValeCampos
  <2> HIDE DEF m
  <2>3. [[Vale(tree) EXCEPT !.estado = 1] EXCEPT !.tiempos = t]
        = [max |-> m, estado |-> 1, tiempos |-> t]
    <3> DEFINE b == [Vale(tree) EXCEPT !.estado = 1]
    <3>1. b = [max |-> m, estado |-> 1, tiempos |-> u]
      BY <2>2
    <3> HIDE DEF b
    <3>2. [b EXCEPT !.tiempos = t] = [max |-> m, estado |-> 1, tiempos |-> t]
      BY <3>1
    <3> QED
      BY <3>2 DEF b
  <2> QED
    BY <2>1, <2>3
<1> QED
  BY <1>1, <1>8 DEF AlDia

LEMMA AlDiaPaso ==
    ASSUME MODO = "desarrollo", TypeOK, TiemposGuardados, AlDia, [Next]_vars PROVE AlDia'
<1>1. Config2
  BY DEF TypeOK, Config2
<1>2. CASE UNCHANGED config
  BY <1>2 DEF config, AlDia, Vale
<1>3. ASSUME NEW v \in Giros, CalibraCupula(v) PROVE AlDia'
  <2>1. v \in Nat
    BY VentanaAssumption
  <2> QED
    BY <1>1, <1>3, <2>1, PonMaximoAlDia DEF CalibraCupula
<1>4. CASE Recibe
  <2>1. PICK x \in Lecturas(llamada, Head(entrada).r) :
            /\ Lee(x)
            /\ IF Guarda(llamada, x) THEN put_ventana_calibrado(x.dc.t)
                                     ELSE UNCHANGED config
    BY <1>4 DEF Recibe
  <2>2. x.dc.t \in Tiempos
    BY <2>1, LeeTipo DEF TypeOK
  <2>3. CASE put_ventana_calibrado(x.dc.t)
    BY <1>1, <2>2, <2>3, PonVentanaAlDia
  <2> QED
    BY <1>2, <2>1, <2>3
<1>5. CASE save
  BY <1>5 DEF save, AbreFichero, EscribeFichero, AlDia
<1>6. CASE Arranca
  BY <1>6 DEF Arranca, load, AlDia
<1> QED
  BY <1>2, <1>3, <1>4, <1>5, <1>6
     DEF Next, Sigue, Conecta, Llama, Sondea, NoContesta, Mata, Mundo, vars

(* In the build for development, for any sizes of the dome and any answers *)
(* of the firmware, a restart finds what the program was working with      *)
(* (FicheroAlDia).  In the other build it does not: see the run            *)
(* v_poduccion.                                                            *)
THEOREM FicheroDesarrollo ==
    ASSUME MODO = "desarrollo" PROVE Spec => []FicheroAlDia
<1>1. Init => AlDia
  BY DEF Init, InitConfig, AlDia
<1>2. TypeOK /\ TiemposGuardados /\ AlDia /\ [Next]_vars => AlDia'
  BY AlDiaPaso
<1>3. AlDia => FicheroAlDia
  BY DEF AlDia, FicheroAlDia
<1> QED
  BY <1>1, <1>2, <1>3, TipoSiempre, PTL DEF Spec

(***************************************************************************)
(* The line.  What is on it, the answers in the buffer first and then the  *)
(* requests that have none yet, is in order, all of it asked after the     *)
(* last answer read; and there is no more of it, nor is anything in it     *)
(* older, than the calls that have timed out, and the call in hand, allow. *)
(***************************************************************************)
EnCurso == IF pcm = "espera" THEN 1 ELSE 0

EnPlazo(de, puesto) ==
    /\ leida < de /\ de <= pedidas
    /\ pedidas - de + puesto <= plazos + EnCurso

Cola ==
    /\ Len(entrada) + Len(salida) <= plazos + EnCurso
    /\ \A i \in 1 .. Len(entrada) : EnPlazo(entrada[i].de, i)
    /\ \A i \in 1 .. Len(salida) : EnPlazo(salida[i].de, Len(entrada) + i)

EnOrden ==
    /\ \A i, j \in 1 .. Len(entrada) : i < j => entrada[i].de < entrada[j].de
    /\ \A i, j \in 1 .. Len(salida) : i < j => salida[i].de < salida[j].de
    /\ \A i \in 1 .. Len(entrada), j \in 1 .. Len(salida) : entrada[i].de < salida[j].de

Linea ==
    /\ leida <= pedidas
    /\ Cola /\ EnOrden
    /\ pcm = "muerto" => salida = <<>> /\ entrada = <<>>

Numerada ==
    /\ pedidas \in Nat /\ leida \in Nat /\ plazos \in Nat
    /\ Len(entrada) \in Nat /\ Len(salida) \in Nat /\ EnCurso \in {0, 1}
    /\ \A i \in 1 .. Len(entrada) : entrada[i].de \in Nat
    /\ \A i \in 1 .. Len(salida) : salida[i].de \in Nat

LEMMA Numeros == Tipos => Numerada
<1> SUFFICES ASSUME Tipos PROVE Numerada
  OBVIOUS
<1>1. \A i \in 1 .. Len(entrada) : entrada[i] \in Vuelta
  BY DEF Tipos
<1>2. \A i \in 1 .. Len(salida) : salida[i] \in Carta
  BY DEF Tipos
<1>3. /\ pedidas \in Nat /\ leida \in Nat /\ plazos \in Nat
      /\ Len(entrada) \in Nat /\ Len(salida) \in Nat
  BY DEF Tipos
<1> QED
  BY <1>1, <1>2, <1>3 DEF Numerada, EnCurso, Vuelta, Carta

LEMMA LineaVacia ==
    ASSUME Tipos, salida = <<>>, entrada = <<>>, leida <= pedidas PROVE Linea
BY DEF Tipos, Linea, Cola, EnOrden, EnCurso

LEMMA CaeLinea ==
    ASSUME plazos' \in Nat, Linea, Cae, leida' <= pedidas' PROVE Linea'
<1>1. salida' = <<>> /\ entrada' = <<>>
  BY DEF Cae, desconectar
<1>2. Len(salida') = 0 /\ Len(entrada') = 0 /\ EnCurso' \in {0, 1}
  BY <1>1 DEF EnCurso
<1>3. 1 .. Len(salida') = {} /\ 1 .. Len(entrada') = {}
  BY <1>2
<1>4. Cola'
  <2> DEFINE e == EnCurso'
             q == plazos'
  <2>1. e \in {0, 1} /\ q \in Nat
    BY <1>2
  <2> HIDE DEF e, q
  <2>2. 0 + 0 <= q + e
    BY <2>1
  <2>3. Len(entrada') + Len(salida') <= plazos' + EnCurso'
    BY <1>2, <2>2 DEF e, q
  <2> QED
    BY <1>3, <2>3 DEF Cola
<1>5. EnOrden'
  BY <1>3 DEF EnOrden
<1> QED
  BY <1>1, <1>4, <1>5 DEF Linea

LEMMA PideLinea ==
    ASSUME Tipos, Linea, pcm \in {"libre", "duerme"}, NEW m, NEW datos, Pide(m, datos)
    PROVE  Linea'
<1>0. Numerada
  BY Numeros
<1>1. CASE Cae /\ UNCHANGED <<cartas, firmware>>
  BY <1>0, <1>1, CaeLinea DEF cartas, Linea, Numerada
<1>2. CASE ~(Cae /\ UNCHANGED <<cartas, firmware>>)
  <2> DEFINE e == [de |-> pedidas', mensaje |-> Mensaje(m), t |-> datos.t]
  <2>1. /\ pcm' = "espera" /\ pedidas' = pedidas + 1
        /\ salida' = IF potencia THEN Append(salida, e) ELSE salida
        /\ UNCHANGED <<entrada, leida, plazos>>
    BY <1>2 DEF Pide
  <2>2. EnCurso = 0 /\ EnCurso' = 1 /\ e.de = pedidas + 1
    BY <2>1 DEF EnCurso
  <2> HIDE DEF e
  <2>3. /\ Len(salida) \in Nat
        /\ \A i \in 1 .. Len(salida) : salida'[i] = salida[i]
        /\ \/ Len(salida') = Len(salida)
           \/ Len(salida') = Len(salida) + 1 /\ salida'[Len(salida) + 1] = e
    BY <2>1 DEF Tipos
  <2>4. ASSUME NEW i \in 1 .. Len(entrada) PROVE EnPlazo(entrada[i].de, i)'
    <3>1. EnPlazo(entrada[i].de, i) /\ entrada[i].de \in Nat
      BY <1>0 DEF Linea, Cola, Numerada
    <3> QED
      BY <1>0, <2>1, <2>2, <3>1 DEF EnPlazo, Numerada
  <2>5. ASSUME NEW i \in 1 .. Len(salida) PROVE EnPlazo(salida[i].de, Len(entrada) + i)'
    <3>1. EnPlazo(salida[i].de, Len(entrada) + i) /\ salida[i].de \in Nat
      BY <1>0 DEF Linea, Cola, Numerada
    <3>2. salida'[i] = salida[i] /\ Len(entrada') = Len(entrada)
      BY <2>1, <2>3
    <3>3. {pedidas, plazos, leida, Len(entrada), i} \subseteq Nat
      BY <1>0 DEF Numerada
    <3> DEFINE d == salida[i].de
               k == Len(entrada) + i
    <3>4. /\ leida < d /\ d <= pedidas /\ pedidas - d + k <= plazos
          /\ d \in Nat /\ k \in Nat
      BY <2>2, <3>1, <3>3 DEF EnPlazo
    <3> HIDE DEF d, k
    <3>5. leida' < d /\ d <= pedidas' /\ pedidas' - d + k <= plazos' + EnCurso'
      BY <2>1, <2>2, <3>3, <3>4
    <3> QED
      BY <3>2, <3>5 DEF EnPlazo, d, k
  <2>6. Len(entrada) + Len(salida) <= plazos /\ leida <= pedidas
    BY <1>0, <2>2 DEF Linea, Cola, Numerada
  <2>7. Cola'
    <3>1. Len(entrada') + Len(salida') <= plazos' + EnCurso'
      BY <1>0, <2>1, <2>2, <2>3, <2>6 DEF Numerada
    <3>2. \A i \in 1 .. Len(entrada') : EnPlazo(entrada[i].de, i)'
      BY <2>1, <2>4
    <3>3. ASSUME NEW i \in 1 .. Len(salida')
          PROVE  EnPlazo(salida[i].de, Len(entrada) + i)'
      <4>1. CASE i \in 1 .. Len(salida)
        BY <2>5, <4>1
      <4>2. CASE i \notin 1 .. Len(salida)
        <5>1. i = Len(salida) + 1 /\ salida'[i] = e
          BY <2>3, <4>2
        <5> QED
          BY <1>0, <2>1, <2>2, <2>6, <5>1 DEF EnPlazo, Numerada
      <4> QED
        BY <4>1, <4>2
    <3> QED
      BY <3>1, <3>2, <3>3 DEF Cola
  <2>8. EnOrden'
    <3>1. /\ \A i \in 1 .. Len(entrada) : entrada[i].de < e.de
          /\ \A i \in 1 .. Len(salida) : salida[i].de < e.de
      BY <1>0, <2>2 DEF Linea, Cola, EnPlazo, Numerada
    <3>2. ASSUME NEW i \in 1 .. Len(salida'), NEW j \in 1 .. Len(salida'), i < j
          PROVE  salida'[i].de < salida'[j].de
      <4>1. i \in 1 .. Len(salida) /\ salida'[i] = salida[i]
        BY <2>3, <3>2
      <4>2. CASE j \in 1 .. Len(salida)
        BY <2>3, <3>2, <4>1, <4>2 DEF Linea, EnOrden
      <4>3. CASE j \notin 1 .. Len(salida)
        <5>1. salida'[j] = e
          BY <2>3, <4>3
        <5> QED
          BY <3>1, <4>1, <5>1
      <4> QED
        BY <4>2, <4>3
    <3>3. ASSUME NEW i \in 1 .. Len(entrada), NEW j \in 1 .. Len(salida')
          PROVE  entrada[i].de < salida'[j].de
      <4>2. CASE j \in 1 .. Len(salida)
        BY <2>3, <4>2 DEF Linea, EnOrden
      <4>3. CASE j \notin 1 .. Len(salida)
        <5>1. salida'[j] = e
          BY <2>3, <4>3
        <5> QED
          BY <3>1, <5>1
      <4> QED
        BY <4>2, <4>3
    <3> QED
      BY <2>1, <3>2, <3>3 DEF Linea, EnOrden
  <2> QED
    BY <1>0, <2>1, <2>6, <2>7, <2>8 DEF Linea, Numerada
<1> QED
  BY <1>1, <1>2

LEMMA LeeLinea ==
    ASSUME Tipos, Linea, NEW x, Lee(x)
    PROVE  /\ Linea'
           /\ leida < leida' /\ leida' \in 1 .. pedidas /\ pedidas - plazos <= leida'
<1>0. Numerada
  BY Numeros
<1>1. /\ pcm = "espera" /\ entrada # <<>> /\ leida' = Head(entrada).de
      /\ UNCHANGED <<pedidas, plazos>>
  BY DEF Lee
<1>2. leida' = entrada[1].de /\ Len(entrada) >= 1
  BY <1>1 DEF Tipos
<1>3. EnPlazo(leida', 1) /\ EnCurso = 1 /\ leida' \in Nat
  BY <1>0, <1>1, <1>2 DEF Linea, Cola, EnCurso, Numerada
<1>4. leida < leida' /\ leida' \in 1 .. pedidas /\ pedidas - plazos <= leida'
  <2>1. leida < leida' /\ leida' <= pedidas /\ pedidas - leida' + 1 <= plazos + 1
    BY <1>3 DEF EnPlazo
  <2>2. pedidas \in Nat /\ leida \in Nat /\ plazos \in Nat /\ leida' \in Nat
    BY <1>0, <1>3 DEF Numerada
  <2> DEFINE k == leida'
  <2>3. leida < k /\ k <= pedidas /\ pedidas - k + 1 <= plazos + 1 /\ k \in Nat
    BY <2>1, <2>2
  <2> HIDE DEF k
  <2>4. leida < k /\ k \in 1 .. pedidas /\ pedidas - plazos <= k
    BY <2>2, <2>3
  <2> QED
    BY <2>4 DEF k
<1>5. CASE Cae
  <2>1. Linea'
    BY <1>0, <1>1, <1>4, <1>5, CaeLinea DEF Numerada
  <2> QED
    BY <1>4, <2>1
<1>6. CASE ~Cae
  <2>1. /\ pcm' \in {"duerme", "libre"} /\ entrada' = Tail(entrada) /\ salida' = salida
    BY <1>6 DEF Lee, Acaba
  <2>2. /\ Len(entrada') = Len(entrada) - 1 /\ EnCurso' = 0
        /\ \A i \in 1 .. Len(entrada') : entrada'[i] = entrada[i + 1]
    BY <1>1, <2>1 DEF Tipos, EnCurso
  <2>3. ASSUME NEW i \in 1 .. Len(entrada')
        PROVE  i + 1 \in 1 .. Len(entrada) /\ entrada'[i] = entrada[i + 1]
    BY <1>0, <2>2 DEF Numerada
  <2>4. ASSUME NEW i \in 1 .. Len(entrada') PROVE EnPlazo(entrada[i].de, i)'
    <3>1. /\ entrada'[i] = entrada[i + 1] /\ EnPlazo(entrada[i + 1].de, i + 1)
          /\ entrada[i + 1].de \in Nat /\ i \in Nat
      BY <1>0, <2>3 DEF Linea, Cola, Numerada
    <3>2. leida' < entrada[i + 1].de
      BY <1>0, <1>2, <2>3 DEF Linea, EnOrden, Numerada
    <3> QED
      BY <1>0, <1>1, <1>3, <2>2, <3>1, <3>2 DEF EnPlazo, Numerada
  <2>5. ASSUME NEW i \in 1 .. Len(salida) PROVE EnPlazo(salida[i].de, Len(entrada) + i)'
    <3>1. EnPlazo(salida[i].de, Len(entrada) + i) /\ salida[i].de \in Nat /\ i \in Nat
      BY <1>0 DEF Linea, Cola, Numerada
    <3>2. leida' < salida[i].de
      BY <1>0, <1>2 DEF Linea, EnOrden, Numerada
    <3> QED
      BY <1>0, <1>1, <1>3, <2>1, <2>2, <3>1, <3>2 DEF EnPlazo, Numerada
  <2>6. Len(entrada') + Len(salida') <= plazos' + EnCurso'
    BY <1>0, <1>1, <1>3, <2>1, <2>2 DEF Numerada, Linea, Cola
  <2>7. Cola'
    BY <2>1, <2>4, <2>5, <2>6 DEF Cola
  <2>8. EnOrden'
    <3>1. ASSUME NEW i \in 1 .. Len(entrada'), NEW j \in 1 .. Len(entrada'), i < j
          PROVE  entrada'[i].de < entrada'[j].de
      <4>1. /\ i + 1 \in 1 .. Len(entrada) /\ j + 1 \in 1 .. Len(entrada) /\ i + 1 < j + 1
            /\ entrada'[i] = entrada[i + 1] /\ entrada'[j] = entrada[j + 1]
        BY <2>3, <3>1
      <4> QED
        BY <4>1 DEF Linea, EnOrden
    <3>2. ASSUME NEW i \in 1 .. Len(entrada'), NEW j \in 1 .. Len(salida)
          PROVE  entrada'[i].de < salida[j].de
      BY <2>3 DEF Linea, EnOrden
    <3> QED
      BY <2>1, <3>1, <3>2 DEF Linea, EnOrden
  <2>9. leida' <= pedidas' /\ pcm' # "muerto"
    BY <1>1, <1>4, <2>1
  <2> QED
    BY <1>4, <2>7, <2>8, <2>9 DEF Linea
<1> QED
  BY <1>5, <1>6

LEMMA ContestaLinea ==
    ASSUME Tipos, Linea, Contesta PROVE Linea'
<1>0. Numerada
  BY Numeros
<1>1. PICK r : /\ entrada' = Append(entrada, [de |-> Head(salida).de, r |-> r])
               /\ salida # <<>> /\ salida' = Tail(salida)
               /\ UNCHANGED <<llamadas, cartas>>
  BY DEF Contesta
<1> DEFINE a == [de |-> Head(salida).de, r |-> r]
<1>2. a.de = salida[1].de /\ Len(salida) >= 1
  BY <1>1 DEF Tipos
<1>3. entrada' = Append(entrada, a)
  BY <1>1
<1> HIDE DEF a
<1>4. /\ Len(entrada') = Len(entrada) + 1 /\ entrada'[Len(entrada) + 1] = a
      /\ \A i \in 1 .. Len(entrada) : entrada'[i] = entrada[i]
      /\ Len(salida') = Len(salida) - 1
      /\ \A i \in 1 .. Len(salida') : salida'[i] = salida[i + 1]
  BY <1>1, <1>3 DEF Tipos
<1>5. EnCurso' = EnCurso /\ UNCHANGED <<pcm, pedidas, leida, plazos>>
  BY <1>1 DEF EnCurso, llamadas, cartas
<1>7. ASSUME NEW i \in 1 .. Len(salida')
      PROVE  i + 1 \in 1 .. Len(salida) /\ salida'[i] = salida[i + 1]
  BY <1>0, <1>4 DEF Numerada
<1>8. ASSUME NEW i \in 1 .. Len(entrada'), i \notin 1 .. Len(entrada)
      PROVE  i = Len(entrada) + 1 /\ entrada'[i] = a
  BY <1>0, <1>4, <1>8 DEF Numerada
<1>9. Cola'
  <2>1. Len(entrada') + Len(salida') <= plazos' + EnCurso'
    BY <1>0, <1>4, <1>5 DEF Numerada, Linea, Cola
  <2>2. ASSUME NEW i \in 1 .. Len(entrada') PROVE EnPlazo(entrada[i].de, i)'
    <3>1. CASE i \in 1 .. Len(entrada)
      <4>1. EnPlazo(entrada[i].de, i) /\ entrada'[i] = entrada[i]
        BY <1>4, <3>1 DEF Linea, Cola
      <4> QED
        BY <1>5, <4>1 DEF EnPlazo
    <3>2. CASE i \notin 1 .. Len(entrada)
      <4>1. i = Len(entrada) + 1 /\ entrada'[i] = a
        BY <1>8, <3>2
      <4>2. EnPlazo(salida[1].de, Len(entrada) + 1)
        BY <1>0, <1>2 DEF Linea, Cola, Numerada
      <4> QED
        BY <1>2, <1>5, <4>1, <4>2 DEF EnPlazo
    <3> QED
      BY <3>1, <3>2
  <2>3. ASSUME NEW i \in 1 .. Len(salida') PROVE EnPlazo(salida[i].de, Len(entrada) + i)'
    <3>1. EnPlazo(salida[i + 1].de, Len(entrada) + (i + 1)) /\ salida'[i] = salida[i + 1]
      BY <1>7 DEF Linea, Cola
    <3>2. Len(entrada') + i = Len(entrada) + (i + 1)
      BY <1>0, <1>4 DEF Numerada
    <3> QED
      BY <1>5, <3>1, <3>2 DEF EnPlazo
  <2> QED
    BY <2>1, <2>2, <2>3 DEF Cola
<1>10. EnOrden'
  <2>1. ASSUME NEW i \in 1 .. Len(entrada'), NEW j \in 1 .. Len(entrada'), i < j
        PROVE  entrada'[i].de < entrada'[j].de
    <3>1. i \in 1 .. Len(entrada) /\ entrada'[i] = entrada[i]
      BY <1>0, <1>4, <2>1 DEF Numerada
    <3>2. CASE j \in 1 .. Len(entrada)
      BY <1>4, <2>1, <3>1, <3>2 DEF Linea, EnOrden
    <3>3. CASE j \notin 1 .. Len(entrada)
      <4>1. entrada'[j].de = salida[1].de /\ 1 \in 1 .. Len(salida)
        BY <1>0, <1>2, <1>8, <3>3 DEF Numerada
      <4> QED
        BY <3>1, <4>1 DEF Linea, EnOrden
    <3> QED
      BY <3>2, <3>3
  <2>2. ASSUME NEW i \in 1 .. Len(salida'), NEW j \in 1 .. Len(salida'), i < j
        PROVE  salida'[i].de < salida'[j].de
    BY <1>7, <2>2 DEF Linea, EnOrden
  <2>3. ASSUME NEW i \in 1 .. Len(entrada'), NEW j \in 1 .. Len(salida')
        PROVE  entrada'[i].de < salida'[j].de
    <3>1. CASE i \in 1 .. Len(entrada)
      BY <1>4, <1>7, <3>1 DEF Linea, EnOrden
    <3>2. CASE i \notin 1 .. Len(entrada)
      <4>1. entrada'[i].de = salida[1].de /\ 1 \in 1 .. Len(salida)
        BY <1>0, <1>2, <1>8, <3>2 DEF Numerada
      <4>2. j + 1 \in 1 .. Len(salida) /\ salida'[j] = salida[j + 1] /\ 1 < j + 1
        BY <1>7
      <4> QED
        BY <4>1, <4>2 DEF Linea, EnOrden
    <3> QED
      BY <3>1, <3>2
  <2> QED
    BY <2>1, <2>2, <2>3 DEF EnOrden
<1>11. pcm' # "muerto" /\ leida' <= pedidas'
  BY <1>1, <1>5 DEF Linea
<1> QED
  BY <1>9, <1>10, <1>11 DEF Linea

LEMMA CortaLinea ==
    ASSUME Tipos, Linea, Corta PROVE Linea'
<1>0. Numerada
  BY Numeros
<1>1. PICK n \in 0 .. Len(entrada) : entrada' = SubSeq(entrada, 1, n)
  BY DEF Corta
<1>2. salida' = <<>> /\ UNCHANGED <<llamadas, cartas>>
  BY DEF Corta
<1>3. /\ Len(entrada') <= Len(entrada) /\ Len(entrada') \in Nat
      /\ \A i \in 1 .. Len(entrada') : entrada'[i] = entrada[i]
      /\ Len(salida') = 0 /\ 1 .. Len(salida') = {}
  BY <1>1, <1>2 DEF Tipos
<1>4. EnCurso' = EnCurso /\ UNCHANGED <<pcm, pedidas, leida, plazos>>
  BY <1>2 DEF EnCurso, llamadas, cartas
<1>5. \A i \in 1 .. Len(entrada') : i \in 1 .. Len(entrada)
  BY <1>0, <1>3 DEF Numerada
<1>6. ASSUME NEW i \in 1 .. Len(entrada') PROVE EnPlazo(entrada[i].de, i)'
  <2>1. EnPlazo(entrada[i].de, i) /\ entrada'[i] = entrada[i]
    BY <1>3, <1>5 DEF Linea, Cola
  <2> QED
    BY <1>4, <2>1 DEF EnPlazo
<1>7. Len(entrada') + Len(salida') <= plazos' + EnCurso'
  BY <1>0, <1>3, <1>4 DEF Numerada, Linea, Cola
<1>8. Cola'
  BY <1>3, <1>6, <1>7 DEF Cola
<1>9. EnOrden'
  BY <1>3, <1>5 DEF Linea, EnOrden
<1>10. pcm = "muerto" => entrada' = <<>>
  <2> SUFFICES ASSUME entrada = <<>> PROVE entrada' = <<>>
    BY DEF Linea
  <2> QED
    BY <1>1 DEF Tipos
<1> QED
  BY <1>2, <1>4, <1>8, <1>9, <1>10 DEF Linea

(***************************************************************************)
(* Each step is a step of Dialogo, or none of its concern.                 *)
(***************************************************************************)
Quieta == UNCHANGED <<pedidas, leida, plazos, pcm>>

LEMMA QuietaEsNada == Quieta => UNCHANGED D!vars
BY DEF Quieta, D!vars

LEMMA PideImplementa ==
    ASSUME pcm \in {"libre", "duerme"}, NEW m, NEW datos, Pide(m, datos) PROVE D!Next
<1>1. CASE Cae /\ UNCHANGED <<cartas, firmware>>
  <2>1. pcm # "muerto" /\ pcm' = "muerto" /\ UNCHANGED <<pedidas, leida, plazos>>
    BY <1>1 DEF Cae, cartas
  <2>2. D!Morir
    BY <2>1 DEF D!Morir
  <2> QED
    BY <2>2 DEF D!Next
<1>2. CASE ~(Cae /\ UNCHANGED <<cartas, firmware>>)
  <2>1. /\ pcm' = "espera" /\ pedidas' = pedidas + 1
        /\ UNCHANGED <<leida, plazos>>
    BY <1>2 DEF Pide
  <2>2. D!Pedir
    BY <2>1 DEF D!Pedir
  <2> QED
    BY <2>2 DEF D!Next
<1> QED
  BY <1>1, <1>2

LEMMA LeeImplementa ==
    ASSUME Tipos, Linea, NEW x, Lee(x) PROVE D!Next
<1>1. /\ leida < leida' /\ leida' \in 1 .. pedidas /\ pedidas - plazos <= leida'
  BY LeeLinea
<1>2. /\ pcm = "espera" /\ pcm' \in {"muerto", "duerme", "libre"}
      /\ UNCHANGED <<pedidas, plazos>>
  BY DEF Lee, Cae, Acaba
<1>3. D!Responder(leida')
  BY <1>1, <1>2 DEF D!Responder
<1> QED
  BY <1>1, <1>3 DEF D!Next, D!Vuelve

LEMMA LineaPaso ==
    ASSUME TypeOK, TiemposGuardados, Linea, [Next]_vars
    PROVE  Linea' /\ [D!Next]_(D!vars)
<1>1. Tipos /\ Tipos'
  BY MovilTipos, MovilPaso DEF TypeOK
<1>2. CASE UNCHANGED movil
  BY <1>2, QuietaEsNada
     DEF movil, llamadas, cartas, linea, Linea, Cola, EnOrden, EnPlazo, EnCurso, Quieta
<1>3. CASE Conecta
  <2>1. UNCHANGED <<pcm, cartas, linea>>
    BY <1>3 DEF Conecta, conectar
  <2> QED
    BY <2>1, QuietaEsNada
       DEF cartas, linea, Linea, Cola, EnOrden, EnPlazo, EnCurso, Quieta
<1>4. ASSUME NEW m \in Pedidos, Llama(m) PROVE Linea' /\ D!Next
  <2>1. PICK datos : Pide(m, datos)
    BY <1>4 DEF Llama
  <2>2. pcm \in {"libre", "duerme"}
    BY <1>4 DEF Llama, Libre
  <2> QED
    BY <1>1, <2>1, <2>2, PideLinea, PideImplementa
<1>5. CASE Sondea
  BY <1>1, <1>5, PideLinea, PideImplementa DEF Sondea
<1>6. CASE Recibe
  BY <1>1, <1>6, LeeLinea, LeeImplementa DEF Recibe
<1>7. CASE NoContesta
  <2>1. /\ pcm = "espera" /\ pcm' = "libre" /\ plazos' = plazos + 1
        /\ UNCHANGED <<pedidas, leida, linea>>
    BY <1>7 DEF NoContesta, Vence, Acaba
  <2>2. plazos' + EnCurso' = plazos + EnCurso
    BY <1>1, <2>1 DEF EnCurso, Tipos
  <2>3. Linea'
    BY <2>1, <2>2 DEF linea, Linea, Cola, EnOrden, EnPlazo
  <2>4. D!Vencer
    BY <2>1 DEF D!Vencer
  <2> QED
    BY <2>3, <2>4 DEF D!Next, D!Vuelve
<1>8. CASE Mata
  <2>1. /\ pcm # "muerto" /\ pcm' = "muerto" /\ Cae
        /\ UNCHANGED <<pedidas, leida, plazos>>
    BY <1>8 DEF Mata, Cae, cartas
  <2>2. Linea'
    BY <1>1, <2>1, CaeLinea DEF Linea, Tipos
  <2>3. D!Morir
    BY <2>1 DEF D!Morir
  <2> QED
    BY <2>2, <2>3 DEF D!Next
<1>9. CASE Arranca
  <2>1. /\ pcm = "muerto" /\ pcm' = "libre" /\ plazos' = 0
        /\ UNCHANGED <<pedidas, leida, linea>>
    BY <1>9 DEF Arranca, ArrancaMovil
  <2>2. salida' = <<>> /\ entrada' = <<>> /\ leida' <= pedidas'
    BY <2>1 DEF linea, Linea
  <2>3. Linea'
    <3>1. 1 .. Len(salida') = {} /\ 1 .. Len(entrada') = {}
          /\ Len(entrada') + Len(salida') <= 0
      BY <2>2
    <3>2. EnCurso' = 0
      BY <2>1 DEF EnCurso
    <3> QED
      BY <2>1, <2>2, <3>1, <3>2 DEF Linea, Cola, EnOrden
  <2>4. D!Arrancar
    BY <2>1 DEF D!Arrancar
  <2> QED
    BY <2>3, <2>4 DEF D!Next
<1>10. CASE Mundo
  <2>1. CASE Contesta
    <3>1. Quieta
      BY <2>1 DEF Contesta, llamadas, cartas, Quieta
    <3> QED
      BY <1>1, <2>1, <3>1, ContestaLinea, QuietaEsNada
  <2>2. CASE Corta
    <3>1. Quieta
      BY <2>2 DEF Corta, llamadas, cartas, Quieta
    <3> QED
      BY <1>1, <2>2, <3>1, CortaLinea, QuietaEsNada
  <2>3. CASE TerminaMedida \/ Repone
    <3>1. UNCHANGED <<llamadas, cartas, linea>>
      BY <2>3 DEF TerminaMedida, Repone
    <3> QED
      BY <3>1, QuietaEsNada
         DEF llamadas, cartas, linea, Linea, Cola, EnOrden, EnPlazo, EnCurso, Quieta
  <2> QED
    BY <1>10, <2>1, <2>2, <2>3 DEF Mundo
<1> QED
  BY <1>2, <1>3, <1>4, <1>5, <1>6, <1>7, <1>8, <1>9, <1>10
     DEF Next, Sigue, save, CalibraCupula, vars

(* For any methods called, any answers, power cuts and restarts, what      *)
(* comes back from the serial line is what Dialogo promises: its safety    *)
(* part, that is, the part of ImplementaDialogo that needs no fairness.    *)
THEOREM LineaImplementa == Spec => D!Seguro
<1>1. Init => Linea /\ D!Init
  <2> SUFFICES ASSUME Init PROVE Linea /\ D!Init
    OBVIOUS
  <2>1. Tipos /\ InitMovil
    BY InicialTipo, MovilTipos DEF TypeOK, Init
  <2>2. Linea
    BY <2>1, LineaVacia DEF InitMovil
  <2> QED
    BY <2>1, <2>2 DEF InitMovil, D!Init
<1>2. TypeOK /\ TiemposGuardados /\ Linea /\ [Next]_vars => Linea' /\ [D!Next]_(D!vars)
  BY LineaPaso
<1> QED
  BY <1>1, <1>2, TipoSiempre, PTL DEF Spec, D!Seguro

(***************************************************************************)
(* Whose answer it is.  While a call waits, the request and the answer     *)
(* that carry the number of the last request are its own; an answer to     *)
(* another method may be too short for it, and getStatus looks for what no *)
(* answer has.                                                             *)
(***************************************************************************)
Alcanza(m, r) == r.ok /\ m # "getStatus" => Usa(m, r) <= r.n

Propias ==
    pcm = "espera" =>
        /\ \A i \in 1 .. Len(salida) :
              salida[i].de = pedidas => salida[i].mensaje = Mensaje(llamada)
        /\ \A i \in 1 .. Len(entrada) :
              entrada[i].de = pedidas => Alcanza(llamada, entrada[i].r)

(***************************************************************************)
(* The times.  Until an answer is taken for another, every place where the *)
(* times of a calibration can be holds times that the firmware measured:   *)
(* the configuration in memory, in the tree and in the file, the firmware, *)
(* the requests that give them back and the answer the call waits for.     *)
(***************************************************************************)
Calibrada(c) == c.estado = 1 => c.tiempos \in TiemposPosibles
Fiel(m, r) == Consulta(m) => r.ok /\ (r.uno /\ r.ninguno => r.t \in TiemposPosibles)

MedidaConfig ==
    Calibrada(parametros) /\ Calibrada(Vale(tree)) /\ Calibrada(Vale(fichero))

MedidaFw ==
    /\ fw.cal = "mide" => medidas > 0
    /\ fw.cal = "medido" => fw.t \in TiemposPosibles

MedidaSalida ==
    \A i \in 1 .. Len(salida) :
       salida[i].mensaje = "PUT" => salida[i].t \in TiemposPosibles

MedidaEntrada ==
    pcm = "espera" => \A i \in 1 .. Len(entrada) :
                         entrada[i].de = pedidas => Fiel(llamada, entrada[i].r)

(* The struct of a GET is not filled until its answer comes.               *)
GETVacio == llamada = "GET" => dc.t = Basura

ConMedida == MedidaConfig /\ MedidaFw /\ MedidaSalida /\ MedidaEntrada /\ GETVacio

SinRetraso == ~tarde => ConMedida

LEMMA RespuestaAlcanza ==
    ASSUME fw \in Firmware, NEW m \in Metodos \cup {"sondeo"},
           NEW r \in Respuestas(Mensaje(m))
    PROVE  Alcanza(m, r)
<1>1. /\ SinMedir.n = 2 /\ ~SinMedir.uno
      /\ \A n \in 2 .. 4, b \in BOOLEAN : Datos(n, b).n = n
      /\ Medida(fw.t).n = 4 /\ Medida(fw.t).ninguno
      /\ \A b \in BOOLEAN : ~Datos(2, b).ninguno
  BY DEF SinMedir, Datos, Simple, Error, Medida
<1>2. CASE Consulta(m)
  <2>1. Mensaje(m) = "GET"
    BY <1>2 DEF Consulta, Mensaje
  <2>2. r = SinMedir \/ r = Medida(fw.t) \/ \E b \in BOOLEAN : r = Datos(2, b)
    <3>1. r \in RespuestasGET
      BY <2>1 DEF Respuestas
    <3>2. fw.cal \in {"nunca", "mide", "medido"}
      BY DEF Firmware
    <3> QED
      BY <3>1, <3>2, FormasGET
  <2>3. Usa(m, r) = IF r.ninguno /\ r.uno THEN 4 ELSE 2
    BY <1>2 DEF Usa, Consulta
  <2>4. CASE r = Medida(fw.t)
    BY <1>1, <2>3, <2>4 DEF Alcanza
  <2>5. CASE r = SinMedir
    BY <1>1, <2>3, <2>5 DEF Alcanza
  <2>6. ASSUME NEW b \in BOOLEAN, r = Datos(2, b) PROVE Alcanza(m, r)
    <3>1. r.n = 2
      BY <1>1, <2>6
    <3>2. ~r.ninguno
      BY <1>1, <2>6
    <3>3. Usa(m, r) = 2
      BY <2>3, <3>2
    <3> QED
      BY <3>1, <3>3 DEF Alcanza
  <2> QED
    BY <2>2, <2>4, <2>5, <2>6
<1>3. CASE m \in {"getRelays", "getLuz", "movimiento"}
  <2>1. Mensaje(m) \in {"getRelays", "movimiento"} /\ Usa(m, r) = 3
    BY <1>3 DEF Mensaje, Usa, Consulta
  <2>2. PICK b \in BOOLEAN : r = Datos(3, b)
    BY <2>1 DEF Respuestas
  <2> QED
    BY <1>1, <2>1, <2>2 DEF Alcanza
<1>4. CASE m = "getButtons"
  <2>1. Mensaje(m) = "getButtons" /\ Usa(m, r) = 4
    BY <1>4 DEF Mensaje, Usa, Consulta
  <2>2. PICK b \in BOOLEAN : r = Datos(4, b)
    BY <2>1 DEF Respuestas
  <2> QED
    BY <1>1, <2>1, <2>2 DEF Alcanza
<1>5. CASE m = "getInputs"
  <2>1. Mensaje(m) = "getInputs" /\ Usa(m, r) = 2
    BY <1>5 DEF Mensaje, Usa, Consulta
  <2>2. PICK b \in BOOLEAN : r = Datos(2, b)
    BY <2>1 DEF Respuestas
  <2> QED
    BY <1>1, <2>1, <2>2 DEF Alcanza
<1>6. CASE m = "getStatus"
  BY <1>6 DEF Alcanza
<1>7. CASE ~Consulta(m) /\ m \notin {"getRelays", "getLuz", "movimiento", "getButtons",
                                     "getInputs", "getStatus"}
  <2>1. Usa(m, r) = 0
    BY <1>7 DEF Usa
  <2>2. r \in Respuesta
    BY RespuestasTipo DEF Firmware
  <2> QED
    BY <2>1, <2>2 DEF Alcanza, Respuesta
<1> QED
  BY <1>2, <1>3, <1>4, <1>5, <1>6, <1>7

(* The shape of the steps that touch the line.                             *)
LEMMA PideForma ==
    ASSUME Tipos, NEW m, NEW datos, Pide(m, datos), pcm' = "espera",
           NEW e, e = [de |-> pedidas + 1, mensaje |-> Mensaje(m), t |-> datos.t]
    PROVE  /\ llamada' = m /\ pedidas' = pedidas + 1
           /\ dc' = datos /\ UNCHANGED <<entrada, tarde, sinTiempos, firmware>>
           /\ \A i \in 1 .. Len(salida') :
                 \/ i \in 1 .. Len(salida) /\ salida'[i] = salida[i]
                 \/ salida'[i] = e
<1>1. /\ llamada' = m /\ pedidas' = pedidas + 1
      /\ salida' = IF potencia THEN Append(salida, e) ELSE salida
      /\ dc' = datos /\ UNCHANGED <<entrada, tarde, sinTiempos, firmware>>
  BY DEF Pide, Cae
<1>2. \A i \in 1 .. Len(salida') :
          \/ i \in 1 .. Len(salida) /\ salida'[i] = salida[i]
          \/ salida'[i] = e
  <2>1. CASE salida' = salida
    BY <2>1
  <2>2. CASE salida' = Append(salida, e)
    <3>1. salida \in Seq(Carta)
      BY DEF Tipos
    <3>2. /\ Len(salida') = Len(salida) + 1 /\ Len(salida) \in Nat
          /\ \A i \in 1 .. Len(salida) : salida'[i] = salida[i]
          /\ salida'[Len(salida) + 1] = e
      BY <2>2, <3>1
    <3> QED
      BY <3>2
  <2> QED
    BY <1>1, <2>1, <2>2
<1> QED
  BY <1>1, <1>2

LEMMA ContestaForma ==
    ASSUME Tipos, Contesta, NEW p, p = salida[1]
    PROVE  /\ p \in Carta /\ 1 \in 1 .. Len(salida)
           /\ UNCHANGED <<llamadas, cartas>>
           /\ \A i \in 1 .. Len(salida') :
                 i + 1 \in 1 .. Len(salida) /\ salida'[i] = salida[i + 1]
           /\ \E r \in Respuestas(p.mensaje) :
                 /\ fw' = IF r.ok THEN Obedece(p) ELSE fw
                 /\ medidas' = IF p.mensaje = "CALIBRATE" /\ r.ok
                               THEN medidas + 1 ELSE medidas
                 /\ \A i \in 1 .. Len(entrada') :
                       \/ i \in 1 .. Len(entrada) /\ entrada'[i] = entrada[i]
                       \/ entrada'[i].de = p.de /\ entrada'[i].r = r
<1>0. p = Head(salida)
  BY DEF Tipos, Contesta
<1>1. PICK r \in Respuestas(p.mensaje) :
          /\ entrada' = Append(entrada, [de |-> p.de, r |-> r])
          /\ fw' = IF r.ok THEN Obedece(p) ELSE fw
          /\ medidas' = IF p.mensaje = "CALIBRATE" /\ r.ok THEN medidas + 1 ELSE medidas
  BY <1>0 DEF Contesta
<1>2. salida # <<>> /\ salida' = Tail(salida) /\ UNCHANGED <<llamadas, cartas>>
  BY DEF Contesta
<1>3. p \in Carta /\ 1 \in 1 .. Len(salida)
  BY <1>2 DEF Tipos
<1>4. \A i \in 1 .. Len(salida') :
          i + 1 \in 1 .. Len(salida) /\ salida'[i] = salida[i + 1]
  BY <1>2 DEF Tipos
<1> DEFINE a == [de |-> p.de, r |-> r]
<1>5. entrada' = Append(entrada, a)
  BY <1>1
<1> HIDE DEF a
<1>6. \A i \in 1 .. Len(entrada') :
          \/ i \in 1 .. Len(entrada) /\ entrada'[i] = entrada[i]
          \/ entrada'[i] = a
  <2>1. /\ Len(entrada') = Len(entrada) + 1 /\ Len(entrada) \in Nat
        /\ \A i \in 1 .. Len(entrada) : entrada'[i] = entrada[i]
        /\ entrada'[Len(entrada) + 1] = a
    BY <1>5 DEF Tipos
  <2> QED
    BY <2>1
<1>7. a.de = p.de /\ a.r = r
  BY DEF a
<1> QED
  BY <1>1, <1>2, <1>3, <1>4, <1>6, <1>7

LEMMA CortaForma ==
    ASSUME Tipos, Corta
    PROVE  /\ salida' = <<>> /\ Len(salida') = 0 /\ fw' = FwNuevo
           /\ UNCHANGED <<llamadas, cartas, medidas>>
           /\ \A i \in 1 .. Len(entrada') :
                 i \in 1 .. Len(entrada) /\ entrada'[i] = entrada[i]
<1>1. PICK n \in 0 .. Len(entrada) : entrada' = SubSeq(entrada, 1, n)
  BY DEF Corta
<1>2. Len(entrada) \in Nat /\ Len(entrada') = n
      /\ \A i \in 1 .. n : entrada'[i] = entrada[i]
  BY <1>1 DEF Tipos
<1>3. \A i \in 1 .. Len(entrada') : i \in 1 .. Len(entrada) /\ entrada'[i] = entrada[i]
  BY <1>2
<1> QED
  BY <1>3 DEF Corta

LEMMA PropiasPaso ==
    ASSUME TypeOK, TiemposGuardados, Linea, Propias, [Next]_vars PROVE Propias'
<1>1. Tipos /\ Numerada
  BY MovilTipos, Numeros DEF TypeOK
<1>2. CASE pcm' # "espera"
  BY <1>2 DEF Propias
<1>3. ASSUME NEW m \in Metodos \cup {"sondeo"}, NEW datos, Pide(m, datos), pcm' = "espera"
      PROVE  Propias'
  <2> DEFINE e == [de |-> pedidas + 1, mensaje |-> Mensaje(m), t |-> datos.t]
  <2>0. e.mensaje = Mensaje(m) /\ e = e
    OBVIOUS
  <2>1. /\ llamada' = m /\ pedidas' = pedidas + 1 /\ entrada' = entrada
        /\ \A i \in 1 .. Len(salida') :
              \/ i \in 1 .. Len(salida) /\ salida'[i] = salida[i]
              \/ salida'[i] = e
    BY <1>1, <1>3, PideForma
  <2> HIDE DEF e
  <2>2. /\ \A i \in 1 .. Len(salida) : salida[i].de # pedidas + 1
        /\ \A i \in 1 .. Len(entrada) : entrada[i].de # pedidas + 1
    BY <1>1 DEF Linea, Cola, EnPlazo, Numerada
  <2> QED
    BY <2>0, <2>1, <2>2 DEF Propias
<1>4. CASE Contesta
  <2> DEFINE p == salida[1]
  <2>1. /\ p \in Carta /\ 1 \in 1 .. Len(salida)
        /\ UNCHANGED <<llamadas, cartas>>
        /\ \A i \in 1 .. Len(salida') :
              i + 1 \in 1 .. Len(salida) /\ salida'[i] = salida[i + 1]
    BY <1>1, <1>4, ContestaForma
  <2>2. PICK r \in Respuestas(p.mensaje) :
            \A i \in 1 .. Len(entrada') :
               \/ i \in 1 .. Len(entrada) /\ entrada'[i] = entrada[i]
               \/ entrada'[i].de = p.de /\ entrada'[i].r = r
    BY <1>1, <1>4, ContestaForma
  <2>3. UNCHANGED <<pcm, llamada, pedidas>>
    BY <2>1 DEF llamadas, cartas
  <2>4. ASSUME pcm = "espera", NEW i \in 1 .. Len(entrada'), entrada'[i].de = pedidas
        PROVE  Alcanza(llamada, entrada'[i].r)
    <3>1. CASE i \in 1 .. Len(entrada) /\ entrada'[i] = entrada[i]
      BY <2>4, <3>1 DEF Propias
    <3>2. CASE entrada'[i].de = p.de /\ entrada'[i].r = r
      <4>1. p.de = pedidas /\ entrada'[i].r = r
        BY <2>4, <3>2
      <4>2. r \in Respuestas(Mensaje(llamada))
        BY <2>1, <2>2, <2>4, <4>1 DEF Propias
      <4>3. llamada \in Metodos \cup {"sondeo"} \/ llamada = "ninguna"
        BY <1>1 DEF Tipos
      <4>4. CASE llamada \in Metodos \cup {"sondeo"}
        BY <1>1, <4>1, <4>2, <4>4, RespuestaAlcanza DEF Tipos
      <4>5. CASE llamada = "ninguna"
        <5>1. Usa(llamada, r) = 0
          BY <4>5 DEF Usa, Consulta
        <5>2. r \in Respuesta
          BY <1>1, <2>2, RespuestasTipo DEF Tipos, Firmware
        <5> QED
          BY <4>1, <5>1, <5>2 DEF Alcanza, Respuesta
      <4> QED
        BY <4>3, <4>4, <4>5
    <3> QED
      BY <2>2, <3>1, <3>2
  <2> QED
    BY <2>1, <2>3, <2>4 DEF Propias
<1>5. CASE Corta
  <2>1. UNCHANGED <<pcm, llamada, pedidas>> /\ 1 .. Len(salida') = {}
        /\ \A i \in 1 .. Len(entrada') :
              i \in 1 .. Len(entrada) /\ entrada'[i] = entrada[i]
    BY <1>1, <1>5, CortaForma DEF llamadas, cartas
  <2> QED
    BY <2>1 DEF Propias
<1>6. CASE UNCHANGED <<pcm, llamada, pedidas, linea>>
  BY <1>6 DEF Propias, linea
<1>7. CASE Recibe \/ NoContesta \/ Mata \/ Arranca
  <2>1. pcm' # "espera"
    BY <1>7 DEF Recibe, Lee, Cae, Acaba, NoContesta, Vence, Mata, Arranca, ArrancaMovil
  <2> QED
    BY <1>2, <2>1
<1>8. ASSUME NEW m \in Pedidos, Llama(m) PROVE Propias'
  <2>1. m \in Metodos \cup {"sondeo"}
    BY VentanaAssumption
  <2>2. PICK datos : Pide(m, datos)
    BY <1>8 DEF Llama
  <2> QED
    BY <1>2, <1>3, <2>1, <2>2
<1>9. CASE Sondea
  BY <1>2, <1>3, <1>9 DEF Sondea
<1>10. CASE Conecta \/ TerminaMedida \/ Repone \/ UNCHANGED movil
  <2>1. UNCHANGED <<pcm, llamada, pedidas, linea>>
    BY <1>10 DEF Conecta, conectar, TerminaMedida, Repone, movil, llamadas, cartas
  <2> QED
    BY <1>6, <2>1
<1> QED
  BY <1>4, <1>5, <1>7, <1>8, <1>9, <1>10
     DEF Next, Sigue, Mundo, save, CalibraCupula, vars

LEMMA LeidaPropia ==
    ASSUME Tipos, Propias, NEW x, Lee(x), leida' = pedidas
    PROVE  /\ Head(entrada).r \in Respuesta /\ Alcanza(llamada, Head(entrada).r)
           /\ 1 \in 1 .. Len(entrada) /\ Head(entrada) = entrada[1] /\ entrada[1].de = pedidas
<1>1. /\ pcm = "espera" /\ leida' = Head(entrada).de
      /\ 1 \in 1 .. Len(entrada) /\ Head(entrada) = entrada[1] /\ entrada[1] \in Vuelta
  BY DEF Lee, Tipos
<1> QED
  BY <1>1 DEF Propias, Vuelta

(* What may be taken for times grows, and is never -1.                     *)
LEMMA PosiblesEntero ==
    ASSUME medidas \in Nat PROVE TiemposPosibles \subseteq Int \ {-1}
BY DEF TiemposPosibles, Basura

LEMMA PosiblesCrece ==
    ASSUME Tipos, [Next]_vars PROVE TiemposPosibles \subseteq TiemposPosibles'
<1>1. medidas \in Nat /\ sinTiempos \in BOOLEAN
  BY DEF Tipos
<1>2. medidas' = medidas \/ medidas' = medidas + 1
  BY DEF Next, Sigue, Recibe, Lee, NoContesta, Vence, Sondea, Llama, Pide, Cae, save,
         Conecta, conectar, CalibraCupula, Mata, Arranca, ArrancaMovil, Mundo,
         Contesta, TerminaMedida, Corta, Repone, vars, movil, firmware
<1>3. sinTiempos => sinTiempos'
  BY DEF Next, Sigue, Recibe, Lee, NoContesta, Vence, Sondea, Llama, Pide, Cae, save,
         Conecta, conectar, CalibraCupula, Mata, Arranca, ArrancaMovil, Mundo,
         Contesta, TerminaMedida, Corta, Repone, vars, movil, cartas
<1> QED
  BY <1>1, <1>2, <1>3 DEF TiemposPosibles

LEMMA LecturaMedida ==
    ASSUME Tipos, Propias, MedidaEntrada, GETVacio, NEW x, Lee(x), leida' = pedidas,
           Guarda(llamada, x), TiemposPosibles \subseteq TiemposPosibles'
    PROVE  x.dc.t \in TiemposPosibles'
<1> DEFINE b == Head(entrada).r
<1>1. b \in Respuesta /\ Alcanza("GET", b) /\ llamada = "GET"
  BY LeidaPropia DEF Guarda
<1>2. /\ Fiel("GET", b) /\ x \in Lecturas("GET", b) /\ dc.t = Basura
      /\ TerminadaSinTiempos(b) => sinTiempos'
  BY <1>1, LeidaPropia DEF Lee, MedidaEntrada, GETVacio
<1> HIDE DEF b
<1>3. b.ok /\ (b.uno /\ b.ninguno => b.t \in TiemposPosibles)
  BY <1>2 DEF Fiel, Consulta
<1>4. Usa("GET", b) <= b.n
  BY <1>1, <1>3 DEF Alcanza
<1>5. x \in {[vive |-> TRUE, ok |-> TRUE, dc |-> Rellena(b)]}
  BY <1>2, <1>3, <1>4 DEF Lecturas, Consulta
<1>6. x.dc = Rellena(b) /\ x.dc.fin
  BY <1>5 DEF Guarda
<1>7. b.uno
  BY <1>6 DEF Rellena
<1>8. CASE b.ninguno
  <2>1. Rellena(b).t = b.t
    BY <1>7, <1>8 DEF Rellena
  <2> QED
    BY <1>3, <1>6, <1>7, <1>8, <2>1
<1>9. CASE ~b.ninguno
  <2>1. Rellena(b).t = Basura /\ sinTiempos'
    BY <1>2, <1>3, <1>7, <1>9 DEF Rellena, TerminadaSinTiempos
  <2> QED
    BY <1>6, <2>1 DEF TiemposPosibles
<1> QED
  BY <1>8, <1>9

LEMMA GuardaMedida ==
    ASSUME Config2, MedidaConfig, medidas' \in Nat, NEW t \in TiemposPosibles',
           TiemposPosibles \subseteq TiemposPosibles',
           put_ventana_calibrado(t)
    PROVE  MedidaConfig'
<1>1. tree' = [[tree EXCEPT ![SeccionEstado].estado = 1] EXCEPT ![MODO].tiempos = t]
      /\ parametros' = [parametros EXCEPT !.estado = 1, !.tiempos = t] /\ fichero' = fichero
  BY DEF put_ventana_calibrado
<1>2. /\ MODO \in Secciones /\ SeccionEstado \in Secciones
      /\ tree \in Arboles /\ parametros \in Campos
  BY ModoBuild DEF Secciones, SeccionEstado, Config2, TypeConfig
<1> DEFINE a == [tree EXCEPT ![SeccionEstado].estado = 1]
<1>3. a \in Arboles
  BY <1>2 DEF Arboles, Campos
<1>4. tree' = [a EXCEPT ![MODO].tiempos = t]
  BY <1>1
<1> HIDE DEF a
<1>5. t \in Int /\ t # -1
  BY DEF TiemposPosibles, Basura
<1>6. tree' \in Arboles /\ tree'[MODO].tiempos = t
  BY <1>2, <1>3, <1>4, <1>5 DEF Arboles, Campos
<1>7. Vale(tree').tiempos = t
  BY <1>5, <1>6, ValeCampos
<1>8. parametros'.tiempos = t
  BY <1>1, <1>2 DEF Campos
<1>9. Calibrada(Vale(fichero))'
  BY <1>1 DEF MedidaConfig, Calibrada, Vale
<1> QED
  BY <1>7, <1>8, <1>9 DEF MedidaConfig, Calibrada

LEMMA MaximoMedida ==
    ASSUME Config2, MedidaConfig, NEW v \in Nat,
           TiemposPosibles \subseteq TiemposPosibles',
           put_cupula_max_posiciones(v)
    PROVE  MedidaConfig'
<1>1. parametros' = [parametros EXCEPT !.max = v] /\ fichero' = fichero
  BY DEF put_cupula_max_posiciones
<1>2. Vale(tree') = [Vale(tree) EXCEPT !.max = v]
  BY PonMaximoVale
<1>3. parametros \in Campos /\ Vale(tree) \in Campos
  BY ValeTipo DEF Config2, TypeConfig
<1>4. /\ parametros'.estado = parametros.estado /\ parametros'.tiempos = parametros.tiempos
      /\ Vale(tree').estado = Vale(tree).estado /\ Vale(tree').tiempos = Vale(tree).tiempos
  BY <1>1, <1>2, <1>3 DEF Campos
<1>5. Calibrada(Vale(fichero))'
  BY <1>1 DEF MedidaConfig, Calibrada, Vale
<1> QED
  BY <1>4, <1>5 DEF MedidaConfig, Calibrada

LEMMA ConfigMedida ==
    ASSUME TypeOK, TiemposGuardados, Propias, MedidaConfig, MedidaEntrada,
           GETVacio,
           [Next]_vars, ~tarde'
    PROVE  MedidaConfig'
<1>1. Config2 /\ Tipos /\ medidas \in Nat
  BY MovilTipos DEF TypeOK, Config2, Tipos
<1>0. TiemposPosibles \subseteq TiemposPosibles'
  BY <1>1, PosiblesCrece
<1>2. CASE UNCHANGED config
  BY <1>0, <1>2 DEF config, MedidaConfig, Calibrada, Vale
<1>3. CASE Mundo
  BY <1>2, <1>3 DEF Mundo
<1>4. ASSUME NEW v \in Giros, CalibraCupula(v) PROVE MedidaConfig'
  <2>1. v \in Nat
    BY <1>4, VentanaAssumption
  <2> QED
    BY <1>0, <1>1, <1>4, <2>1, MaximoMedida DEF CalibraCupula
<1>5. CASE Recibe
  <2>1. PICK x \in Lecturas(llamada, Head(entrada).r) :
            /\ Lee(x)
            /\ IF Guarda(llamada, x) THEN put_ventana_calibrado(x.dc.t)
                                     ELSE UNCHANGED config
    BY <1>5 DEF Recibe
  <2>2. leida' = pedidas /\ medidas' = medidas
    BY <2>1 DEF Lee, firmware
  <2>3. CASE Guarda(llamada, x)
    <3>1. x.dc.t \in TiemposPosibles'
      BY <1>0, <1>1, <2>1, <2>2, <2>3, LecturaMedida
    <3>2. put_ventana_calibrado(x.dc.t) /\ medidas' \in Nat
      BY <1>1, <2>1, <2>2, <2>3
    <3> QED
      BY <1>0, <1>1, <3>1, <3>2, GuardaMedida
  <2>4. CASE ~Guarda(llamada, x)
    BY <1>2, <2>1, <2>4
  <2> QED
    BY <2>3, <2>4
<1>6. CASE save
  <2>1. Vale(Ilegible).estado = -1
    BY ModoBuild DEF Vale, Ilegible, Ausente, Secciones
  <2>2. Calibrada(Vale(Ilegible))'
    BY <2>1 DEF Calibrada
  <2>3. UNCHANGED <<parametros, tree>>
        /\ (fichero' = Ilegible \/ fichero' = tree)
    BY <1>6 DEF save, AbreFichero, EscribeFichero
  <2>4. CASE fichero' = Ilegible
    BY <1>0, <2>2, <2>3, <2>4 DEF MedidaConfig, Calibrada, Vale
  <2>5. CASE fichero' = tree
    BY <1>0, <2>3, <2>5 DEF MedidaConfig, Calibrada, Vale
  <2> QED
    BY <2>3, <2>4, <2>5
<1>7. CASE Arranca
  BY <1>0, <1>7 DEF Arranca, ArrancaMovil, load, MedidaConfig, Calibrada, Vale
<1>8. CASE Conecta \/ (\E m \in Pedidos : Llama(m)) \/ Sondea \/ NoContesta \/ Mata
           \/ UNCHANGED vars
  <2>1. UNCHANGED config
    BY <1>8 DEF Conecta, Llama, Sondea, NoContesta, Mata, vars
  <2> QED
    BY <1>2, <2>1
<1> QED
  BY <1>3, <1>4, <1>5, <1>6, <1>7, <1>8 DEF Next, Sigue

LEMMA ContestaMedida ==
    ASSUME Tipos, Propias, MedidaFw, MedidaSalida, MedidaEntrada, Contesta,
           TiemposPosibles \subseteq TiemposPosibles'
    PROVE  MedidaFw' /\ MedidaSalida' /\ MedidaEntrada'
<1> DEFINE p == salida[1]
<1>1. /\ p \in Carta /\ 1 \in 1 .. Len(salida)
      /\ UNCHANGED <<pcm, llamada, pedidas>>
      /\ \A i \in 1 .. Len(salida') :
            i + 1 \in 1 .. Len(salida) /\ salida'[i] = salida[i + 1]
  BY ContestaForma DEF llamadas, cartas
<1>2. PICK r \in Respuestas(p.mensaje) :
          /\ fw' = IF r.ok THEN Obedece(p) ELSE fw
          /\ medidas' = IF p.mensaje = "CALIBRATE" /\ r.ok THEN medidas + 1 ELSE medidas
          /\ \A i \in 1 .. Len(entrada') :
                \/ i \in 1 .. Len(entrada) /\ entrada'[i] = entrada[i]
                \/ entrada'[i].de = p.de /\ entrada'[i].r = r
  BY ContestaForma
<1>3. medidas \in Nat /\ medidas' \in Nat /\ medidas <= medidas' /\ fw \in Firmware
  BY <1>2 DEF Tipos
<1>4. \A n \in TiemposPosibles : n \in TiemposPosibles'
  OBVIOUS
<1>5. p.mensaje = "PUT" => p.t \in TiemposPosibles
  BY <1>1 DEF MedidaSalida
<1>6. MedidaFw'
  <2>1. CASE r.ok /\ p.mensaje = "CALIBRATE"
    <3>1. fw'.cal = "mide" /\ medidas' = medidas + 1
      BY <1>2, <2>1 DEF Obedece
    <3> QED
      BY <1>3, <3>1 DEF MedidaFw
  <2>2. CASE r.ok /\ p.mensaje = "PUT"
    <3>1. fw'.cal = "medido" /\ fw'.t = p.t
      BY <1>2, <2>2 DEF Obedece
    <3> QED
      BY <1>4, <1>5, <2>2, <3>1 DEF MedidaFw
  <2>3. CASE ~(r.ok /\ p.mensaje \in {"CALIBRATE", "PUT"})
    <3>1. fw'.cal = fw.cal /\ fw'.t = fw.t
      <4>1. fw' = fw \/ fw' = [fw EXCEPT !.sondeos = @ + 1]
        BY <1>2, <2>3 DEF Obedece
      <4> QED
        BY <1>3, <4>1 DEF Firmware
    <3> QED
      BY <1>3, <1>4, <3>1 DEF MedidaFw
  <2> QED
    BY <2>1, <2>2, <2>3
<1>7. MedidaSalida'
  BY <1>1, <1>4 DEF MedidaSalida
<1>8. MedidaEntrada'
  <2> SUFFICES ASSUME pcm = "espera", NEW i \in 1 .. Len(entrada'),
                      entrada'[i].de = pedidas, Consulta(llamada)
               PROVE  /\ entrada'[i].r.ok
                      /\ entrada'[i].r.uno /\ entrada'[i].r.ninguno =>
                            entrada'[i].r.t \in TiemposPosibles'
    BY <1>1 DEF MedidaEntrada, Fiel
  <2>1. CASE i \in 1 .. Len(entrada) /\ entrada'[i] = entrada[i]
    BY <1>4, <2>1 DEF MedidaEntrada, Fiel
  <2>2. CASE entrada'[i].de = p.de /\ entrada'[i].r = r
    <3>1. p.mensaje = "GET"
      BY <1>1, <2>2 DEF Propias, Mensaje, Consulta
    <3>2. r \in RespuestasGET /\ fw.cal \in {"nunca", "mide", "medido"}
      BY <1>3, <3>1 DEF Respuestas, Firmware
    <3>3. /\ SinMedir.ok /\ ~SinMedir.uno
          /\ \A b \in BOOLEAN : Datos(2, b).ok /\ ~Datos(2, b).ninguno
          /\ Medida(fw.t).ok /\ Medida(fw.t).t = fw.t
      BY DEF SinMedir, Datos, Simple, Error, Medida
    <3>4. CASE r = SinMedir
      BY <2>2, <3>3, <3>4
    <3>5. ASSUME NEW b \in BOOLEAN, r = Datos(2, b)
          PROVE  entrada'[i].r.ok /\ ~entrada'[i].r.ninguno
      BY <2>2, <3>3, <3>5
    <3>6. CASE r = Medida(fw.t) /\ fw.cal = "medido"
      BY <1>4, <2>2, <3>3, <3>6 DEF MedidaFw
    <3> QED
      BY <3>2, <3>4, <3>5, <3>6, FormasGET
  <2> QED
    BY <1>2, <2>1, <2>2
<1> QED
  BY <1>6, <1>7, <1>8

LEMMA PideMedida ==
    ASSUME Tipos, Linea, ConMedida, NEW m, NEW datos, Pide(m, datos),
           m = "PUT" => datos.t \in TiemposPosibles,
           m = "GET" => datos.t = Basura,
           TiemposPosibles \subseteq TiemposPosibles'
    PROVE  MedidaFw' /\ MedidaSalida' /\ MedidaEntrada' /\ GETVacio'
<1>1. UNCHANGED firmware
  BY DEF Pide
<1>2. MedidaFw'
  BY <1>1 DEF MedidaFw, ConMedida, firmware
<1>3. CASE pcm' = "espera"
  <2> DEFINE e == [de |-> pedidas + 1, mensaje |-> Mensaje(m), t |-> datos.t]
  <2>1. e.mensaje = Mensaje(m) /\ e.t = datos.t
    OBVIOUS
  <2>2. /\ pedidas' = pedidas + 1 /\ entrada' = entrada /\ llamada' = m /\ dc' = datos
        /\ \A i \in 1 .. Len(salida') :
              \/ i \in 1 .. Len(salida) /\ salida'[i] = salida[i]
              \/ salida'[i] = e
    BY <1>3, PideForma
  <2> HIDE DEF e
  <2>3. Mensaje(m) = "PUT" => m = "PUT"
    BY DEF Mensaje
  <2>4. MedidaSalida'
    BY <1>1, <2>1, <2>2, <2>3 DEF MedidaSalida, ConMedida, firmware
  <2>5. \A i \in 1 .. Len(entrada) : entrada[i].de # pedidas + 1
    BY Numeros DEF Linea, Cola, EnPlazo, Numerada
  <2>6. MedidaEntrada'
    BY <2>2, <2>5 DEF MedidaEntrada
  <2>7. GETVacio'
    BY <2>2 DEF GETVacio
  <2> QED
    BY <1>2, <2>4, <2>6, <2>7
<1>4. CASE pcm' # "espera"
  <2>1. salida' = <<>> /\ 1 .. Len(salida') = {} /\ llamada' = "ninguna"
    BY <1>4 DEF Pide, Cae, desconectar
  <2> QED
    BY <1>2, <1>4, <2>1 DEF MedidaSalida, MedidaEntrada, GETVacio
<1> QED
  BY <1>3, <1>4

LEMMA SinRetrasoPaso ==
    ASSUME TypeOK, TiemposGuardados, Linea, Propias, SinRetraso, [Next]_vars
    PROVE  SinRetraso'
<1> SUFFICES ASSUME ~tarde' PROVE ConMedida'
  BY DEF SinRetraso
<1>1. Tipos /\ medidas \in Nat
  BY MovilTipos DEF TypeOK, Tipos
<1>0. TiemposPosibles \subseteq TiemposPosibles'
  BY <1>1, PosiblesCrece
<1>2. ConMedida
  <2>1. ~tarde
    BY <1>1 DEF Next, Sigue, Recibe, Lee, NoContesta, Vence, Sondea, Llama, Pide, Cae, save,
                Conecta, conectar, CalibraCupula, Mata, Arranca, ArrancaMovil, Mundo,
                Contesta, TerminaMedida, Corta, Repone, vars, movil, cartas, Tipos
  <2> QED
    BY <2>1 DEF SinRetraso
<1>3. MedidaConfig'
  BY <1>2, ConfigMedida DEF ConMedida
<1> SUFFICES MedidaFw' /\ MedidaSalida' /\ MedidaEntrada' /\ GETVacio'
  BY <1>3 DEF ConMedida
<1>4. CASE UNCHANGED <<pcm, llamada, dc, pedidas, linea, firmware>>
  BY <1>0, <1>2, <1>4
     DEF ConMedida, MedidaFw, MedidaSalida, MedidaEntrada, GETVacio, Fiel, linea, firmware
<1>5. ASSUME pcm' # "espera", UNCHANGED firmware,
             llamada' # "GET" \/ UNCHANGED <<llamada, dc>>,
             \A i \in 1 .. Len(salida') : i \in 1 .. Len(salida) /\ salida'[i] = salida[i]
      PROVE  MedidaFw' /\ MedidaSalida' /\ MedidaEntrada' /\ GETVacio'
  BY <1>0, <1>2, <1>5
     DEF ConMedida, MedidaFw, MedidaSalida, MedidaEntrada, GETVacio, firmware
<1>6. ASSUME NEW m \in Pedidos, Llama(m)
      PROVE  MedidaFw' /\ MedidaSalida' /\ MedidaEntrada' /\ GETVacio'
  <2> DEFINE datos == IF m = "PUT" THEN [fin |-> TRUE, t |-> parametros.tiempos] ELSE DcVacio
  <2>1. Pide(m, datos)
    BY <1>6 DEF Llama
  <2>2. m = "PUT" => datos.t \in TiemposPosibles
    BY <1>2, <1>6 DEF Llama, ConMedida, MedidaConfig, Calibrada
  <2>3. m = "GET" => datos.t = Basura
    BY DEF DcVacio
  <2> QED
    BY <1>0, <1>1, <1>2, <2>1, <2>2, <2>3, PideMedida
<1>7. CASE Sondea
  BY <1>0, <1>1, <1>2, <1>7, PideMedida DEF Sondea
<1>8. CASE Recibe \/ NoContesta \/ Mata \/ Arranca
  <2>1. UNCHANGED firmware /\ pcm' # "espera"
    BY <1>8 DEF Recibe, Lee, Cae, Acaba, NoContesta, Vence, Mata, Arranca, ArrancaMovil
  <2>2. salida' = salida \/ salida' = <<>>
    BY <1>8 DEF Recibe, Lee, Cae, desconectar, NoContesta, Vence, Mata, Arranca,
                ArrancaMovil, linea
  <2>3. \A i \in 1 .. Len(salida') : i \in 1 .. Len(salida) /\ salida'[i] = salida[i]
    BY <2>2
  <2>4. llamada' # "GET" \/ UNCHANGED <<llamada, dc>>
    BY <1>8 DEF Recibe, Lee, Cae, Acaba, NoContesta, Vence, Mata, Arranca, ArrancaMovil
  <2> QED
    BY <1>5, <2>1, <2>3, <2>4
<1>9. CASE Contesta
  <2>1. UNCHANGED <<llamada, dc>>
    BY <1>9 DEF Contesta, llamadas
  <2> QED
    BY <1>0, <1>1, <1>2, <1>9, <2>1, ContestaMedida DEF ConMedida, GETVacio
<1>10. CASE Corta
  <2>1. /\ fw' = FwNuevo /\ 1 .. Len(salida') = {}
        /\ UNCHANGED <<pcm, llamada, dc, pedidas, medidas>>
        /\ \A i \in 1 .. Len(entrada') :
              i \in 1 .. Len(entrada) /\ entrada'[i] = entrada[i]
    BY <1>1, <1>10, CortaForma DEF llamadas, cartas
  <2> QED
    BY <1>0, <1>2, <2>1
       DEF ConMedida, MedidaFw, MedidaSalida, MedidaEntrada, GETVacio, Fiel, FwNuevo
<1>11. CASE TerminaMedida
  <2>1. /\ fw.cal = "mide" /\ fw'.cal = "medido" /\ fw'.t = medidas
        /\ UNCHANGED <<pcm, llamada, dc, pedidas, linea, medidas>>
    BY <1>11 DEF TerminaMedida, llamadas, cartas
  <2>2. MedidaFw'
    BY <1>1, <1>2, <2>1 DEF ConMedida, MedidaFw, TiemposPosibles
  <2> QED
    BY <1>0, <1>2, <2>1, <2>2
       DEF ConMedida, MedidaSalida, MedidaEntrada, GETVacio, Fiel, linea
<1>12. CASE Repone
  <2>1. UNCHANGED <<pcm, llamada, dc, pedidas, linea, fw, medidas>>
    BY <1>12 DEF Repone, llamadas, cartas
  <2> QED
    BY <1>0, <1>2, <2>1
       DEF ConMedida, MedidaFw, MedidaSalida, MedidaEntrada, GETVacio, Fiel, linea
<1>13. CASE Conecta \/ save \/ (\E v \in Giros : CalibraCupula(v)) \/ UNCHANGED vars
  <2>1. UNCHANGED <<pcm, llamada, dc, pedidas, linea, firmware>>
    BY <1>13 DEF Conecta, conectar, save, CalibraCupula, vars, movil, llamadas, cartas
  <2> QED
    BY <1>4, <2>1
<1> QED
  BY <1>4, <1>6, <1>7, <1>8, <1>9, <1>10, <1>11, <1>12, <1>13 DEF Next, Sigue, Mundo

LEMMA LineaSiempre ==
    Spec => [](TypeOK /\ TiemposGuardados /\ Linea /\ Propias /\ SinRetraso)
<1>1. Init => TypeOK /\ TiemposGuardados /\ Linea /\ Propias /\ SinRetraso
  <2> SUFFICES ASSUME Init
               PROVE  TypeOK /\ TiemposGuardados /\ Linea /\ Propias /\ SinRetraso
    OBVIOUS
  <2>1. TypeOK /\ TiemposGuardados
    BY InicialTipo, ModoBuild, PulsosAssumption DEF Init, InitConfig, TiemposGuardados,
       Entregado, Entero, Vale, Ausente, Tiempos, Secciones
  <2>2. Tipos /\ InitMovil
    BY <2>1, MovilTipos DEF TypeOK, Init
  <2>3. Linea
    BY <2>2, LineaVacia DEF InitMovil
  <2>4. Propias
    BY <2>2 DEF InitMovil, Propias
  <2>5. Vale(Entregado).estado = 0
    BY ModoBuild DEF Vale, Entregado, Ausente
  <2>6. MedidaConfig
    BY <2>5 DEF Init, InitConfig, MedidaConfig, Calibrada
  <2>7. /\ 1 .. Len(salida) = {} /\ fw.cal = "nunca" /\ pcm = "libre"
        /\ llamada = "ninguna"
    BY <2>2 DEF InitMovil, FwNuevo
  <2>8. SinRetraso
    BY <2>6, <2>7
       DEF SinRetraso, ConMedida, MedidaFw, MedidaSalida, MedidaEntrada, GETVacio
  <2> QED
    BY <2>1, <2>3, <2>4, <2>8
<1>2. TypeOK /\ TiemposGuardados /\ Linea /\ Propias /\ SinRetraso /\ [Next]_vars
        => Linea' /\ Propias' /\ SinRetraso'
  BY LineaPaso, PropiasPaso, SinRetrasoPaso
<1> QED
  BY <1>1, <1>2, TipoSiempre, PTL DEF Spec

(* For any methods called, any answers, power cuts and restarts, and in    *)
(* both builds: as long as no answer has been taken for another, the times *)
(* that are kept, and those that the firmware gets back, were measured, or *)
(* a GET has read that the calibration had ended and no times with it.     *)
THEOREM TiemposFieles == Spec => []TiemposMedidos
<1>1. SinRetraso => TiemposMedidos
  BY DEF SinRetraso, ConMedida, MedidaConfig, MedidaFw, Calibrada, TiemposMedidos
<1> QED
  BY <1>1, LineaSiempre, PTL

(* Only getStatus can die of its own answer.                               *)
THEOREM LeerNoMataNunca == Spec => LeerNoMata
<1> DEFINE A == pcm = "espera" /\ leida' # leida /\ pcm' = "muerto" =>
                  leida' # pedidas \/ llamada = "getStatus"
<1>1. TypeOK /\ Propias /\ [Next]_vars => [A]_vars
  <2> SUFFICES ASSUME TypeOK, Propias, [Next]_vars, leida' # leida, pcm' = "muerto",
                      leida' = pedidas, llamada # "getStatus"
               PROVE  FALSE
    OBVIOUS
  <2>1. Recibe
    BY DEF Next, Sigue, NoContesta, Vence, Sondea, Llama, Pide, Cae, save,
           Conecta, conectar, CalibraCupula, Mata, Arranca, ArrancaMovil, Mundo,
           Contesta, TerminaMedida, Corta, Repone, vars, movil, cartas
  <2>2. PICK x \in Lecturas(llamada, Head(entrada).r) : Lee(x)
    BY <2>1 DEF Recibe
  <2> DEFINE b == Head(entrada).r
  <2>3. x \in Lecturas(llamada, b) /\ b \in Respuesta /\ Alcanza(llamada, b)
    BY <2>2, LeidaPropia, MovilTipos DEF TypeOK
  <2> HIDE DEF b
  <2>4. x.vive
    <3>1. CASE ~b.ok
      <4>1. x \in {[vive |-> TRUE, ok |-> FALSE, dc |-> dc]}
        BY <2>3, <3>1 DEF Lecturas
      <4> QED
        BY <4>1
    <3>2. CASE b.ok
      <4>1. Usa(llamada, b) <= b.n
        BY <2>3, <3>2 DEF Alcanza
      <4>2. x \in {[vive |-> TRUE, ok |-> TRUE,
                    dc |-> IF Consulta(llamada) THEN Rellena(b) ELSE dc]}
        BY <2>3, <3>2, <4>1 DEF Lecturas
      <4> QED
        BY <4>2
    <3> QED
      BY <3>1, <3>2
  <2>5. pcm' \in {"duerme", "libre"}
    BY <2>2, <2>4 DEF Lee, Acaba
  <2> QED
    BY <2>5
<1> QED
  BY <1>1, LineaSiempre, PTL DEF Spec, LeerNoMata
=============================================================================
