---------------------------- MODULE CupulaMovil ----------------------------
(***************************************************************************)
(* The mobile part of the dome, class CCupulaMovil: a call writes one      *)
(* request to the Bluetooth serial line and waits a minute for a line of   *)
(* answer.  Nothing in a request or an answer says which goes with which:  *)
(* an answer that comes after its call has given up stays in the buffer,   *)
(* for the next call to read.                                              *)
(*                                                                         *)
(* The firmware at the other end is known only from what the class writes  *)
(* and reads.  It loses its calibration, and whatever is on its way, when  *)
(* the dome leaves the DAH and the power goes.                             *)
(*                                                                         *)
(* calibrate is three methods here, one for each accion.  "sondeo" is      *)
(* calibrateSincrono once it polls.  setLogging, moveShutter and calibrate *)
(* refuse a parameter they do not know before they write anything; that    *)
(* refusal changes nothing and has no action.  Times are numbered by the   *)
(* measurement they come from.                                             *)
(*                                                                         *)
(* As in CupulaFija, a definition whose name says what it lacks is wrong   *)
(* on purpose.                                                             *)
(***************************************************************************)
EXTENDS Integers, Sequences

CONSTANTS
    MaxMedidas,    \* bound: calibrations of the window that the firmware takes on
    MaxSondeos,    \* bound: GETs it answers while it measures
    MaxCortes      \* bound: power cuts

ASSUME CotasMovil == {MaxMedidas, MaxSondeos, MaxCortes} \subseteq Nat

VARIABLES
    puerto,      \* p_puerto_serie; "fallido" is not null and never opened
    pcm,         \* where main is in a call, or "libre", or "muerto"
    llamada,     \* the method in hand
    dc,          \* its datosCalibrado
    pedidas,     \* requests written so far, which numbers them
    leida,       \* the request that the last answer read belongs to
    plazos,      \* calls that have timed out since the program started
    tarde,       \* an answer has been read by a call that was not its own
    sinTiempos,  \* a GET has read that the window is calibrated, and no times
    salida,      \* requests on their way to the firmware
    entrada,     \* answers on their way to the program, or in its buffer
    potencia, cortes,
    fw, medidas  \* what the firmware knows of its calibration

llamadas == <<puerto, pcm, llamada, dc>>
cartas   == <<pedidas, leida, plazos, tarde, sinTiempos>>
linea    == <<salida, entrada>>
firmware == <<potencia, cortes, fw, medidas>>
movil    == <<llamadas, cartas, linea, firmware>>

(* The times of a struct that nobody has filled.                           *)
Basura == -3
DcVacio == [fin |-> FALSE, t |-> Basura]
FwNuevo == [cal |-> "nunca", t |-> 0, sondeos |-> 0]

Metodos == {"getLuz", "setLuz", "getFirmwareVersion", "setLogging", "latido",
    "CALIBRATE", "GET", "PUT", "domeAtHome", "setEmergencyShutterTimeout",
    "moveShutter", "movimiento", "stopShutter", "getRelays", "getButtons",
    "getInputs", "getStatus", "calibrateSincrono"}

(* The message a method writes, where it has not the method's name.        *)
Mensaje_elNombre(m) == m

Mensaje(m) ==
    CASE m = "getLuz"            -> "getRelays"
      [] m = "getStatus"         -> "getInputs"
      [] m = "calibrateSincrono" -> "CALIBRATE"
      [] m = "sondeo"            -> "GET"
      [] OTHER                   -> m

(***************************************************************************)
(* Answers: whether they begin with OK, how many parameters they have, and *)
(* of the first four whether the first is NINGUNO, whether the second is 1 *)
(* and the measurement in the others.  The answer to GET carries the state *)
(* of the calibration, whether it has ended, and the times: the class (and *)
(* the test of calibrate) tells an ended one whose state is NINGUNO from   *)
(* an ended one in any other state, and only the first has times to read.  *)
(***************************************************************************)
Error == [ok |-> FALSE, n |-> 1, ninguno |-> FALSE, uno |-> FALSE, t |-> Basura]
Simple == [Error EXCEPT !.ok = TRUE]
Datos(n, uno) == [Simple EXCEPT !.n = n, !.uno = uno]
SinMedir == [Datos(2, FALSE) EXCEPT !.ninguno = TRUE]
Medida(t) == [ok |-> TRUE, n |-> 4, ninguno |-> TRUE, uno |-> TRUE, t |-> t]

RespuestasGET ==
    CASE fw.cal = "nunca"  -> {SinMedir}
      [] fw.cal = "mide"   -> {Datos(2, b) : b \in BOOLEAN}
      [] fw.cal = "medido" -> {Medida(fw.t), Datos(2, TRUE)}

Respuestas(mensaje) ==
    CASE mensaje \in {"getRelays", "movimiento"} -> {Datos(3, b) : b \in BOOLEAN}
      [] mensaje = "getButtons" -> {Datos(4, b) : b \in BOOLEAN}
      [] mensaje = "getInputs"  -> {Datos(2, b) : b \in BOOLEAN}
      [] mensaje = "GET"        -> RespuestasGET
      [] OTHER                  -> {Simple, Error}

(***************************************************************************)
(* What a method makes of an answer.  parametros(respuesta, i) with an i   *)
(* past the last one reads beyond the end of a vector: the program dies or *)
(* goes on with anything.                                                  *)
(***************************************************************************)
Consulta(m) == m \in {"GET", "sondeo"}

Usa_sinMirarFin(m, r) ==
    CASE Consulta(m)                                 -> IF r.ninguno THEN 4 ELSE 2
      [] m \in {"getRelays", "getLuz", "movimiento"} -> 3
      [] m = "getButtons"                            -> 4
      [] m = "getInputs"                             -> 2
      [] m = "getStatus"                             -> 15
      [] OTHER                                       -> 0

Usa(m, r) ==
    CASE Consulta(m)                                 -> IF r.ninguno /\ r.uno THEN 4 ELSE 2
      [] m \in {"getRelays", "getLuz", "movimiento"} -> 3
      [] m = "getButtons"                            -> 4
      [] m = "getInputs"                             -> 2
      [] m = "getStatus"                             -> 15
      [] OTHER                                       -> 0

TerminadaSinTiempos(r) == r.ok /\ r.uno /\ ~r.ninguno

Rellena(r) == [fin |-> r.uno, t |-> IF r.ninguno /\ r.uno THEN r.t ELSE dc.t]

Lecturas(m, r) ==
    CASE ~r.ok -> {[vive |-> TRUE, ok |-> FALSE, dc |-> dc]}
      [] r.ok /\ Usa(m, r) <= r.n ->
            {[vive |-> TRUE, ok |-> TRUE, dc |-> IF Consulta(m) THEN Rellena(r) ELSE dc]}
      [] OTHER ->
            [vive : BOOLEAN, ok : {TRUE}, dc : [fin : BOOLEAN, t : {dc.t}]]

(***************************************************************************)
(* Operations.                                                             *)
(***************************************************************************)

(* The end of the program, whatever it comes from, closes the line.        *)
desconectar == puerto' = "nulo" /\ salida' = <<>> /\ entrada' = <<>>
Cae == pcm' = "muerto" /\ llamada' = "ninguna" /\ dc' = DcVacio /\ desconectar

Acaba == pcm' = "libre" /\ llamada' = "ninguna" /\ dc' = DcVacio

(* If Open fails the pointer is left as it is, and is never null again.    *)
conectar ==
    /\ puerto = "nulo"
    /\ puerto' \in {"fallido"} \cup {x \in {"abierto"} : potencia}
    /\ UNCHANGED <<pcm, llamada, dc, cartas, linea, firmware>>

(* comunicar, up to ReadLine.  With no port, or one that is not open, main *)
(* dies; with nobody at the other end it may, or the message is lost.      *)
Pide(m, datos) ==
    \/ /\ puerto # "abierto" \/ ~potencia
       /\ Cae /\ UNCHANGED <<cartas, firmware>>
    \/ /\ puerto = "abierto"
       /\ pcm' = "espera" /\ llamada' = m /\ dc' = datos
       /\ pedidas' = pedidas + 1
       /\ salida' = IF potencia
                    THEN Append(salida, [de |-> pedidas', mensaje |-> Mensaje(m),
                                         t |-> datos.t])
                    ELSE salida
       /\ UNCHANGED <<puerto, entrada, leida, plazos, tarde, sinTiempos, firmware>>

(* calibrateSincrono goes on from an OK, until the calibration has ended.  *)
Sondeara_aunqueFalle(m, x) == \/ m = "calibrateSincrono"
                              \/ m = "sondeo" /\ ~x.dc.fin

Sondeara(m, x) == x.ok /\ \/ m = "calibrateSincrono"
                          \/ m = "sondeo" /\ ~x.dc.fin

(* ReadLine returns the first line there is, and the method goes on.       *)
Lee_sinBorrar(x) ==
    /\ pcm = "espera" /\ entrada # <<>>
    /\ x \in Lecturas(llamada, Head(entrada).r)
    /\ leida' = Head(entrada).de
    /\ tarde' = (tarde \/ leida' # pedidas)
    /\ sinTiempos' = (sinTiempos \/ (llamada = "GET" /\ TerminadaSinTiempos(Head(entrada).r)))
    /\ IF ~x.vive THEN Cae
       ELSE /\ IF Sondeara(llamada, x)
               THEN pcm' = "duerme" /\ llamada' = "sondeo" /\ dc' = x.dc
               ELSE Acaba
            /\ UNCHANGED <<puerto, linea>>
    /\ UNCHANGED <<pedidas, plazos, firmware>>

Lee(x) ==
    /\ pcm = "espera" /\ entrada # <<>>
    /\ x \in Lecturas(llamada, Head(entrada).r)
    /\ leida' = Head(entrada).de
    /\ tarde' = (tarde \/ leida' # pedidas)
    /\ sinTiempos' = (sinTiempos \/ (llamada = "GET" /\ TerminadaSinTiempos(Head(entrada).r)))
    /\ IF ~x.vive THEN Cae
       ELSE /\ IF Sondeara(llamada, x)
               THEN pcm' = "duerme" /\ llamada' = "sondeo" /\ dc' = x.dc
               ELSE Acaba
            /\ entrada' = Tail(entrada)
            /\ UNCHANGED <<puerto, salida>>
    /\ UNCHANGED <<pedidas, plazos, firmware>>

(* ReadTimeout: every method reports it, and what comes later comes later. *)
Vence ==
    /\ pcm = "espera" /\ entrada = <<>>
    /\ Acaba
    /\ plazos' = plazos + 1
    /\ UNCHANGED <<puerto, pedidas, leida, tarde, sinTiempos, linea, firmware>>

(***************************************************************************)
(* The firmware and its power.                                             *)
(***************************************************************************)
Obedece(p) ==
    CASE p.mensaje = "CALIBRATE" -> [cal |-> "mide", t |-> 0, sondeos |-> 0]
      [] p.mensaje = "PUT"       -> [cal |-> "medido", t |-> p.t, sondeos |-> 0]
      [] p.mensaje = "GET" /\ fw.cal = "mide" -> [fw EXCEPT !.sondeos = @ + 1]
      [] OTHER                   -> fw

Contesta ==
    /\ potencia /\ salida # <<>>
    /\ LET p == Head(salida)
       IN  /\ p.mensaje = "GET" /\ fw.cal = "mide" => fw.sondeos < MaxSondeos
           /\ \E r \in Respuestas(p.mensaje) :
                 /\ p.mensaje = "CALIBRATE" /\ r.ok => medidas < MaxMedidas
                 /\ entrada' = Append(entrada, [de |-> p.de, r |-> r])
                 /\ fw' = IF r.ok THEN Obedece(p) ELSE fw
                 /\ medidas' = IF p.mensaje = "CALIBRATE" /\ r.ok
                               THEN medidas + 1 ELSE medidas
    /\ salida' = Tail(salida)
    /\ UNCHANGED <<llamadas, cartas, potencia, cortes>>

TerminaMedida ==
    /\ potencia /\ fw.cal = "mide"
    /\ fw' = [cal |-> "medido", t |-> medidas, sondeos |-> 0]
    /\ UNCHANGED <<llamadas, cartas, linea, potencia, cortes, medidas>>

Corta ==
    /\ potencia /\ potencia' = FALSE
    /\ cortes < MaxCortes /\ cortes' = cortes + 1
    /\ fw' = FwNuevo
    /\ salida' = <<>>
    /\ \E n \in 0 .. Len(entrada) : entrada' = SubSeq(entrada, 1, n)
    /\ UNCHANGED <<llamadas, cartas, medidas>>

Repone ==
    /\ ~potencia /\ potencia' = TRUE
    /\ UNCHANGED <<llamadas, cartas, linea, cortes, fw, medidas>>

InitMovil ==
    /\ puerto = "nulo" /\ pcm = "libre" /\ llamada = "ninguna" /\ dc = DcVacio
    /\ pedidas = 0 /\ leida = 0 /\ plazos = 0
    /\ tarde = FALSE /\ sinTiempos = FALSE
    /\ salida = <<>> /\ entrada = <<>>
    /\ potencia \in BOOLEAN /\ cortes = 0
    /\ fw = FwNuevo /\ medidas = 0

Tiempos == {Basura} \cup Nat
TypeMovil ==
    /\ puerto \in {"nulo", "abierto", "fallido"}
    /\ pcm \in {"libre", "espera", "duerme", "muerto"}
    /\ llamada \in Metodos \cup {"sondeo", "ninguna"}
    /\ dc \in [fin : BOOLEAN, t : Tiempos]
    /\ {pedidas, leida, plazos, cortes, medidas} \subseteq Nat
    /\ {tarde, sinTiempos, potencia} \subseteq BOOLEAN
    /\ salida \in Seq([de : Nat, t : Tiempos,
                       mensaje : Metodos \ {"getLuz", "getStatus", "calibrateSincrono"}])
    /\ entrada \in Seq([de : Nat, r : [ok : BOOLEAN, n : 1 .. 4, ninguno : BOOLEAN,
                                       uno : BOOLEAN, t : Tiempos]])
    /\ fw \in [cal : {"nunca", "mide", "medido"}, t : Tiempos, sondeos : Nat]
=============================================================================
