------------------------------ MODULE Trayecto ------------------------------
(***************************************************************************)
(* Where the dome is and what is left of its movement: the two inductive   *)
(* invariants of CupulaFija behind the properties of the patient client,   *)
(* PosicionFiel, CalibraCorrecto, UnaVuelta and LlegaADestino.  They are   *)
(* checked by the runs of that client and proved in EncoderProofs and      *)
(* DestinoProofs.                                                          *)
(***************************************************************************)
EXTENDS CupulaFija

(***************************************************************************)
(* What makes the counters agree with the dome: an inductive invariant.    *)
(* It takes a simulated dome of known size, slow with respect to the       *)
(* threads, and a client that waits for each movement to end, that never   *)
(* asks calibrate for an origin while the dome is moving nor for the end   *)
(* of a stop thread.                                                       *)
(***************************************************************************)
Prudente ==
    /\ Simulacion /\ Puntual /\ Paciente /\ MaxPosicionesIni = N
    /\ SinCortaRelativa
    /\ OrdenesFinalizar \cap {"todos", "stop"} = {}
    /\ \A o \in OrdenesCalibrar : o[1] \/ ~o[2]

(* The encoder thread has not counted yet the last half pulse.             *)
Atrasado == \/ enc.pc \in {"mira", "cuenta"}
            \/ enc.pc = "lee" /\ PinEncoder # enc.ant
Falta == IF Atrasado THEN Pulso ELSE 0

Cuentas ==
    /\ maxPos = N
    /\ enc.pc = "inicio" => giro = 0
    /\ enc.pc \in {"lee", "mira", "cuenta", "dah", "corriente"} => enc.dar
    /\ enc.pc \in {"dah", "corriente"} => PinEncoder = enc.ant
    /\ enc.pc \in {"mira", "cuenta"} => PinEncoder # enc.ant
    /\ enc.pc = "cuenta" => Salto = Pulso
    /\ enc.pc = "fin" => fin
    /\ posicionAbsoluta \in -1 .. N - 1
    /\ posicionAbsoluta # -1 => (posicionRelativa - posicionAbsoluta) % N = 0
    /\ enc.pc # "fin" => (posicionRelativa + Falta - Posicion) % N = 0

(* Until it has, everybody else waits and the relays stay as they are.     *)
Espectadores ==
    Atrasado =>
        /\ \A h \in Vivos : hilo[h].pc \in Espera /\ ~SePasa(h)
        /\ MainAlDia /\ sentido # "PARADO" /\ pin = Reles(sentido)

(* What calibrate has measured so far.                                     *)
EnMover == {"join", "pin1", "pin2", "fijar"}
Medicion ==
    /\ marco.sig # "calCorto" /\ pc \notin {"calCorto", "finStop", "finParada"}
    /\ pc \in {"calDah1", "calSale", "calDah2"} => sentido = "CCW"
    /\ pc \in {"calDah1", "calSale", "calDah2", "calFin", "join"} => Vivos = {}
    /\ pc = "join" => marco.sig = "calMide"
    /\ pc \in EnMover /\ marco.sig = "calDah1" => marco.sm = "CCW"
    /\ pc \in EnMover /\ marco.sig \in {"calDah1", "calMide"} => marco.tp = "manual"
    /\ pc = "lanzar" => marco.sig \notin {"calDah1", "calMide"}
    /\ pc \in {"calSale", "calDah2"} => marco.pIni % N = 0
    /\ pc = "calSale" => \/ posicionRelativa = marco.pIni
                         \/ posicionRelativa = marco.pIni - 1 /\ ~getDAH
                         \/ N = 1
    /\ pc = "calDah2" => posicionRelativa \in marco.pIni - N .. marco.pIni - 1
    /\ pc \in {"calFin", "calMide"} \/ (pc \in EnMover /\ marco.sig = "calMide") =>
          /\ posicionRelativa = marco.pFin /\ marco.pFin % N = 0
          /\ marco.pFin = marco.pIni - N

(* The counters of the encoder thread, which are static and shared with no *)
(* lock, agree with the dome at every moment, pulses in flight included,   *)
(* and so does what calibrate has measured of it.                          *)
ConteoFiel == Cuentas /\ Espectadores /\ Medicion

(* The targets a movement can reach, asked for within a turn of the place  *)
(* where the relative counter is 0.  Nobody measures the dome again, which *)
(* leaves the stop flag set.                                               *)
Alcanzable ==
    /\ Prudente /\ Margen < N /\ Plus <= N
    /\ \A o \in OrdenesCalibrar : ~o[1]
    /\ \A o \in OrdenesPosicion : /\ o[2] = "absoluta" => o[3] \in 0 .. N - 1
                                  /\ o[2] = "relativa" => o[3] \in -N .. N
    /\ \A o \in OrdenesAngulo : /\ o[2] = "absoluta" => o[3] \in -1 .. 359
                                /\ o[2] = "relativa" => o[3] \in -359 .. 359

(* What setPosicion has left for the stop thread to do.                    *)
Pedido(tp) ==
    /\ tp \in {"absoluta", "relativa", "dah", "vuelta"}
    /\ tp = "absoluta" => posicionAbsoluta # -1 /\ posicionAbsolutaFinal \in 0 .. N - 1
    /\ tp = "relativa" => posicionRelativaFinal - posicionRelativa \in -N .. N

(* Main between two orders and while it carries one out; the dome is still *)
(* in all but the first three.                                             *)
EnLaVuelta == posicionRelativa \in 1 - N .. N - 1
EnPreparacion ==
    /\ ~stop
    /\ pc \in {"libre", "finEnc", "terminado", "plus", "pin1", "pin2", "fijar", "lanzar"}
    /\ marco.sig \in {"libre", "plus"} /\ (marco.sig = "plus" => marco.tp # "manual")
    /\ pc = "plus" => EnLaVuelta
    /\ pc = "lanzar" => marco.tp # "manual"
    /\ pc \in {"pin1", "pin2", "fijar", "lanzar"} /\ marco.tp # "manual" =>
          EnLaVuelta /\ marco.ini = posicionRelativa /\ Pedido(marco.tp)

(* What is left of a movement clockwise, and counterclockwise.             *)
FaltaCW(h) ==
    CASE hilo[h].tp = "absoluta" ->
            /\ posicionAbsoluta # -1 /\ posicionAbsolutaFinal \in 0 .. N - 1
            /\ posicionRelativa >= hilo[h].ref
            /\ \/ /\ posicionAbsoluta <= posicionAbsolutaFinal
                  /\ posicionRelativa - hilo[h].ref
                       + posicionAbsolutaFinal - posicionAbsoluta <= N
               \/ /\ hilo[h].pc = "baja_sube" /\ posicionAbsoluta > posicionAbsolutaFinal
                  /\ posicionRelativa - hilo[h].ref
                       + posicionAbsolutaFinal - posicionAbsoluta <= 0
      [] hilo[h].tp = "relativa" ->
            /\ hilo[h].ref <= posicionRelativa
            /\ posicionRelativa <= posicionRelativaFinal
            /\ posicionRelativaFinal <= hilo[h].ref + N
      [] OTHER ->
            /\ posicionRelativa \in hilo[h].ref - N .. hilo[h].ref
            /\ hilo[h].tp = "dah" =>
                  getDAH \/ posicionRelativa - (hilo[h].ref - N) < (posicionRelativa % N)

FaltaCCW(h) ==
    CASE hilo[h].tp = "absoluta" ->
            /\ posicionAbsoluta # -1 /\ posicionAbsolutaFinal \in 0 .. N - 1
            /\ posicionRelativa <= hilo[h].ref
            /\ \/ /\ posicionAbsoluta >= posicionAbsolutaFinal
                  /\ hilo[h].ref - posicionRelativa
                       + posicionAbsoluta - posicionAbsolutaFinal <= N
               \/ /\ hilo[h].pc = "sube_baja" /\ posicionAbsoluta < posicionAbsolutaFinal
                  /\ hilo[h].ref - posicionRelativa
                       + posicionAbsoluta - posicionAbsolutaFinal <= 0
      [] hilo[h].tp = "relativa" ->
            /\ hilo[h].ref >= posicionRelativa
            /\ posicionRelativa >= posicionRelativaFinal
            /\ posicionRelativaFinal >= hilo[h].ref - N
      [] OTHER ->
            /\ posicionRelativa \in hilo[h].ref .. hilo[h].ref + N
            /\ hilo[h].tp = "dah" =>
                  getDAH \/ (hilo[h].ref + N - posicionRelativa) + (posicionRelativa % N) < N

EnMarcha(h) ==
    /\ hilo[h].tp \in {"absoluta", "relativa", "dah", "vuelta"}
    /\ hilo[h].pc = "arranca" => /\ hilo[h].ref = posicionRelativa
                                 /\ EnLaVuelta
                                 /\ Pedido(hilo[h].tp)
    /\ hilo[h].pc \in {"baja_sube", "sube_baja"} => hilo[h].tp = "absoluta"
    /\ hilo[h].pc \in {"sube", "baja_sube"} => sentido = "CW" /\ FaltaCW(h)
    /\ hilo[h].pc \in {"baja", "sube_baja"} => sentido = "CCW" /\ FaltaCCW(h)
    /\ hilo[h].pc \in {"para1", "para2", "para3"} => EnDestino(h)

(* A stop thread always has its target ahead, at most a turn away, and     *)
(* stops the dome there and nowhere else.                                  *)
Viaje == EnPreparacion /\ \A h \in Vivos : EnMarcha(h)

(***************************************************************************)
(* The short way is chosen from degrees, which are rounded twice: it may   *)
(* be the long one only when the two differ by less than two degrees.      *)
(* (A dome of more than 360 pulses has targets in the degree it is in,     *)
(* and goes round to those ahead of it.)                                   *)
(***************************************************************************)
Recorre(s, de, a) == (IF s = "CW" THEN a - de ELSE de - a) % N

PorLaCorta ==
    \/ \E o \in OrdenesPosicion : o[1] = "CORTA" /\ OrdenPosicion(o[1], o[2], o[3])
    \/ \E o \in OrdenesAngulo : o[1] = "CORTA" /\ OrdenAngulo(o[1], o[2], o[3])
    \/ \E v \in OrdenesDAH : OrdenDAH(v) /\ ~getDAH

(* Whoever asks for the short way sends the dome less than half a turn and *)
(* a degree (setPosicion with CORTA, setAngulo, setDAH).                   *)
CaminoCorto ==
    [][PorLaCorta /\ pc' = "pin1" /\ posicionAbsoluta # -1 =>
         360 * Recorre(marco'.sm, posicionAbsoluta, posicionAbsolutaFinal') < 181 * N]_vars
=============================================================================
