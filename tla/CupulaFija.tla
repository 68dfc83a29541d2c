----------------------------- MODULE CupulaFija -----------------------------
(***************************************************************************)
(* The fixed part of the dome, class CCupulaFijo: the thread that carries  *)
(* out the orders (main), the encoder thread, one stop thread per          *)
(* monitored movement, the two motor relays and the dome itself, which is  *)
(* either the simulator thread or the real motor.  The threads share the   *)
(* static variables of the class with no lock of any kind.                 *)
(*                                                                         *)
(* Identifiers are the source's.  A relay pin is TRUE (high) at rest and   *)
(* FALSE (low) while its motor runs.                                       *)
(*                                                                         *)
(* A definition whose name ends in what it lacks or does wrong, as in      *)
(* Rechaza_sinMirarSentido, is the one after it with a slip in it.  It is  *)
(* part of no behaviour: PROJECT.json pairs it with the property that      *)
(* fails when it takes the place of the right one.                         *)
(***************************************************************************)
EXTENDS Geometria

CONSTANTS
    Simulacion,       \* general_simulacion == 1
    N,                \* pulses in one turn (cupula_max_posiciones_simulacion)
    MaxPosicionesIni, \* cupula_max_posiciones when the program starts
    AnchoDAH,         \* half pulses over which the real DAH sensor is low
    Plus,             \* the 20 positions setDAH(false) goes past the DAH
    Hilos,            \* slots for stop threads
    Ninguno,          \* pStop == nullptr
    MaxFallos,        \* bound: gpio_write calls that fail
    Recorrido,        \* bound: the dome turns while the counter is within it
    Margen,           \* bound: orders to move are given within it
    Puntual,          \* the dome is slow with respect to the threads
    Paciente,         \* an order is given only once the dome has stopped
    OrdenesMover, OrdenesPosicion, OrdenesAngulo,
    OrdenesDAH, OrdenesCalibrar, OrdenesFinalizar

ASSUME ModoAssumption == {Simulacion, Puntual, Paciente} \subseteq BOOLEAN
ASSUME NAssumption == N \in Nat \ {0} /\ MaxPosicionesIni \in Nat \cup {-1}
ASSUME CotasAssumption == {AnchoDAH, Plus, MaxFallos, Recorrido, Margen} \subseteq Nat
ASSUME HilosAssumption == Ninguno \notin Hilos
ASSUME OrdenesAssumption ==
    /\ OrdenesMover \subseteq {"PARADO", "CW", "CCW"}
    /\ OrdenesPosicion \subseteq sentidoMovimiento \X tipoPosicion \X Int
    /\ OrdenesAngulo \subseteq
         {"CW", "CCW", "CORTA"} \X tipoPosicion \X Int
    /\ OrdenesDAH \subseteq BOOLEAN
    /\ OrdenesCalibrar \subseteq BOOLEAN \X BOOLEAN
    /\ OrdenesFinalizar \subseteq
         {"todos", "encoder", "encoderSimulator", "stop"}

VARIABLES
    sentido,              \* CCupulaFijo::sentido
    pin,                  \* mapaPines of the two relays
    linea,                \* the electrical state of the two relays
    tension,              \* that of the relay that powers the mobile part
    fallos,               \* gpio_write calls that have failed
    stop, fin,            \* mapaPines[97] and mapaPines[99]
    posicionAbsoluta, posicionRelativa,
    posicionAbsolutaFinal, posicionRelativaFinal,
    maxPos,               \* CConfig::cupula_max_posiciones
    estadoCalibrado,
    corriente,            \* the mobile part is powered, says mapaPines
    enc,                  \* the encoder thread and its locals
    hilo, pStop,          \* the stop threads, and the one pStop points to
    pc, marco,            \* where main is, and the locals of its calls
    giro                  \* the dome, in half pulses, modulo one turn

orden   == <<pc, marco>>
mando   == <<sentido, pin, linea, tension, fallos>>
fines   == <<posicionAbsolutaFinal, posicionRelativaFinal>>
cuenta  == <<posicionAbsoluta, posicionRelativa>>
calib   == <<maxPos, estadoCalibrado>>
paradas == <<hilo, pStop>>
vars    == <<orden, mando, fines, cuenta, calib, paradas,
             stop, fin, corriente, enc, giro>>

Pines == {"cw", "ccw"}
EnReposo == [p \in Pines |-> TRUE]
MarcoNulo == [sm |-> "PARADO", tp |-> "manual", ini |-> 0, sig |-> "libre",
              pIni |-> 0, pFin |-> 0]
HiloNulo == [pc |-> "fin", tp |-> "manual", ref |-> 0]

Vivos == {h \in Hilos : hilo[h].pc # "fin"}

(***************************************************************************)
(* The dome.  The encoder pin is high on even half pulses; the edge the    *)
(* encoder thread counts, in both directions, is the one between 2k and    *)
(* 2k+1.  The simulated DAH is computed from the counters, the real one is *)
(* a switch on the dome.                                                   *)
(***************************************************************************)
PinEncoder == giro % 2 = 0

getDAH ==
    \/ ~Simulacion /\ giro < AnchoDAH
    \/ Simulacion /\ posicionAbsoluta = -1 /\ posicionRelativa % N = 0
    \/ Simulacion /\ posicionAbsoluta = 0

(***************************************************************************)
(* setPosicion(sm, tp, posicion), called by main, which goes on at sig.    *)
(***************************************************************************)
Rechaza_sinMirarSentido(sm, tp) ==
    \/ sm = "PARADO"
    \/ posicionAbsoluta = -1 /\ tp \in {"absoluta", "vuelta"}
    \/ sm = "CORTA" /\ tp \in {"manual", "vuelta"}

Rechaza(sm, tp) ==
    \/ sm = "PARADO"
    \/ sentido # "PARADO"
    \/ posicionAbsoluta = -1 /\ tp \in {"absoluta", "vuelta"}
    \/ sm = "CORTA" /\ tp \in {"manual", "vuelta"}

(* With no calibration a relative movement can only take the short way.    *)
SentidoFinal(sm, tp, posicion) ==
    CASE tp = "relativa" /\ maxPos = -1 /\ sm = "CW" /\ posicion < 0  -> "CCW"
      [] tp = "relativa" /\ maxPos = -1 /\ sm = "CCW" /\ posicion > 0 -> "CW"
      [] tp \in {"absoluta", "dah"} /\ sm = "CORTA" ->
            sentidoMasCorto(posicion, maxPos, posicionAbsoluta)
      [] OTHER -> sm

Acepta(sm, tp, posicion, sig) ==
    LET s == SentidoFinal(sm, tp, posicion) IN
    /\ posicionRelativaFinal' = IF tp = "relativa"
                                THEN posicionRelativa + posicion
                                ELSE posicionRelativaFinal
    /\ posicionAbsolutaFinal' =
           CASE tp = "relativa" -> posicionAbsolutaFinal
             [] tp = "absoluta" -> posicion
             [] tp = "dah"      -> 0
             [] OTHER           -> posicionAbsoluta
    /\ marco' = [marco EXCEPT !.sm = s, !.tp = tp, !.sig = sig,
                              !.ini = posicionRelativa]
       \* mover(CORTA) returns at once, yet the stop thread is created
    /\ pc' = IF s = "CORTA" THEN "lanzar" ELSE "pin1"

(* A complete calibration leaves maxPos at 0 when there is no encoder      *)
(* thread to count for it.  A division by it kills the program or, on a    *)
(* processor that does not trap it, gives 0 (DivC).                        *)
DivideEntreCero == maxPos = 0 /\ pc' = "muerto" /\ UNCHANGED <<marco, fines>>

setPosicion(sm, tp, posicion, sig) ==
    \/ /\ Rechaza(sm, tp)
       /\ pc' = sig
       /\ marco' = IF sig = "libre" THEN MarcoNulo ELSE marco
       /\ UNCHANGED fines
    \/ /\ ~Rechaza(sm, tp)
       /\ \/ Acepta(sm, tp, posicion, sig)
          \/ sm = "CORTA" /\ tp \in {"absoluta", "dah"} /\ DivideEntreCero

(* The first setPosicion of setDAH(TRUE), and of setDAH(FALSE) off the DAH. *)
VeADAH(sig) ==
    setPosicion(IF posicionAbsoluta = -1 THEN "CW" ELSE "CORTA", "dah", 0, sig)

setDAH(valor, sig) ==
    CASE valor /\ getDAH   -> /\ pc' = sig
                              /\ marco' = IF sig = "libre" THEN MarcoNulo
                                                           ELSE marco
                              /\ UNCHANGED fines
      [] valor /\ ~getDAH  -> VeADAH(sig)
      [] ~valor /\ getDAH  -> setPosicion("CW", "relativa", Plus, sig)
      [] ~valor /\ ~getDAH -> VeADAH(IF sig = "libre" THEN "plus" ELSE "plusCal")

(***************************************************************************)
(* mover(sm): a movement in progress is stopped and its thread joined,     *)
(* then one relay is released and the other engaged, then sentido is set.  *)
(***************************************************************************)
mover(sm, sig) ==
    /\ marco' = [marco EXCEPT !.sm = sm, !.tp = "manual", !.sig = sig]
    /\ IF sentido = "PARADO"
       THEN pc' = "pin1" /\ UNCHANGED stop
       ELSE pc' = "join" /\ stop' = TRUE

(* The two writes of mover.  The simulated and the real branch engage      *)
(* opposite relays for the same sentidoMovimiento.                         *)
Activa(sm) ==
    CASE sm = "PARADO" -> "ninguno"
      [] sm = "CW"     -> IF Simulacion THEN "cw" ELSE "ccw"
      [] sm = "CCW"    -> IF Simulacion THEN "ccw" ELSE "cw"

Suelta_siempreCW(sm) == "cw"
Suelta(sm) == IF Activa(sm) = "cw" THEN "ccw" ELSE "cw"
Otro(p) == IF p = "cw" THEN "ccw" ELSE "cw"
Reles(sm) == [p \in Pines |-> p # Activa(sm)]

(* A write to a relay; a failing gpio_write is logged and forgotten.       *)
Escribe(p, v) ==
    /\ pin' = [pin EXCEPT ![p] = v]
    /\ \/ linea' = [linea EXCEPT ![p] = v] /\ UNCHANGED fallos
       \/ /\ ~Simulacion /\ fallos < MaxFallos
          /\ fallos' = fallos + 1 /\ UNCHANGED linea

Join_sinEsperar ==
    /\ pc = "join"
    /\ pStop' = Ninguno
    /\ sentido' = "PARADO"
    /\ pc' = "pin1"
    /\ UNCHANGED <<marco, pin, linea, tension, fallos, fines, cuenta, calib, hilo,
                   stop, fin, corriente, enc, giro>>

Join ==
    /\ pc = "join"
    /\ pStop # Ninguno => hilo[pStop].pc = "fin"
    /\ pStop' = Ninguno
    /\ sentido' = "PARADO"
    /\ pc' = "pin1"
    /\ UNCHANGED <<marco, pin, linea, tension, fallos, fines, cuenta, calib, hilo,
                   stop, fin, corriente, enc, giro>>

Pin1_activaAntes ==
    /\ pc = "pin1"
    /\ Escribe(Otro(Suelta(marco.sm)), marco.sm = "PARADO")
    /\ pc' = "pin2"
    /\ UNCHANGED <<marco, sentido, tension, fines, cuenta, calib, paradas,
                   stop, fin, corriente, enc, giro>>

Pin1 ==
    /\ pc = "pin1"
    /\ Escribe(Suelta(marco.sm), TRUE)
    /\ pc' = "pin2"
    /\ UNCHANGED <<marco, sentido, tension, fines, cuenta, calib, paradas,
                   stop, fin, corriente, enc, giro>>

Pin2 ==
    /\ pc = "pin2"
    /\ Escribe(Otro(Suelta(marco.sm)), marco.sm = "PARADO")
    /\ pc' = "fijar"
    /\ UNCHANGED <<marco, sentido, tension, fines, cuenta, calib, paradas,
                   stop, fin, corriente, enc, giro>>

Fijar_elPin ==
    /\ pc = "fijar"
    /\ sentido' = Activa(marco.sm)
    /\ pc' = IF marco.tp = "manual" THEN marco.sig ELSE "lanzar"
    /\ marco' = IF pc' = "libre" THEN MarcoNulo ELSE marco
    /\ UNCHANGED <<pin, linea, tension, fallos, fines, cuenta, calib, paradas,
                   stop, fin, corriente, enc, giro>>

Fijar ==
    /\ pc = "fijar"
    /\ sentido' = marco.sm
    /\ pc' = IF marco.tp = "manual" THEN marco.sig ELSE "lanzar"
    /\ marco' = IF pc' = "libre" THEN MarcoNulo ELSE marco
    /\ UNCHANGED <<pin, linea, tension, fallos, fines, cuenta, calib, paradas,
                   stop, fin, corriente, enc, giro>>

(* The end of setPosicion; the thread pStop pointed to is not joined.      *)
Lanzar ==
    /\ pc = "lanzar"
    /\ \E h \in Hilos \ Vivos :
          /\ hilo' = [hilo EXCEPT ![h] = [pc |-> "arranca", tp |-> marco.tp,
                                          ref |-> marco.ini]]
          /\ pStop' = h
    /\ pc' = marco.sig
    /\ marco' = IF pc' = "libre" THEN MarcoNulo ELSE marco
    /\ UNCHANGED <<mando, fines, cuenta, calib, stop, fin, corriente, enc, giro>>

(* setDAH(FALSE), second setPosicion: refused if the first one set off.    *)
DespuesDeDAH ==
    /\ pc \in {"plus", "plusCal"}
    /\ setPosicion("CW", "relativa", Plus,
                   IF pc = "plus" THEN "libre" ELSE "calArranque")
    /\ UNCHANGED <<mando, cuenta, calib, paradas, stop, fin, corriente, enc, giro>>

(***************************************************************************)
(* The orders main receives while it is idle, one at a time.               *)
(***************************************************************************)
Libre == pc = "libre" /\ (Paciente => sentido = "PARADO")
Cabe == abs(posicionRelativa) <= Margen

OrdenMover(sm) ==
    /\ Libre
    /\ mover(sm, "libre")
    /\ UNCHANGED <<mando, fines, cuenta, calib, paradas, fin, corriente, enc, giro>>

OrdenPosicion(sm, tp, posicion) ==
    /\ Libre
    /\ setPosicion(sm, tp, posicion, "libre")
    /\ UNCHANGED <<mando, cuenta, calib, paradas, stop, fin, corriente, enc, giro>>

OrdenAngulo(sm, tp, angulo) ==
    /\ Libre
    /\ \/ setPosicion(sm, tp, PosicionPedida(tp, angulo, maxPos, posicionAbsoluta),
                      "libre")
       \/ tp = "relativa" /\ DivideEntreCero
    /\ UNCHANGED <<mando, cuenta, calib, paradas, stop, fin, corriente, enc, giro>>

OrdenDAH(valor) ==
    /\ Libre
    /\ setDAH(valor, "libre")
    /\ UNCHANGED <<mando, cuenta, calib, paradas, stop, fin, corriente, enc, giro>>

(***************************************************************************)
(* calibrate.  A dome whose size is known and that is not to be measured   *)
(* again is only given an origin; otherwise one whole turn is measured.    *)
(***************************************************************************)
PonOrigen ==
    /\ posicionRelativa' = 0
    /\ posicionAbsoluta' = 0
    /\ estadoCalibrado' = "CALIBRADO"

OrdenCalibrar(recalibrar, moverAdah) ==
    /\ Libre
    /\ IF maxPos > -1 /\ ~recalibrar
       THEN IF moverAdah
            THEN setDAH(TRUE, "calCorto") /\ UNCHANGED <<cuenta, estadoCalibrado>>
            ELSE /\ IF getDAH THEN PonOrigen
                              ELSE UNCHANGED <<cuenta, estadoCalibrado>>
                 /\ UNCHANGED <<orden, fines>>
       ELSE /\ estadoCalibrado' = "MOVIENDO_A_DAH_PLUS"
            /\ setDAH(FALSE, "calArranque")
            /\ UNCHANGED cuenta
    /\ UNCHANGED <<mando, maxPos, paradas, stop, fin, corriente, enc, giro>>

(* The origin is set when setDAH returns, the dome still on its way.       *)
CalCorto ==
    /\ pc = "calCorto"
    /\ PonOrigen
    /\ pc' = "libre" /\ marco' = MarcoNulo
    /\ UNCHANGED <<mando, fines, maxPos, paradas, stop, fin, corriente, enc, giro>>

CalArranque ==
    /\ pc = "calArranque" /\ sentido # "PARADO"
    /\ pc' = "calParada"
    /\ UNCHANGED <<marco, mando, fines, cuenta, calib, paradas,
                   stop, fin, corriente, enc, giro>>

CalParada ==
    /\ pc = "calParada" /\ sentido = "PARADO"
    /\ estadoCalibrado' = "MOVIENDO_A_DAH"
    /\ setPosicion("CCW", "manual", 0, "calDah1")
    /\ UNCHANGED <<mando, cuenta, maxPos, paradas, stop, fin, corriente, enc, giro>>

CalDah1 ==
    /\ pc = "calDah1" /\ getDAH
    /\ marco' = [marco EXCEPT !.pIni = posicionRelativa]
    /\ pc' = "calSale"
    /\ UNCHANGED <<mando, fines, cuenta, calib, paradas,
                   stop, fin, corriente, enc, giro>>

CalSale_sinEsperar ==
    /\ pc = "calSale"
    /\ pc' = "calDah2"
    /\ UNCHANGED <<marco, mando, fines, cuenta, calib, paradas,
                   stop, fin, corriente, enc, giro>>

CalSale ==
    /\ pc = "calSale" /\ ~getDAH
    /\ pc' = "calDah2"
    /\ UNCHANGED <<marco, mando, fines, cuenta, calib, paradas,
                   stop, fin, corriente, enc, giro>>

CalDah2 ==
    /\ pc = "calDah2" /\ getDAH
    /\ marco' = [marco EXCEPT !.pFin = posicionRelativa]
    /\ pc' = "calFin"
    /\ UNCHANGED <<mando, fines, cuenta, calib, paradas,
                   stop, fin, corriente, enc, giro>>

CalFin ==
    /\ pc = "calFin"
    /\ mover("PARADO", "calMide")
    /\ UNCHANGED <<mando, fines, cuenta, calib, paradas, fin, corriente, enc, giro>>

CalMide ==
    /\ pc = "calMide"
    /\ LET inercia == abs(posicionRelativa - marco.pFin)
       IN  /\ posicionRelativa' = -inercia
           /\ maxPos' = abs(marco.pFin - marco.pIni)
           /\ posicionAbsoluta' = IF inercia > 0 THEN maxPos' - inercia ELSE 0
    /\ estadoCalibrado' = "CALIBRADO"
    /\ pc' = "libre" /\ marco' = MarcoNulo
    /\ UNCHANGED <<mando, fines, paradas, stop, fin, corriente, enc, giro>>

(***************************************************************************)
(* finalizarThreads, and the destructor, which is finalizarThreads(todos). *)
(***************************************************************************)
OrdenFinalizar(valor) ==
    /\ pc = "libre"
    /\ CASE valor = "todos"   -> pc' = "finStop" /\ stop' = TRUE /\ fin' = TRUE
         [] valor = "stop"    -> pc' = "finParada" /\ stop' = TRUE /\ UNCHANGED fin
         \* the flag set is mapaPines[98], which no thread reads
         [] valor = "encoder" -> pc' = "finEnc" /\ UNCHANGED <<stop, fin>>
         [] OTHER             -> pc' = "libre" /\ fin' = TRUE /\ UNCHANGED stop
    /\ UNCHANGED <<marco, mando, fines, cuenta, calib, paradas,
                   corriente, enc, giro>>

FinStop ==
    /\ pc \in {"finStop", "finParada"}
    /\ pStop # Ninguno => hilo[pStop].pc = "fin"
    /\ pStop' = Ninguno
    /\ pc' = IF pc = "finStop" THEN "finEnc" ELSE "libre"
    /\ UNCHANGED <<marco, mando, fines, cuenta, calib, hilo,
                   stop, fin, corriente, enc, giro>>

FinEnc ==
    /\ pc = "finEnc" /\ enc.pc = "fin"
    /\ pc' = "terminado"
    /\ UNCHANGED <<marco, mando, fines, cuenta, calib, paradas,
                   stop, fin, corriente, enc, giro>>

(***************************************************************************)
(* runStop, the body of a stop thread.  What it waits for is in its pc:    *)
(* "sube" and "baja" until the counter is not below, not above the target, *)
(* "baja_sube" and "sube_baja" both, one after the other.                  *)
(***************************************************************************)
Espera == {"sube", "baja", "baja_sube", "sube_baja"}

FinalAjustado_otraVuelta(s) ==
    LET mas == (DivC(posicionRelativa, maxPos) + 2) * maxPos
    IN  CASE maxPos = -1 -> posicionRelativaFinal
          [] s = "CW" /\ posicionRelativa > posicionRelativaFinal ->
                posicionRelativaFinal + mas
          [] s # "CW" /\ posicionRelativa < posicionRelativaFinal ->
                posicionRelativaFinal - mas
          [] OTHER -> posicionRelativaFinal

(* A relative target behind the dome is moved on by whole turns.           *)
FinalAjustado(s) ==
    LET atras == IF s = "CW" THEN posicionRelativa > posicionRelativaFinal
                             ELSE posicionRelativa < posicionRelativaFinal
        mas   == (DivC(posicionRelativa, maxPos) + 1) * maxPos
    IN  CASE ~atras                 -> posicionRelativaFinal
          [] atras /\ maxPos = -1   -> posicionRelativa
          [] OTHER -> IF s = "CW" THEN posicionRelativaFinal + mas
                                  ELSE posicionRelativaFinal - mas

Camino(tp, s) ==
    IF s = "CW"
    THEN IF tp = "absoluta" /\ posicionAbsolutaFinal <= posicionAbsoluta
         THEN "baja_sube" ELSE "sube"
    ELSE IF tp = "absoluta" /\ posicionAbsolutaFinal >= posicionAbsoluta
         THEN "sube_baja" ELSE "baja"

Arranca(h) ==
    /\ hilo[h].pc = "arranca"
    /\ LET tp == hilo[h].tp
           tope == CASE tp \in {"absoluta", "relativa"} -> hilo[h].ref
                     [] OTHER ->
                          IF sentido = "CW" THEN hilo[h].ref + maxPos
                                            ELSE hilo[h].ref - maxPos
       IN /\ hilo' = [hilo EXCEPT ![h] = [pc |-> Camino(tp, sentido), tp |-> tp,
                                          ref |-> tope]]
          /\ posicionRelativaFinal' = IF tp = "relativa"
                                      THEN FinalAjustado(sentido)
                                      ELSE posicionRelativaFinal
    /\ UNCHANGED <<orden, mando, posicionAbsolutaFinal, cuenta, calib, pStop,
                   stop, fin, corriente, enc, giro>>

(* To move it on it divides by maxPos, in a thread of its own.             *)
Divide(h) ==
    /\ pc # "muerto" /\ hilo[h].pc = "arranca" /\ hilo[h].tp = "relativa"
    /\ IF sentido = "CW" THEN posicionRelativa > posicionRelativaFinal
                         ELSE posicionRelativa < posicionRelativaFinal
    /\ DivideEntreCero
    /\ UNCHANGED <<mando, cuenta, calib, paradas, stop, fin, corriente, enc, giro>>

(* The counter a thread watches and the value it waits for.                *)
Cuenta(tp) == IF tp = "absoluta" THEN posicionAbsoluta ELSE posicionRelativa
Meta(h) ==
    CASE hilo[h].tp = "absoluta" -> posicionAbsolutaFinal
      [] hilo[h].tp = "relativa" -> posicionRelativaFinal
      [] OTHER                   -> hilo[h].ref

SePasa_unaDeMas(h) ==
    \/ stop
    \/ hilo[h].tp = "dah" /\ getDAH
    \/ hilo[h].pc \in {"sube", "sube_baja"} /\ Cuenta(hilo[h].tp) > Meta(h)
    \/ hilo[h].pc \in {"baja", "baja_sube"} /\ Cuenta(hilo[h].tp) < Meta(h)

SePasa_sinStop(h) ==
    \/ hilo[h].tp = "dah" /\ getDAH
    \/ hilo[h].pc \in {"sube", "sube_baja"} /\ Cuenta(hilo[h].tp) >= Meta(h)
    \/ hilo[h].pc \in {"baja", "baja_sube"} /\ Cuenta(hilo[h].tp) <= Meta(h)

SePasa(h) ==
    \/ stop
    \/ hilo[h].tp = "dah" /\ getDAH
    \/ hilo[h].pc \in {"sube", "sube_baja"} /\ Cuenta(hilo[h].tp) >= Meta(h)
    \/ hilo[h].pc \in {"baja", "baja_sube"} /\ Cuenta(hilo[h].tp) <= Meta(h)

Vigila(h) ==
    /\ hilo[h].pc \in Espera
    /\ SePasa(h)
    /\ hilo' = [hilo EXCEPT ![h].pc = CASE hilo[h].pc = "baja_sube" -> "sube"
                                        [] hilo[h].pc = "sube_baja" -> "baja"
                                        [] OTHER                    -> "para1"]
    /\ UNCHANGED <<orden, mando, fines, cuenta, calib, pStop,
                   stop, fin, corriente, enc, giro>>

(* pararMovimiento, whose last write is sentido.                           *)
Para(h, de, p, a) ==
    /\ hilo[h].pc = de
    /\ Escribe(p, TRUE)
    /\ hilo' = [hilo EXCEPT ![h].pc = a]
    /\ UNCHANGED <<orden, sentido, tension, fines, cuenta, calib, pStop,
                   stop, fin, corriente, enc, giro>>

Para1(h) == Para(h, "para1", "cw", "para2")
Para2_elMismoRele(h) == Para(h, "para2", "cw", "para3")
Para2(h) == Para(h, "para2", "ccw", "para3")

Para3_sinSentido(h) ==
    /\ hilo[h].pc = "para3"
    /\ hilo' = [hilo EXCEPT ![h] = HiloNulo]
    /\ UNCHANGED <<orden, mando, fines, cuenta, calib, pStop,
                   stop, fin, corriente, enc, giro>>

Para3(h) ==
    /\ hilo[h].pc = "para3"
    /\ sentido' = "PARADO"
    /\ hilo' = [hilo EXCEPT ![h] = HiloNulo]
    /\ UNCHANGED <<orden, pin, linea, tension, fallos, fines, cuenta, calib, pStop,
                   stop, fin, corriente, enc, giro>>

(***************************************************************************)
(* runEncoder.  Whether absolute positions are counted is decided once,    *)
(* when the thread starts.  An iteration in which nothing changes is left  *)
(* out; the pin is read before the relays are looked at.                   *)
(***************************************************************************)
EncInicio ==
    /\ enc.pc = "inicio"
    /\ enc' = [pc |-> "lee", ant |-> PinEncoder, dar |-> maxPos >= 0 /\ getDAH]
    /\ UNCHANGED <<orden, mando, fines, cuenta, calib, paradas,
                   stop, fin, corriente, giro>>

EncLee ==
    /\ enc.pc = "lee" /\ ~fin
    /\ PinEncoder # enc.ant
    /\ enc' = [enc EXCEPT !.pc = "mira"]
    /\ UNCHANGED <<orden, mando, fines, cuenta, calib, paradas,
                   stop, fin, corriente, giro>>

Pulso_sinReles == IF enc.ant THEN 1 ELSE -1

(* A falling edge counts up under CW, a rising one down under CCW.         *)
Pulso ==
    CASE ~pin["cw"] /\ pin["ccw"] /\ enc.ant  -> 1
      [] pin["cw"] /\ ~pin["ccw"] /\ ~enc.ant -> -1
      [] OTHER                                -> 0

(* The look at the relays, after which they may be written again.  (It is  *)
(* up to four reads of two relays that are never both engaged nor change   *)
(* places in one write: what the four make out is what one look at both,   *)
(* at some moment between the first and the last, would have seen.)        *)
EncMira ==
    /\ enc.pc = "mira"
    /\ enc' = IF Pulso = 0 THEN [enc EXCEPT !.pc = "dah", !.ant = ~@]
                           ELSE [enc EXCEPT !.pc = "cuenta"]
    /\ UNCHANGED <<orden, mando, fines, cuenta, calib, paradas,
                   stop, fin, corriente, giro>>

(* Under CW only falling edges are counted, and rising ones under CCW.     *)
Salto == IF enc.ant THEN 1 ELSE -1

EncCuenta ==
    /\ enc.pc = "cuenta"
    /\ posicionRelativa' = posicionRelativa + Salto
    /\ posicionAbsoluta' = IF enc.dar
                           THEN operarPosicionAbsoluta(posicionAbsoluta, Salto, maxPos)
                           ELSE posicionAbsoluta
    /\ enc' = [enc EXCEPT !.pc = "dah", !.ant = ~@]
    /\ UNCHANGED <<orden, mando, fines, calib, paradas, stop, fin, corriente, giro>>

EncDah_nuncaCorta ==
    /\ \/ enc.pc = "dah"
       \/ enc.pc = "lee" /\ ~fin /\ PinEncoder = enc.ant /\ corriente # getDAH
    /\ enc' = [enc EXCEPT !.pc = IF getDAH => corriente THEN "lee" ELSE "corriente"]
    /\ UNCHANGED <<orden, mando, fines, cuenta, calib, paradas,
                   stop, fin, corriente, giro>>

(* Once per iteration the DAH is looked at, and setCorrienteCupulaMovil    *)
(* returns at once if mapaPines says already what it should.               *)
EncDah ==
    /\ \/ enc.pc = "dah"
       \/ enc.pc = "lee" /\ ~fin /\ PinEncoder = enc.ant /\ corriente # getDAH
    /\ enc' = [enc EXCEPT !.pc = IF corriente = getDAH THEN "lee" ELSE "corriente"]
    /\ UNCHANGED <<orden, mando, fines, cuenta, calib, paradas,
                   stop, fin, corriente, giro>>

(* Otherwise it corrects mapaPines and writes the relay.  A write that     *)
(* fails is not noticed, and not tried again while mapaPines agrees.       *)
EncCorriente ==
    /\ enc.pc = "corriente"
    /\ corriente' = ~corriente
    /\ \/ tension' = corriente' /\ UNCHANGED fallos
       \/ /\ ~Simulacion /\ fallos < MaxFallos
          /\ fallos' = fallos + 1 /\ UNCHANGED tension
    /\ enc' = [enc EXCEPT !.pc = "lee"]
    /\ UNCHANGED <<orden, sentido, pin, linea, fines, cuenta, calib, paradas,
                   stop, fin, giro>>

EncFin ==
    /\ enc.pc = "lee" /\ fin
    /\ enc' = [enc EXCEPT !.pc = "fin"]
    /\ UNCHANGED <<orden, mando, fines, cuenta, calib, paradas,
                   stop, fin, corriente, giro>>

(***************************************************************************)
(* The dome turns half a pulse: runEncoderSimulator, which obeys mapaPines *)
(* until it is told to end, or the motors, which obey the relays.  With    *)
(* Puntual it does so only when every thread has caught up with it: in the *)
(* configuration half a pulse lasts ten encoder readings.                  *)
(***************************************************************************)
MainAlDia ==
    \/ pc \in {"libre", "terminado"}
    \/ pc = "calArranque" /\ sentido = "PARADO"
    \/ pc = "calParada" /\ sentido # "PARADO"
    \/ pc \in {"calDah1", "calDah2"} /\ ~getDAH
    \/ pc = "calSale" /\ getDAH
    \/ pc \in {"join", "finStop", "finParada"} /\ pStop \in Vivos
    \/ pc = "finEnc" /\ enc.pc # "fin"

AlDia ==
    \/ pc = "muerto"
    \/ /\ enc.pc = "fin" \/ (enc.pc = "lee" /\ ~fin /\ PinEncoder = enc.ant)
       /\ \A h \in Vivos : hilo[h].pc \in Espera /\ ~SePasa(h)
       /\ MainAlDia

(* What makes the dome turn, and which way.                                *)
Motor == IF Simulacion THEN pin ELSE linea
Empuja(d) == Motor = [EnReposo EXCEPT ![IF d = 1 THEN "cw" ELSE "ccw"] = FALSE]

Gira(d) ==
    /\ Empuja(d)
    /\ Simulacion => ~fin /\ pc # "muerto"
    /\ Puntual => AlDia
    /\ abs(posicionRelativa) < Recorrido
    /\ giro' = (giro + d) % (2 * N)
    /\ UNCHANGED <<orden, mando, fines, cuenta, calib, paradas,
                   stop, fin, corriente, enc>>

(***************************************************************************)
(* In the real mode the constructor returns before it creates the encoder  *)
(* thread if a call to the pigpio daemon fails; the file may be one that a *)
(* complete calibration of such a program has left a size of 0 in.         *)
(***************************************************************************)
Init ==
    /\ sentido = "PARADO" /\ pin = EnReposo /\ linea = EnReposo
    /\ tension = FALSE /\ fallos = 0
    /\ stop = FALSE /\ fin = FALSE
    /\ posicionAbsoluta = -1 /\ posicionRelativa = 0
    /\ posicionAbsolutaFinal = -1 /\ posicionRelativaFinal = 0
    /\ maxPos \in {MaxPosicionesIni} \cup {x \in {0} : ~Simulacion /\ MaxFallos > 0}
    /\ estadoCalibrado = IF maxPos > -1 THEN "NO_CALIBRADO_LOGICO"
                                                  ELSE "NO_CALIBRADO_FISICO"
    /\ corriente = FALSE
    /\ enc \in [pc : {"inicio"} \cup {x \in {"fin"} : ~Simulacion /\ MaxFallos > 0},
                ant : {TRUE}, dar : {FALSE}]
    /\ hilo = [h \in Hilos |-> HiloNulo] /\ pStop = Ninguno
    /\ pc = "libre" /\ marco = MarcoNulo
    /\ giro \in IF Simulacion THEN {0} ELSE 0 .. 2 * N - 1

Sigue ==
    \/ Join \/ Pin1 \/ Pin2 \/ Fijar \/ Lanzar \/ DespuesDeDAH
    \/ CalCorto \/ CalArranque \/ CalParada \/ CalDah1 \/ CalSale
    \/ CalDah2 \/ CalFin \/ CalMide \/ FinStop \/ FinEnc

Orden ==
    \/ \E sm \in OrdenesMover : (sm = "PARADO" \/ Cabe) /\ OrdenMover(sm)
    \/ \E o \in OrdenesPosicion : Cabe /\ OrdenPosicion(o[1], o[2], o[3])
    \/ \E o \in OrdenesAngulo : Cabe /\ OrdenAngulo(o[1], o[2], o[3])
    \/ \E v \in OrdenesDAH : Cabe /\ OrdenDAH(v)
    \/ \E o \in OrdenesCalibrar : Cabe /\ OrdenCalibrar(o[1], o[2])
    \/ \E v \in OrdenesFinalizar : OrdenFinalizar(v)

Parador(h) ==
    /\ pc # "muerto"
    /\ Arranca(h) \/ Vigila(h) \/ Para1(h) \/ Para2(h) \/ Para3(h)
Encoder ==
    /\ pc # "muerto"
    /\ EncInicio \/ EncLee \/ EncMira \/ EncCuenta \/ EncDah \/ EncCorriente \/ EncFin
Cupula == \E d \in {1, -1} : Gira(d)

Next ==
    \/ Sigue \/ Orden \/ Encoder \/ Cupula
    \/ \E h \in Hilos : Parador(h) \/ Divide(h)

(* Every thread is scheduled and a powered motor turns; nobody has to give *)
(* an order.                                                               *)
Fairness == /\ WF_vars(Sigue) /\ WF_vars(Encoder) /\ WF_vars(Cupula)
            /\ \A h \in Hilos : WF_vars(Parador(h))

Spec == Init /\ [][Next]_vars /\ Fairness

(***************************************************************************)
(* Properties.                                                             *)
(***************************************************************************)
estadosCalibrado == {"NO_CALIBRADO_FISICO", "NO_CALIBRADO_LOGICO",
    "MOVIENDO_A_DAH_PLUS", "MOVIENDO_A_DAH", "CALIBRADO"}
Continuaciones == {"libre", "plus", "plusCal", "calCorto", "calArranque",
    "calDah1", "calMide"}
EstadosMain == Continuaciones \cup {"join", "pin1", "pin2", "fijar", "lanzar",
    "calParada", "calSale", "calDah2", "calFin", "finStop", "finParada",
    "finEnc", "terminado", "muerto"}
Marcos == [sm : sentidoMovimiento, tp : tipoPosicion, ini : Int,
           sig : Continuaciones, pIni : Int, pFin : Int]
EstadosHilo == Espera \cup {"fin", "arranca", "para1", "para2", "para3"}

(* The values every variable can take.                                     *)
TypeOK ==
    /\ sentido \in sentidoMovimiento
    /\ pin \in [Pines -> BOOLEAN] /\ linea \in [Pines -> BOOLEAN]
    /\ fallos \in Nat
    /\ {stop, fin, corriente, tension} \subseteq BOOLEAN
    /\ {posicionAbsoluta, posicionRelativa, maxPos,
        posicionAbsolutaFinal, posicionRelativaFinal} \subseteq Int
    /\ estadoCalibrado \in estadosCalibrado
    /\ enc \in [pc : {"inicio", "lee", "mira", "cuenta", "dah", "corriente", "fin"},
                 ant : BOOLEAN, dar : BOOLEAN]
    /\ hilo \in [Hilos -> [pc : EstadosHilo, tp : tipoPosicion, ref : Int]]
    /\ pStop \in Hilos \cup {Ninguno}
    /\ pc \in EstadosMain
    /\ marco \in Marcos
    /\ giro \in 0 .. 2 * N - 1

(* The simulator calls it "Opcion incompatible: No se pueden activar los   *)
(* dos movimientos a la vez": however the writes of main and of the stop   *)
(* threads interleave, the two relays are never commanded together.        *)
InterbloqueoActuadores == pin["cw"] \/ pin["ccw"]

(* Only the thread pStop points to is alive: setPosicion overwrites pStop  *)
(* without joining, and finalizarThreads can only stop the last one.       *)
UnSoloParador == \A h \in Vivos : h = pStop

(* Outside mover and pararMovimiento the relays are exactly those that     *)
(* sentido says: the dome never turns while sentido is PARADO, when every  *)
(* new order would be accepted.                                            *)
MandoCoherente ==
    \/ pc \in {"pin1", "pin2", "fijar"}
    \/ \E h \in Vivos : hilo[h].pc \in {"para2", "para3"}
    \/ pin = Reles(sentido)

(* No order makes mover(CORTA) return before it has moved anything.        *)
SinCortaRelativa == \A o \in OrdenesPosicion \cup OrdenesAngulo :
                        ~(o[1] = "CORTA" /\ o[2] = "relativa")

(* What makes the two invariants above inductive: a live thread, a         *)
(* movement and main inside mover exclude each other, and each of the      *)
(* writes to the relays finds them as the one before left them.            *)
Coherencia ==
    /\ \A h \in Vivos : /\ h = pStop /\ sentido # "PARADO"
                        /\ pc \notin {"pin1", "pin2", "fijar", "lanzar"}
                        /\ hilo[h].pc = "para2" => pin["cw"]
                        /\ hilo[h].pc = "para3" => pin["cw"] /\ pin["ccw"]
    /\ pc \in {"join", "pin1", "pin2", "fijar"} => marco.sm # "CORTA"
    /\ pc \in {"pin1", "pin2", "fijar"} =>
         /\ sentido = "PARADO"
         /\ marco.sm = "PARADO" => marco.tp = "manual"
    /\ pc = "join" => marco.tp = "manual"
    /\ pc = "pin2" => pin[Suelta(marco.sm)]
    /\ pc = "fijar" => pin = Reles(marco.sm)
    /\ pc = "lanzar" => sentido # "PARADO"
    /\ sentido # "CORTA"
    /\ sentido # "PARADO" => pin[Suelta(sentido)]
    /\ MandoCoherente

(* What the encoder makes out of the relays is what the program says, over *)
(* every interleaving of the writes: it decides to count up only under CW, *)
(* down only under CCW and, while sentido is PARADO, nothing but between   *)
(* the writes of mover.  (The count itself comes later, when main may      *)
(* already have given another sentido.)                                    *)
MiraSegunSentido ==
    [][enc.pc = "mira" /\ enc'.pc = "cuenta" =>
         CASE sentido = "CW"  -> Pulso = 1
           [] sentido = "CCW" -> Pulso = -1
           [] OTHER           -> pc \in {"pin1", "pin2", "fijar"}]_vars

(* While the program says CW the encoder never counts down, nor up while   *)
(* it says CCW.                                                            *)
ConteoSigueSentido ==
    [][enc.pc = "cuenta" /\ enc'.pc = "dah" =>
         /\ sentido = "CW"  => posicionRelativa' >= posicionRelativa
         /\ sentido = "CCW" => posicionRelativa' <= posicionRelativa]_vars

(* A stop thread nobody hurried ends its movement where it was asked to.   *)
EnDestino(h) ==
    CASE hilo[h].tp = "absoluta" -> posicionAbsoluta = posicionAbsolutaFinal
      [] hilo[h].tp = "relativa" -> posicionRelativa = posicionRelativaFinal
      [] hilo[h].tp = "dah"      -> getDAH
      [] hilo[h].tp = "vuelta"   -> posicionRelativa = hilo[h].ref

LlegaADestino ==
    [][\A h \in Hilos : Para3(h) /\ pc = "libre" => EnDestino(h)]_vars

(* The counters agree with the dome once the encoder has caught up.        *)
Posicion == (giro + 1) \div 2
PosicionFiel ==
    enc.pc = "lee" /\ PinEncoder = enc.ant =>
        /\ (posicionRelativa - Posicion) % N = 0
        /\ posicionAbsoluta # -1 => posicionAbsoluta = Posicion % N

(* Where a movement started; for "dah" and "vuelta" ref is the whole turn  *)
(* on, clockwise for a thread that waits for the counter to come up to it. *)
Partida(h) ==
    CASE hilo[h].tp \in {"absoluta", "relativa"} -> hilo[h].ref
      [] hilo[h].tp \in {"dah", "vuelta"} ->
            IF hilo[h].pc = "sube" THEN hilo[h].ref - maxPos ELSE hilo[h].ref + maxPos

(* A monitored movement never turns the dome more than once, whatever      *)
(* target it was given and whichever way it goes.                          *)
UnaVuelta == \A h \in Vivos : hilo[h].pc \in Espera =>
                 abs(posicionRelativa - Partida(h)) <= maxPos

(* Every monitored movement ends.                                          *)
MovimientoTermina == \A h \in Hilos : (h \in Vivos) ~> (h \notin Vivos)

(* An order that has to wait for other threads, to interrupt a movement or *)
(* to end them, is not kept waiting for ever.                              *)
JoinTermina ==
    (pc \in {"join", "finStop", "finParada", "finEnc"}) ~>
    (pc \in {"pin1", "libre", "terminado"})

(* The relays and the stop threads implement Maniobras.                    *)
SentidoMotor == CASE ~pin["cw"] /\ pin["ccw"] -> "CW"
                  [] pin["cw"] /\ ~pin["ccw"] -> "CCW"
                  [] pin["cw"] /\ pin["ccw"]  -> "PARADO"
                  [] OTHER                    -> "CORTOCIRCUITO"

M == INSTANCE Maniobras WITH motor <- SentidoMotor, vigilada <- Vivos # {}
ImplementaManiobras == M!Spec

(* "si no esta en DAH no hay corriente": while the program and its encoder *)
(* thread live, the mobile part has no power once the dome is half a pulse *)
(* past the zone of the sensor.  The exception is a relay that mapaPines   *)
(* has as released and is not: the write that took the power away failed,  *)
(* and will not be repeated.                                               *)
CercaDAH == \E d \in {-1, 0, 1} : (giro + d) % (2 * N) < AnchoDAH
CorrienteEnDAH ==
    tension /\ enc.pc # "fin" /\ pc # "muerto" =>
        CercaDAH \/ (~corriente /\ fallos > 0)

(* A complete calibration ends.                                            *)
CalibraTermina == (pc = "calArranque" /\ ~stop) ~>
                  (pc = "libre" /\ estadoCalibrado = "CALIBRADO")

(* and what it measured is the turn of the dome and where its origin is.   *)
CalibraCorrecto ==
    [][CalMide => maxPos' = N /\ posicionAbsoluta' = Posicion % N]_vars
=============================================================================
