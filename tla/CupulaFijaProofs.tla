-------------------------- MODULE CupulaFijaProofs --------------------------
(***************************************************************************)
(* Theorems about CupulaFija, for every dome, every set of orders and any  *)
(* number of stop threads.                                                 *)
(***************************************************************************)
EXTENDS CupulaFija, TLAPS

(* The arithmetic of Geometria stays within the integers.                  *)
LEMMA DivCInt == ASSUME NEW a \in Int, NEW b \in Int PROVE DivC(a, b) \in Int
BY DEF DivC

LEMMA AnguloInt ==
    ASSUME NEW q \in Int, NEW max \in Int, NEW a \in Int
    PROVE  getAngulo(q, max, a) \in Int
<1>1. a * 360 \in Int /\ q * 360 \in Int
  OBVIOUS
<1>2. DivC(a * 360, max) \in Int /\ DivC(q * 360, max) \in Int
  BY <1>1, DivCInt
<1> QED
  BY <1>2 DEF getAngulo

LEMMA PosicionInt ==
    ASSUME NEW q \in Int, NEW max \in Int, NEW a \in Int
    PROVE  getPosicion(q, max, a) \in Int
<1>1. q * max \in Int
  OBVIOUS
<1>2. DivC(q * max, 360) \in Int
  BY <1>1, DivCInt
<1> QED
  BY <1>2 DEF getPosicion

LEMMA PedidaInt ==
    ASSUME NEW tp, NEW q \in Int, NEW max \in Int, NEW a \in Int
    PROVE  PosicionPedida(tp, q, max, a) \in Int
<1>. -1 \in Int
  OBVIOUS
<1>0. getAngulo(-1, max, a) \in Int
  BY AnguloInt
<1>1. getAngulo(-1, max, a) + q \in Int
  BY <1>0
<1>2. Plegado(getAngulo(-1, max, a) + q) \in Int
  BY <1>1 DEF Plegado
<1> QED
  BY <1>2, PosicionInt DEF PosicionPedida

LEMMA AjustadoInt ==
    ASSUME {posicionRelativa, posicionRelativaFinal, maxPos} \subseteq Int, NEW s
    PROVE  FinalAjustado(s) \in Int
<1>1. DivC(posicionRelativa, maxPos) + 1 \in Int
  BY DivCInt
<1>2. (DivC(posicionRelativa, maxPos) + 1) * maxPos \in Int
  BY <1>1
<1> QED
  BY <1>2 DEF FinalAjustado

(***************************************************************************)
(* Type correctness.                                                       *)
(***************************************************************************)
LEMMA SetPosicionTipo ==
    ASSUME TypeOK, NEW sm \in sentidoMovimiento, NEW tp \in tipoPosicion,
           NEW n \in Int, NEW sig \in Continuaciones, setPosicion(sm, tp, n, sig)
    PROVE  /\ pc' \in EstadosMain /\ marco' \in Marcos
           /\ posicionAbsolutaFinal' \in Int /\ posicionRelativaFinal' \in Int
<1>1. CASE Rechaza(sm, tp)
  BY <1>1 DEF setPosicion, TypeOK, MarcoNulo, Marcos, EstadosMain, Continuaciones, fines,
              sentidoMovimiento, tipoPosicion
<1>2. CASE DivideEntreCero
  BY <1>2 DEF DivideEntreCero, TypeOK, EstadosMain, fines
<1>3. CASE Acepta(sm, tp, n, sig)
  <2>1. SentidoFinal(sm, tp, n) \in sentidoMovimiento
    BY DEF SentidoFinal, sentidoMasCorto, sentidoMovimiento
  <2>2. marco' = [marco EXCEPT !.sm = SentidoFinal(sm, tp, n), !.tp = tp,
                               !.sig = sig, !.ini = posicionRelativa]
    BY <1>3 DEF Acepta
  <2>3. marco' \in Marcos
    BY <2>1, <2>2 DEF TypeOK, Marcos
  <2>4. pc' \in EstadosMain
    BY <1>3 DEF Acepta, EstadosMain, Continuaciones
  <2>5. posicionAbsolutaFinal' \in Int /\ posicionRelativaFinal' \in Int
    BY <1>3 DEF Acepta, TypeOK
  <2> QED
    BY <2>3, <2>4, <2>5
<1> QED
  BY <1>1, <1>2, <1>3 DEF setPosicion

LEMMA SetDAHTipo ==
    ASSUME TypeOK, NEW v \in BOOLEAN, NEW sig \in Continuaciones, setDAH(v, sig)
    PROVE  /\ pc' \in EstadosMain /\ marco' \in Marcos
           /\ posicionAbsolutaFinal' \in Int /\ posicionRelativaFinal' \in Int
<1>0. {"plus", "plusCal"} \subseteq Continuaciones /\ Plus \in Int
      /\ {"CW", "CORTA"} \subseteq sentidoMovimiento
      /\ {"dah", "relativa"} \subseteq tipoPosicion
  BY CotasAssumption DEF EstadosMain, Continuaciones, sentidoMovimiento, tipoPosicion
<1>1. CASE v /\ getDAH
  BY <1>1 DEF setDAH, TypeOK, MarcoNulo, Marcos, EstadosMain, Continuaciones, fines,
              sentidoMovimiento, tipoPosicion
<1>2. CASE ~v /\ getDAH
  <2>1. setPosicion("CW", "relativa", Plus, sig)
    BY <1>2 DEF setDAH
  <2> QED
    BY <1>0, <2>1, SetPosicionTipo
<1>3. CASE ~getDAH
  <2>1. PICK s \in Continuaciones : VeADAH(s)
    BY <1>0, <1>3 DEF setDAH
  <2> QED
    BY <1>0, <2>1, SetPosicionTipo DEF VeADAH
<1> QED
  BY <1>1, <1>2, <1>3

LEMMA TipoInicial == Init => TypeOK
<1> SUFFICES ASSUME Init PROVE TypeOK
  OBVIOUS
<1>1. /\ pin \in [Pines -> BOOLEAN] /\ linea \in [Pines -> BOOLEAN]
      /\ hilo \in [Hilos -> [pc : EstadosHilo, tp : tipoPosicion, ref : Int]]
      /\ marco \in Marcos
  BY DEF Init, EnReposo, HiloNulo, MarcoNulo, Marcos, EstadosMain, Continuaciones, EstadosHilo,
         sentidoMovimiento, tipoPosicion
<1>2. enc \in [pc : {"inicio", "lee", "mira", "cuenta", "dah", "corriente", "fin"},
               ant : BOOLEAN, dar : BOOLEAN]
  BY DEF Init
<1>3. giro \in 0 .. 2 * N - 1
  BY NAssumption DEF Init
<1>4. {posicionAbsoluta, posicionRelativa, maxPos,
       posicionAbsolutaFinal, posicionRelativaFinal} \subseteq Int
  BY NAssumption DEF Init
<1> QED
  BY <1>1, <1>2, <1>3, <1>4
  DEF Init, TypeOK, EstadosMain, Continuaciones, estadosCalibrado, sentidoMovimiento

LEMMA EscribeTipo ==
    ASSUME TypeOK, NEW p \in Pines, NEW v \in BOOLEAN, Escribe(p, v)
    PROVE  /\ pin' \in [Pines -> BOOLEAN] /\ linea' \in [Pines -> BOOLEAN]
           /\ fallos' \in Nat
BY DEF TypeOK, Escribe

LEMMA MoverTipo ==
    ASSUME TypeOK, NEW s \in sentidoMovimiento, NEW k \in Continuaciones, mover(s, k)
    PROVE  marco' \in Marcos /\ pc' \in EstadosMain /\ stop' \in BOOLEAN
BY DEF TypeOK, mover, Marcos, EstadosMain, Continuaciones, tipoPosicion

(* One step per action; those that begin with an order cite the lemma on   *)
(* the operator they call.                                                 *)
LEMMA TipoSigue == TypeOK /\ Sigue => TypeOK'
<1> SUFFICES ASSUME TypeOK, Sigue PROVE TypeOK'
  OBVIOUS
<1> USE DEF mando, cuenta, calib, paradas, fines, orden
<1>1. CASE Join
  BY <1>1 DEF Join, TypeOK, EstadosMain, Continuaciones, sentidoMovimiento
<1>2. CASE Pin1 \/ Pin2
  <2>1. PICK p \in Pines, v \in BOOLEAN : Escribe(p, v)
    BY <1>2 DEF Pin1, Pin2, Suelta, Otro, Pines
  <2> QED
    BY <1>2, <2>1, EscribeTipo DEF Pin1, Pin2, TypeOK, EstadosMain, Continuaciones
<1>3. CASE Fijar
  BY <1>3 DEF Fijar, TypeOK, EstadosMain, Continuaciones, Marcos, MarcoNulo, sentidoMovimiento,
              tipoPosicion
<1>4. CASE Lanzar
  BY <1>4 DEF Lanzar, TypeOK, EstadosMain, Continuaciones, EstadosHilo, Marcos, MarcoNulo, Vivos,
              sentidoMovimiento, tipoPosicion
<1>5. CASE DespuesDeDAH
  <2>1. PICK k \in Continuaciones : setPosicion("CW", "relativa", Plus, k)
    BY <1>5 DEF DespuesDeDAH, EstadosMain, Continuaciones
  <2>2. Plus \in Int /\ "CW" \in sentidoMovimiento /\ "relativa" \in tipoPosicion
    BY CotasAssumption DEF sentidoMovimiento, tipoPosicion
  <2>3. /\ pc' \in EstadosMain /\ marco' \in Marcos
        /\ posicionAbsolutaFinal' \in Int /\ posicionRelativaFinal' \in Int
    BY <2>1, <2>2, SetPosicionTipo
  <2> QED
    BY <1>5, <2>3 DEF DespuesDeDAH, TypeOK
<1>6. CASE CalCorto
  BY <1>6 DEF CalCorto, PonOrigen, TypeOK, EstadosMain, Continuaciones, Marcos, MarcoNulo,
              estadosCalibrado, sentidoMovimiento, tipoPosicion
<1>7. CASE CalParada
  <2>1. /\ pc' \in EstadosMain /\ marco' \in Marcos
        /\ posicionAbsolutaFinal' \in Int /\ posicionRelativaFinal' \in Int
    <3>1. "CCW" \in sentidoMovimiento /\ "manual" \in tipoPosicion
          /\ "calDah1" \in Continuaciones /\ 0 \in Int
      BY DEF sentidoMovimiento, tipoPosicion, EstadosMain, Continuaciones
    <3> QED
      BY <1>7, <3>1, SetPosicionTipo DEF CalParada
  <2> QED
    BY <1>7, <2>1 DEF CalParada, TypeOK, estadosCalibrado
<1>8. CASE CalArranque \/ CalDah1 \/ CalSale \/ CalDah2
  BY <1>8 DEF CalArranque, CalDah1, CalSale, CalDah2, TypeOK, EstadosMain, Continuaciones, Marcos
<1>9. CASE CalFin
  <2>1. marco' \in Marcos /\ pc' \in EstadosMain /\ stop' \in BOOLEAN
    <3>1. "PARADO" \in sentidoMovimiento /\ "calMide" \in Continuaciones
      BY DEF sentidoMovimiento, EstadosMain, Continuaciones
    <3> QED
      BY <1>9, <3>1, MoverTipo DEF CalFin
  <2> QED
    BY <1>9, <2>1 DEF CalFin, TypeOK
<1>10. CASE CalMide
  BY <1>10 DEF CalMide, TypeOK, EstadosMain, Continuaciones, Marcos, MarcoNulo, abs,
               estadosCalibrado, sentidoMovimiento, tipoPosicion
<1>11. CASE FinStop \/ FinEnc
  BY <1>11 DEF FinStop, FinEnc, TypeOK, EstadosMain, Continuaciones
<1> QED
  BY <1>1, <1>2, <1>3, <1>4, <1>5, <1>6, <1>7, <1>8, <1>9, <1>10, <1>11 DEF Sigue

LEMMA TipoOrden == TypeOK /\ Orden => TypeOK'
<1> SUFFICES ASSUME TypeOK, Orden PROVE TypeOK'
  OBVIOUS
<1> USE DEF mando, cuenta, calib, paradas, fines, orden
<1>0. {"libre", "calCorto", "calArranque"} \subseteq Continuaciones
  BY DEF EstadosMain, Continuaciones
<1>1. ASSUME NEW s \in OrdenesMover, OrdenMover(s) PROVE TypeOK'
  <2>1. marco' \in Marcos /\ pc' \in EstadosMain /\ stop' \in BOOLEAN
    <3>1. s \in sentidoMovimiento
      BY OrdenesAssumption DEF sentidoMovimiento
    <3> QED
      BY <1>0, <1>1, <3>1, MoverTipo DEF OrdenMover
  <2> QED
    BY <1>1, <2>1 DEF OrdenMover, TypeOK
<1>2. ASSUME NEW o \in OrdenesPosicion, OrdenPosicion(o[1], o[2], o[3])
      PROVE  TypeOK'
  <2>1. o[1] \in sentidoMovimiento /\ o[2] \in tipoPosicion /\ o[3] \in Int
    BY OrdenesAssumption
  <2>2. /\ pc' \in EstadosMain /\ marco' \in Marcos
        /\ posicionAbsolutaFinal' \in Int /\ posicionRelativaFinal' \in Int
    BY <1>0, <1>2, <2>1, SetPosicionTipo DEF OrdenPosicion
  <2> QED
    BY <1>2, <2>2 DEF OrdenPosicion, TypeOK
<1>3. ASSUME NEW o \in OrdenesAngulo, OrdenAngulo(o[1], o[2], o[3])
      PROVE  TypeOK'
  <2>1. o[1] \in sentidoMovimiento /\ o[2] \in tipoPosicion /\ o[3] \in Int
    BY OrdenesAssumption DEF sentidoMovimiento, tipoPosicion
  <2>2. PosicionPedida(o[2], o[3], maxPos, posicionAbsoluta) \in Int
    BY <2>1, PedidaInt DEF TypeOK
  <2>3. /\ pc' \in EstadosMain /\ marco' \in Marcos
        /\ posicionAbsolutaFinal' \in Int /\ posicionRelativaFinal' \in Int
    <3>1. CASE DivideEntreCero
      BY <3>1 DEF DivideEntreCero, TypeOK, EstadosMain
    <3>2. CASE ~DivideEntreCero
      BY <1>0, <1>3, <2>1, <2>2, <3>2, SetPosicionTipo DEF OrdenAngulo
    <3> QED
      BY <3>1, <3>2
  <2> QED
    BY <1>3, <2>3 DEF OrdenAngulo, TypeOK
<1>4. ASSUME NEW v \in OrdenesDAH, OrdenDAH(v) PROVE TypeOK'
  <2>1. /\ pc' \in EstadosMain /\ marco' \in Marcos
        /\ posicionAbsolutaFinal' \in Int /\ posicionRelativaFinal' \in Int
    BY <1>0, <1>4, SetDAHTipo, OrdenesAssumption DEF OrdenDAH
  <2> QED
    BY <1>4, <2>1 DEF OrdenDAH, TypeOK
<1>5. ASSUME NEW o \in OrdenesCalibrar, OrdenCalibrar(o[1], o[2]) PROVE TypeOK'
  <2>1. CASE maxPos > -1 /\ ~o[1] /\ ~o[2]
    BY <1>5, <2>1 DEF OrdenCalibrar, PonOrigen, TypeOK, estadosCalibrado
  <2>2. CASE ~(maxPos > -1 /\ ~o[1] /\ ~o[2])
    <3>1. PICK v \in BOOLEAN, k \in Continuaciones : setDAH(v, k)
      BY <1>0, <1>5, <2>2, OrdenesAssumption DEF OrdenCalibrar
    <3>2. /\ pc' \in EstadosMain /\ marco' \in Marcos
          /\ posicionAbsolutaFinal' \in Int /\ posicionRelativaFinal' \in Int
      BY <3>1, SetDAHTipo
    <3> QED
      BY <1>5, <2>2, <3>2, OrdenesAssumption
      DEF OrdenCalibrar, TypeOK, estadosCalibrado
  <2> QED
    BY <2>1, <2>2
<1>6. ASSUME NEW v \in OrdenesFinalizar, OrdenFinalizar(v) PROVE TypeOK'
  BY <1>6 DEF OrdenFinalizar, TypeOK, EstadosMain, Continuaciones
<1> QED
  BY <1>1, <1>2, <1>3, <1>4, <1>5, <1>6 DEF Orden

LEMMA TipoParador ==
    ASSUME TypeOK, NEW h \in Hilos, Parador(h) PROVE TypeOK'
<1> USE DEF mando, cuenta, calib, paradas, fines, orden
<1>1. CASE Arranca(h)
  <2>1. posicionRelativaFinal' \in Int
    BY <1>1, AjustadoInt DEF Arranca, TypeOK
  <2>2. hilo' \in [Hilos -> [pc : EstadosHilo, tp : tipoPosicion, ref : Int]]
    BY <1>1 DEF Arranca, Camino, TypeOK, EstadosHilo, Espera
  <2> QED
    BY <1>1, <2>1, <2>2 DEF Arranca, TypeOK
<1>2. CASE Vigila(h)
  BY <1>2 DEF Vigila, TypeOK, EstadosHilo, Espera
<1>3. ASSUME NEW de, NEW p \in Pines, NEW a \in EstadosHilo, Para(h, de, p, a)
      PROVE  TypeOK'
  BY <1>3, EscribeTipo DEF Para, TypeOK
<1>4. CASE Para3(h)
  BY <1>4 DEF Para3, HiloNulo, TypeOK, EstadosHilo, sentidoMovimiento, tipoPosicion
<1> QED
  BY <1>1, <1>2, <1>3, <1>4 DEF Parador, Para1, Para2, Pines, EstadosHilo

LEMMA TipoDivide == ASSUME TypeOK, NEW h \in Hilos, Divide(h) PROVE TypeOK'
BY DEF Divide, DivideEntreCero, TypeOK, EstadosMain, mando, cuenta, calib, paradas, fines

LEMMA TipoEncoder == TypeOK /\ Encoder => TypeOK'
<1> SUFFICES ASSUME TypeOK, Encoder PROVE TypeOK'
  OBVIOUS
<1> USE DEF mando, cuenta, calib, paradas, fines, orden
<1>0. getDAH \in BOOLEAN /\ PinEncoder \in BOOLEAN
  BY DEF getDAH, PinEncoder
<1>1. CASE EncInicio
  BY <1>0, <1>1 DEF EncInicio, TypeOK
<1> DEFINE Encs == [pc : {"inicio", "lee", "mira", "cuenta", "dah", "corriente", "fin"},
                    ant : BOOLEAN, dar : BOOLEAN]
<1>a. enc \in Encs
  BY DEF TypeOK
<1>2. CASE EncLee \/ EncMira \/ EncDah \/ EncFin
  <2>1. ASSUME EncMira PROVE enc' \in Encs
    <3>1. (~enc.ant) \in BOOLEAN
      OBVIOUS
    <3>2. [enc EXCEPT !.pc = "dah", !.ant = ~@] \in Encs
      BY <3>1, <1>a
    <3>3. [enc EXCEPT !.pc = "cuenta"] \in Encs
      BY <1>a
    <3> QED
      BY <2>1, <3>2, <3>3 DEF EncMira
  <2>2. ASSUME EncLee \/ EncDah \/ EncFin PROVE enc' \in Encs
    <3>1. \A p \in {"mira", "lee", "corriente", "fin"} : [enc EXCEPT !.pc = p] \in Encs
      BY <1>a
    <3>2. PICK p \in {"mira", "lee", "corriente", "fin"} : enc' = [enc EXCEPT !.pc = p]
      BY <2>2, Zenon DEF EncLee, EncDah, EncFin
    <3> QED
      BY <3>1, <3>2
  <2> QED
    BY <1>2, <2>1, <2>2 DEF EncLee, EncMira, EncDah, EncFin, TypeOK
<1>3. CASE EncCuenta
  <2>1. Salto \in Int
    BY DEF Salto
  <2>2. posicionAbsoluta' \in Int /\ posicionRelativa' \in Int
    BY <1>3, <2>1 DEF EncCuenta, operarPosicionAbsoluta, TypeOK
  <2> QED
    BY <1>3, <2>2 DEF EncCuenta, TypeOK
<1>4. CASE EncCorriente
  <2>1. fallos' \in Nat
    BY <1>4 DEF EncCorriente, TypeOK
  <2>3. corriente' \in BOOLEAN
    BY <1>4, Zenon DEF EncCorriente
  <2>4. tension' \in BOOLEAN
    BY <1>4, <2>3, Zenon DEF EncCorriente, TypeOK
  <2>2. enc' \in Encs
    BY <1>4, <1>a DEF EncCorriente
  <2> QED
    BY <1>4, <2>1, <2>2, <2>3, <2>4 DEF EncCorriente, TypeOK
<1> QED
  BY <1>1, <1>2, <1>3, <1>4 DEF Encoder

LEMMA TipoCupula == TypeOK /\ Cupula => TypeOK'
<1> SUFFICES ASSUME TypeOK, NEW d \in {1, -1}, Gira(d) PROVE TypeOK'
  BY DEF Cupula
<1>1. giro' \in 0 .. 2 * N - 1
  <2>1. giro + d \in Int /\ 2 * N \in Nat \ {0}
    BY NAssumption DEF TypeOK
  <2> QED
    BY <2>1 DEF Gira
<1> QED
  BY <1>1 DEF Gira, TypeOK, mando, cuenta, calib, paradas, fines, orden

LEMMA TipoPaso == TypeOK /\ [Next]_vars => TypeOK'
<1> SUFFICES ASSUME TypeOK, [Next]_vars PROVE TypeOK'
  OBVIOUS
<1>1. CASE UNCHANGED vars
  BY <1>1 DEF vars, TypeOK, mando, cuenta, calib, paradas, fines, orden
<1> QED
  BY <1>1, TipoSigue, TipoOrden, TipoParador, TipoDivide, TipoEncoder, TipoCupula
  DEF Next

(* The program never leaves the values of its types, whatever the orders,  *)
(* the failures of the relays and the interleaving of its threads.         *)
THEOREM TipoCorrecto == Spec => []TypeOK
BY TipoInicial, TipoPaso, PTL DEF Spec

(***************************************************************************)
(* The two relays are never commanded together.  Main engages a relay only *)
(* in its second write, and until then the other one stays released: the   *)
(* stop threads only release.                                              *)
(***************************************************************************)
LEMMA SetPosicionSigue ==
    ASSUME NEW sm, NEW tp, NEW n, NEW sig, setPosicion(sm, tp, n, sig)
    PROVE  pc' \in {sig, "lanzar", "pin1", "muerto"}
BY DEF setPosicion, Acepta, DivideEntreCero

LEMMA SetDAHSigue ==
    ASSUME NEW v \in BOOLEAN, NEW sig, setDAH(v, sig)
    PROVE  pc' \in {sig, "lanzar", "pin1", "plus", "plusCal", "muerto"}
BY SetPosicionSigue DEF setDAH, VeADAH

LEMMA OrdenSigue == Orden => pc' # "pin2" /\ UNCHANGED mando
<1> SUFFICES ASSUME Orden PROVE pc' # "pin2" /\ UNCHANGED mando
  OBVIOUS
<1>1. ASSUME NEW s \in OrdenesMover, OrdenMover(s)
      PROVE  pc' # "pin2" /\ UNCHANGED mando
  BY <1>1 DEF OrdenMover, mover
<1>2. ASSUME NEW sm, NEW tp, NEW n, OrdenPosicion(sm, tp, n) \/ OrdenAngulo(sm, tp, n)
      PROVE  pc' # "pin2" /\ UNCHANGED mando
  BY <1>2, SetPosicionSigue DEF OrdenPosicion, OrdenAngulo, DivideEntreCero
<1>3. ASSUME NEW v \in OrdenesDAH, OrdenDAH(v)
      PROVE  pc' # "pin2" /\ UNCHANGED mando
  BY <1>3, OrdenesAssumption, SetDAHSigue DEF OrdenDAH
<1>4. ASSUME NEW o \in OrdenesCalibrar, OrdenCalibrar(o[1], o[2])
      PROVE  pc' # "pin2" /\ UNCHANGED mando
  <2>1. CASE UNCHANGED orden
    BY <1>4, <2>1 DEF OrdenCalibrar, Libre, orden
  <2>2. CASE setDAH(TRUE, "calCorto") \/ setDAH(FALSE, "calArranque")
    <3>1. PICK v \in BOOLEAN, k \in {"calCorto", "calArranque"} : setDAH(v, k)
      BY <2>2
    <3>2. pc' # "pin2"
      BY <3>1, SetDAHSigue
    <3>3. UNCHANGED mando
      BY <1>4 DEF OrdenCalibrar
    <3> QED
      BY <3>2, <3>3
  <2> QED
    BY <1>4, <2>1, <2>2 DEF OrdenCalibrar
<1>5. ASSUME NEW v, OrdenFinalizar(v) PROVE pc' # "pin2" /\ UNCHANGED mando
  BY <1>5 DEF OrdenFinalizar
<1> QED
  BY <1>1, <1>2, <1>3, <1>4, <1>5 DEF Orden

SueltaAntes == pc = "pin2" => pin[Suelta(marco.sm)]

LEMMA InterbloqueoPaso ==
    TypeOK /\ InterbloqueoActuadores /\ SueltaAntes /\ [Next]_vars
    => InterbloqueoActuadores' /\ SueltaAntes'
<1> SUFFICES ASSUME TypeOK, InterbloqueoActuadores, SueltaAntes, [Next]_vars
             PROVE  InterbloqueoActuadores' /\ SueltaAntes'
  OBVIOUS
<1> USE DEF InterbloqueoActuadores, SueltaAntes
<1>0. \A s : /\ Suelta(s) \in Pines /\ Otro(Suelta(s)) \in Pines
             /\ Otro(Suelta(s)) # Suelta(s)
  BY DEF Suelta, Otro, Pines
<1>1. CASE Pin1
  BY <1>0, <1>1 DEF Pin1, Escribe, TypeOK, Pines
<1>2. CASE Pin2
  BY <1>0, <1>2 DEF Pin2, Escribe, TypeOK, Pines
<1>3. ASSUME NEW h \in Hilos, Para1(h) \/ Para2(h)
      PROVE  InterbloqueoActuadores' /\ SueltaAntes'
  BY <1>0, <1>3 DEF Para1, Para2, Para, Escribe, TypeOK, Pines, orden
<1>4. ASSUME UNCHANGED pin, UNCHANGED orden \/ pc' # "pin2"
      PROVE  InterbloqueoActuadores' /\ SueltaAntes'
  BY <1>4 DEF orden
<1>5. CASE Orden
  BY <1>4, <1>5, OrdenSigue DEF mando
<1>6. CASE Sigue
  <2>1. CASE Join \/ Fijar \/ Lanzar
    BY <2>1, <1>4 DEF Join, Fijar, Lanzar, mando, TypeOK, Marcos, Continuaciones
  <2>2. CASE DespuesDeDAH \/ CalParada \/ CalFin
    BY <2>2, <1>4, SetPosicionSigue
    DEF DespuesDeDAH, CalParada, CalFin, mover, mando
  <2>3. CASE CalCorto \/ CalArranque \/ CalDah1 \/ CalSale \/ CalDah2 \/ CalMide
    BY <2>3, <1>4 DEF CalCorto, CalArranque, CalDah1, CalSale, CalDah2, CalMide,
                      mando
  <2>4. CASE FinStop \/ FinEnc
    BY <2>4, <1>4 DEF FinStop, FinEnc, mando
  <2> QED
    BY <1>1, <1>2, <1>6, <2>1, <2>2, <2>3, <2>4 DEF Sigue
<1>7. ASSUME NEW h \in Hilos, Arranca(h) \/ Vigila(h) \/ Para3(h)
      PROVE  InterbloqueoActuadores' /\ SueltaAntes'
  BY <1>4, <1>7 DEF Arranca, Vigila, Para3, mando
<1>8. CASE Encoder \/ Cupula \/ UNCHANGED vars
  BY <1>4, <1>8 DEF Encoder, EncInicio, EncLee, EncMira, EncCuenta, EncDah,
                    EncCorriente, EncFin, Cupula, Gira, vars, mando
<1>9. ASSUME NEW h \in Hilos, Divide(h)
      PROVE  InterbloqueoActuadores' /\ SueltaAntes'
  BY <1>4, <1>9 DEF Divide, DivideEntreCero, mando
<1> QED
  BY <1>3, <1>5, <1>6, <1>7, <1>8, <1>9 DEF Next, Parador

(* "No se pueden activar los dos movimientos a la vez": for every set of   *)
(* orders, setPosicion(CORTA, relativa) and its orphan threads included,   *)
(* no interleaving of main and the stop threads commands both relays.      *)
THEOREM Interbloqueo == Spec => []InterbloqueoActuadores
<1>1. Init => InterbloqueoActuadores /\ SueltaAntes
  BY DEF Init, EnReposo, Pines, InterbloqueoActuadores, SueltaAntes
<1> QED
  BY <1>1, InterbloqueoPaso, TipoCorrecto, PTL DEF Spec

(***************************************************************************)
(* Coherencia is inductive while no order is setPosicion(CORTA, relativa). *)
(***************************************************************************)
LEMMA CoherenciaInicial == Init => Coherencia
<1> SUFFICES ASSUME Init PROVE Coherencia
  OBVIOUS
<1>1. Vivos = {}
  BY DEF Init, Vivos, HiloNulo
<1>2. Reles("PARADO") = EnReposo
  BY DEF Reles, EnReposo, Activa, Pines
<1> QED
  BY <1>1, <1>2 DEF Init, Coherencia, MandoCoherente

LEMMA DivideCoherente ==
    ASSUME Coherencia, pc \notin {"pin1", "pin2", "fijar"}, DivideEntreCero,
           UNCHANGED mando, UNCHANGED paradas
    PROVE  Coherencia'
BY DEF DivideEntreCero, Coherencia, MandoCoherente, Vivos, mando, paradas

(* An order accepted finds nobody alive, and leaves for the relays.        *)
LEMMA SetPosicionCoherente ==
    ASSUME TypeOK, Coherencia, pc \notin {"pin1", "pin2", "fijar"},
           NEW sm \in sentidoMovimiento, NEW tp \in tipoPosicion, NEW n \in Int,
           NEW sig \in Continuaciones, ~(sm = "CORTA" /\ tp = "relativa"),
           setPosicion(sm, tp, n, sig), UNCHANGED mando, UNCHANGED paradas
    PROVE  Coherencia'
<1> USE DEF mando, paradas
<1>0. Vivos' = Vivos
  BY DEF Vivos
<1>1. CASE Rechaza(sm, tp)
  <2>1. pc' = sig /\ MandoCoherente'
    BY <1>1 DEF setPosicion, MandoCoherente, Coherencia, Vivos
  <2> QED
    BY <1>0, <2>1 DEF Coherencia, Continuaciones
<1>2. CASE ~Rechaza(sm, tp) /\ Acepta(sm, tp, n, sig)
  <2>1. SentidoFinal(sm, tp, n) \in {"CW", "CCW"}
    BY <1>2 DEF Rechaza, SentidoFinal, sentidoMasCorto, sentidoMovimiento,
                tipoPosicion
  <2>2. pc' = "pin1" /\ marco'.sm \in {"CW", "CCW"}
    BY <1>2, <2>1 DEF Acepta, TypeOK, Marcos
  <2>3. sentido = "PARADO" /\ Vivos = {}
    BY <1>2 DEF Rechaza, Coherencia
  <2> QED
    BY <1>0, <2>2, <2>3 DEF Coherencia, MandoCoherente
<1>3. CASE DivideEntreCero
  BY <1>3, DivideCoherente
<1> QED
  BY <1>1, <1>2, <1>3 DEF setPosicion

LEMMA SetDAHCoherente ==
    ASSUME TypeOK, Coherencia, pc \notin {"pin1", "pin2", "fijar"},
           NEW v \in BOOLEAN, NEW sig \in Continuaciones,
           setDAH(v, sig), UNCHANGED mando, UNCHANGED paradas
    PROVE  Coherencia'
<1>0. {"plus", "plusCal"} \subseteq Continuaciones /\ Plus \in Int /\ 0 \in Int
      /\ {"CW", "CORTA"} \subseteq sentidoMovimiento
      /\ {"dah", "relativa"} \subseteq tipoPosicion
  BY CotasAssumption DEF Continuaciones, sentidoMovimiento, tipoPosicion
<1>1. CASE v /\ getDAH
  <2>1. pc' = sig /\ MandoCoherente'
    BY <1>1 DEF setDAH, MandoCoherente, Coherencia, Vivos, mando, paradas
  <2> QED
    BY <2>1 DEF Coherencia, Continuaciones, Vivos, mando, paradas
<1>2. CASE ~v /\ getDAH
  <2>1. setPosicion("CW", "relativa", Plus, sig)
    BY <1>2 DEF setDAH
  <2> QED
    BY <1>0, <2>1, SetPosicionCoherente
<1>3. CASE ~getDAH
  <2>1. PICK s \in Continuaciones : VeADAH(s)
    BY <1>0, <1>3 DEF setDAH
  <2>2. PICK m \in {"CW", "CORTA"} : setPosicion(m, "dah", 0, s)
    BY <2>1 DEF VeADAH
  <2> QED
    BY <1>0, <2>2, SetPosicionCoherente
<1> QED
  BY <1>1, <1>2, <1>3

(* An order that interrupts waits for the thread before it does anything.  *)
LEMMA MoverCoherente ==
    ASSUME TypeOK, Coherencia, pc \notin {"pin1", "pin2", "fijar"},
           NEW s \in {"PARADO", "CW", "CCW"}, NEW k \in Continuaciones,
           mover(s, k), UNCHANGED mando, UNCHANGED paradas
    PROVE  Coherencia'
<1>1. marco'.sm = s /\ marco'.tp = "manual"
  BY DEF mover, TypeOK, Marcos
<1>2. Vivos' = Vivos
  BY DEF Vivos, paradas
<1>3. CASE sentido = "PARADO"
  BY <1>1, <1>2, <1>3 DEF mover, Coherencia, MandoCoherente, mando, paradas
<1>4. CASE sentido # "PARADO"
  <2>1. pc' = "join" /\ MandoCoherente'
    BY <1>4 DEF mover, MandoCoherente, Coherencia, Vivos, mando, paradas
  <2> QED
    BY <1>1, <1>2, <2>1 DEF Coherencia, mando, paradas
<1> QED
  BY <1>3, <1>4

(* The orders, each with any parameters that CupulaFija allows.            *)
LEMMA OrdenMoverCoherente ==
    ASSUME TypeOK, Coherencia, NEW s \in {"PARADO", "CW", "CCW"}, OrdenMover(s)
    PROVE  Coherencia'
<1>1. "libre" \in Continuaciones
  BY DEF Continuaciones
<1> QED
  BY <1>1, MoverCoherente DEF OrdenMover, Libre

LEMMA OrdenPosicionCoherente ==
    ASSUME TypeOK, Coherencia, NEW sm \in sentidoMovimiento, NEW tp \in tipoPosicion,
           NEW n \in Int, ~(sm = "CORTA" /\ tp = "relativa"),
           OrdenPosicion(sm, tp, n) \/ OrdenAngulo(sm, tp, n)
    PROVE  Coherencia'
<1>1. "libre" \in Continuaciones
  BY DEF Continuaciones
<1>2. CASE OrdenPosicion(sm, tp, n)
  BY <1>1, <1>2, SetPosicionCoherente DEF OrdenPosicion, Libre
<1>3. CASE OrdenAngulo(sm, tp, n)
  <2>1. PosicionPedida(tp, n, maxPos, posicionAbsoluta) \in Int
    BY PedidaInt DEF TypeOK
  <2> QED
    BY <1>1, <1>3, <2>1, SetPosicionCoherente, DivideCoherente DEF OrdenAngulo, Libre
<1> QED
  BY <1>2, <1>3

LEMMA OrdenDAHCoherente ==
    ASSUME TypeOK, Coherencia, NEW v \in BOOLEAN, OrdenDAH(v) PROVE Coherencia'
<1>1. "libre" \in Continuaciones
  BY DEF Continuaciones
<1> QED
  BY <1>1, SetDAHCoherente DEF OrdenDAH, Libre

LEMMA OrdenCalibrarCoherente ==
    ASSUME TypeOK, Coherencia, NEW re, NEW adah, OrdenCalibrar(re, adah)
    PROVE  Coherencia'
<1>1. pc = "libre" /\ UNCHANGED mando /\ UNCHANGED paradas
  BY DEF OrdenCalibrar, Libre
<1>2. CASE UNCHANGED orden
  BY <1>1, <1>2 DEF Coherencia, MandoCoherente, Vivos, mando, paradas, orden
<1>3. CASE setDAH(TRUE, "calCorto") \/ setDAH(FALSE, "calArranque")
  <2>1. PICK v \in BOOLEAN, k \in Continuaciones : setDAH(v, k)
    BY <1>3 DEF Continuaciones
  <2> QED
    BY <1>1, <2>1, SetDAHCoherente
<1> QED
  BY <1>2, <1>3 DEF OrdenCalibrar

LEMMA CoherenciaOrden ==
    TypeOK /\ Coherencia /\ SinCortaRelativa /\ Orden => Coherencia'
<1> SUFFICES ASSUME TypeOK, Coherencia, SinCortaRelativa, Orden PROVE Coherencia'
  OBVIOUS
<1>1. ASSUME NEW s \in OrdenesMover, OrdenMover(s) PROVE Coherencia'
  BY <1>1, OrdenMoverCoherente, OrdenesAssumption
<1>2. ASSUME NEW o \in OrdenesPosicion \cup OrdenesAngulo,
             OrdenPosicion(o[1], o[2], o[3]) \/ OrdenAngulo(o[1], o[2], o[3])
      PROVE  Coherencia'
  <2>1. o[1] \in sentidoMovimiento /\ o[2] \in tipoPosicion /\ o[3] \in Int
        /\ ~(o[1] = "CORTA" /\ o[2] = "relativa")
    BY OrdenesAssumption DEF SinCortaRelativa, sentidoMovimiento, tipoPosicion
  <2> QED
    BY <1>2, <2>1, OrdenPosicionCoherente
<1>3. ASSUME NEW v \in OrdenesDAH, OrdenDAH(v) PROVE Coherencia'
  BY <1>3, OrdenDAHCoherente, OrdenesAssumption
<1>4. ASSUME NEW o \in OrdenesCalibrar, OrdenCalibrar(o[1], o[2])
      PROVE  Coherencia'
  BY <1>4, OrdenCalibrarCoherente
<1>5. ASSUME NEW v \in OrdenesFinalizar, OrdenFinalizar(v) PROVE Coherencia'
  <2>1. pc' \in {"finStop", "finParada", "finEnc", "libre"}
    BY <1>5 DEF OrdenFinalizar
  <2>2. pc = "libre" /\ UNCHANGED <<marco, mando, paradas>>
    BY <1>5 DEF OrdenFinalizar
  <2> QED
    BY <2>1, <2>2 DEF Coherencia, MandoCoherente, Vivos, mando, paradas
<1> QED
  BY <1>1, <1>2, <1>3, <1>4, <1>5 DEF Orden

LEMMA CoherenciaSigue == TypeOK /\ Coherencia /\ Sigue => Coherencia'
<1> SUFFICES ASSUME TypeOK, Coherencia, Sigue PROVE Coherencia'
  OBVIOUS
<1> USE DEF mando, paradas
<1>1. CASE Join
  <2>1. Vivos = {} /\ Vivos' = {}
    BY <1>1, HilosAssumption DEF Join, Coherencia, Vivos
  <2> QED
    BY <1>1, <2>1 DEF Join, Coherencia, MandoCoherente
<1>2. CASE Pin1
  <2>1. pin' = [pin EXCEPT ![Suelta(marco.sm)] = TRUE] /\ Suelta(marco.sm) \in Pines
    BY <1>2 DEF Pin1, Escribe, Suelta, Pines
  <2>2. Vivos = {} /\ Vivos' = {}
    BY <1>2 DEF Pin1, Coherencia, Vivos
  <2> QED
    BY <1>2, <2>1, <2>2 DEF Pin1, Coherencia, MandoCoherente, TypeOK
<1>3. CASE Pin2
  <2>1. Vivos = {} /\ Vivos' = {}
    BY <1>3 DEF Pin2, Coherencia, Vivos
  <2>2. pin' = Reles(marco.sm)
    <3>1. marco.sm \in {"PARADO", "CW", "CCW"} /\ pin[Suelta(marco.sm)]
      BY <1>3 DEF Pin2, Coherencia, TypeOK, Marcos, sentidoMovimiento
    <3>2. pin' = [pin EXCEPT ![Otro(Suelta(marco.sm))] = (marco.sm = "PARADO")]
      BY <1>3 DEF Pin2, Escribe
    <3> QED
      BY <3>1, <3>2 DEF Reles, Suelta, Otro, Activa, Pines, TypeOK
  <2> QED
    BY <1>3, <2>1, <2>2 DEF Pin2, Coherencia, MandoCoherente
<1>4. CASE Fijar
  <2>1. Vivos = {} /\ Vivos' = {} /\ pin' = Reles(marco.sm)
    BY <1>4 DEF Fijar, Coherencia, Vivos
  <2>2. marco.sm # "PARADO" => pin[Suelta(marco.sm)]
    BY <1>4 DEF Fijar, Coherencia, Reles, Suelta, Activa, Pines
  <2>3. pc' \in Continuaciones \cup {"lanzar"}
        /\ (pc' = "lanzar" => marco.tp # "manual")
    <3>1. marco.sig \in Continuaciones
      BY DEF TypeOK, Marcos
    <3>2. pc' = IF marco.tp = "manual" THEN marco.sig ELSE "lanzar"
      BY <1>4 DEF Fijar
    <3> QED
      BY <3>1, <3>2 DEF Continuaciones
  <2> QED
    BY <1>4, <2>1, <2>2, <2>3 DEF Fijar, Coherencia, MandoCoherente, Continuaciones
<1>5. CASE Lanzar
  <2>1. PICK h \in Hilos : /\ pStop' = h
          /\ hilo' = [hilo EXCEPT ![h] = [pc |-> "arranca", tp |-> marco.tp,
                                          ref |-> marco.ini]]
    BY <1>5 DEF Lanzar
  <2>2. Vivos = {} /\ Vivos' = {h} /\ hilo'[h].pc = "arranca"
    BY <1>5, <2>1 DEF Lanzar, Coherencia, Vivos, TypeOK
  <2>3. pc' \in Continuaciones
    BY <1>5 DEF Lanzar, TypeOK, Marcos
  <2> QED
    BY <1>5, <2>1, <2>2, <2>3 DEF Lanzar, Coherencia, MandoCoherente, Continuaciones
<1>6. CASE DespuesDeDAH
  <2>1. "CW" \in sentidoMovimiento /\ "relativa" \in tipoPosicion /\ Plus \in Int
    BY CotasAssumption DEF sentidoMovimiento, tipoPosicion
  <2>2. PICK k \in Continuaciones : setPosicion("CW", "relativa", Plus, k)
    BY <1>6 DEF DespuesDeDAH, Continuaciones
  <2> QED
    BY <1>6, <2>1, <2>2, SetPosicionCoherente DEF DespuesDeDAH
<1>7. CASE CalParada
  <2>1. "CCW" \in sentidoMovimiento /\ "manual" \in tipoPosicion
        /\ "calDah1" \in Continuaciones /\ 0 \in Int
    BY DEF sentidoMovimiento, tipoPosicion, Continuaciones
  <2> QED
    BY <1>7, <2>1, SetPosicionCoherente DEF CalParada
<1>8. CASE CalFin
  <2>1. "calMide" \in Continuaciones
    BY DEF Continuaciones
  <2> QED
    BY <1>8, <2>1, MoverCoherente DEF CalFin
<1>9. CASE CalCorto \/ CalArranque \/ CalDah1 \/ CalSale \/ CalDah2 \/ CalMide
  <2>1. /\ UNCHANGED <<mando, paradas>>
        /\ pc' \in {"libre", "calParada", "calSale", "calDah2", "calFin"}
        /\ pc \in Continuaciones \cup {"calSale", "calDah2"}
    BY <1>9 DEF CalCorto, CalArranque, CalDah1, CalSale, CalDah2, CalMide,
                Continuaciones
  <2> QED
    BY <2>1 DEF Coherencia, MandoCoherente, Vivos, Continuaciones
<1>10. CASE FinStop
  <2>1. Vivos = {} /\ Vivos' = {}
    BY <1>10, HilosAssumption DEF FinStop, Coherencia, Vivos
  <2> QED
    BY <1>10, <2>1 DEF FinStop, Coherencia, MandoCoherente
<1>11. CASE FinEnc
  BY <1>11 DEF FinEnc, Coherencia, MandoCoherente, Vivos
<1> QED
  BY <1>1, <1>2, <1>3, <1>4, <1>5, <1>6, <1>7, <1>8, <1>9, <1>10, <1>11 DEF Sigue

LEMMA CoherenciaParador ==
    ASSUME TypeOK, Coherencia, NEW h \in Hilos, Parador(h) PROVE Coherencia'
<1> USE DEF mando, paradas, orden
<1>a. h \in Vivos
  BY DEF Parador, Arranca, Vigila, Para1, Para2, Para3, Para, Espera, Vivos
<1>0. /\ h = pStop /\ sentido \in {"CW", "CCW"} /\ Vivos = {h}
      /\ pc \notin {"pin1", "pin2", "fijar", "lanzar"}
  BY <1>a DEF Coherencia, TypeOK, sentidoMovimiento
<1>1. CASE Arranca(h) \/ Vigila(h)
  <2>1. hilo[h].pc \notin {"para2", "para3"} /\ hilo'[h].pc \notin {"para2", "para3"}
    BY <1>1 DEF Arranca, Vigila, Camino, Espera, TypeOK
  <2>2. Vivos' = {h}
    BY <1>0, <1>1 DEF Arranca, Vigila, Camino, Espera, Vivos, TypeOK
  <2> QED
    BY <1>0, <1>1, <2>1, <2>2 DEF Arranca, Vigila, Coherencia, MandoCoherente
<1>2. CASE Para1(h) \/ Para2(h)
  <2>1. Vivos' = {h} /\ hilo'[h].pc \in {"para2", "para3"}
    <3>1. PICK a \in {"para2", "para3"} : hilo' = [hilo EXCEPT ![h].pc = a]
      BY <1>2 DEF Para1, Para2, Para
    <3>2. /\ hilo'[h].pc = a
          /\ \A g \in Hilos : g # h => hilo'[g] = hilo[g]
      BY <3>1 DEF TypeOK
    <3> QED
      BY <1>0, <3>2 DEF Vivos
  <2>2. /\ pin'["cw"]
        /\ hilo'[h].pc = "para3" => pin'["ccw"]
        /\ pin'[Suelta(sentido)]
    BY <1>0, <1>2 DEF Para1, Para2, Para, Escribe, Coherencia, TypeOK, Pines, Suelta
  <2> QED
    BY <1>0, <1>2, <2>1, <2>2 DEF Para1, Para2, Para, Coherencia, MandoCoherente
<1>3. CASE Para3(h)
  <2>1. Vivos' = {}
    BY <1>0, <1>3 DEF Para3, HiloNulo, Vivos, TypeOK
  <2>2. pin' = Reles("PARADO")
    BY <1>0, <1>3 DEF Para3, Coherencia, TypeOK, Reles, Activa, Pines
  <2> QED
    BY <1>0, <1>3, <2>1, <2>2 DEF Para3, Coherencia, MandoCoherente
<1> QED
  BY <1>1, <1>2, <1>3 DEF Parador

LEMMA CoherenciaAjena ==
    TypeOK /\ Coherencia /\ (Encoder \/ Cupula \/ UNCHANGED vars) => Coherencia'
<1> SUFFICES ASSUME Coherencia, Encoder \/ Cupula \/ UNCHANGED vars PROVE Coherencia'
  OBVIOUS
<1>1. UNCHANGED <<orden, sentido, pin, paradas>>
  BY DEF Encoder, EncInicio, EncLee, EncMira, EncCuenta, EncDah, EncCorriente, EncFin,
         Cupula, Gira, vars, paradas, orden, mando
<1> QED
  BY <1>1 DEF Coherencia, MandoCoherente, Vivos, orden, paradas

LEMMA CoherenciaPaso ==
    TypeOK /\ Coherencia /\ SinCortaRelativa /\ [Next]_vars => Coherencia'
<1> SUFFICES ASSUME TypeOK, Coherencia, SinCortaRelativa, [Next]_vars PROVE Coherencia'
  OBVIOUS
<1>1. ASSUME NEW h \in Hilos, Divide(h) PROVE Coherencia'
  <2>1. pc \notin {"pin1", "pin2", "fijar"}
    BY <1>1 DEF Divide, Coherencia, Vivos
  <2> QED
    BY <1>1, <2>1, DivideCoherente DEF Divide
<1> QED
  BY <1>1, CoherenciaOrden, CoherenciaSigue, CoherenciaParador, CoherenciaAjena
  DEF Next

(* From the initial state on, a live stop thread, a movement and main      *)
(* inside mover exclude each other: the inductive invariant behind the     *)
(* next three theorems.  A relative order by the short way breaks it, so   *)
(* the theorem assumes that nobody gives one.                              *)
THEOREM Coherente == SinCortaRelativa => (Spec => []Coherencia)
<1> SUFFICES ASSUME SinCortaRelativa PROVE Spec => []Coherencia
  OBVIOUS
<1>1. TypeOK /\ Coherencia /\ [Next]_vars => Coherencia'
  BY CoherenciaPaso
<1> QED
  BY <1>1, CoherenciaInicial, TipoCorrecto, PTL DEF Spec

(* finalizarThreads(stop) can always reach the thread that is running: no  *)
(* stop thread outlives the pStop that points to it.                       *)
THEOREM UnParador == SinCortaRelativa => (Spec => []UnSoloParador)
<1>1. Coherencia => UnSoloParador
  BY DEF Coherencia, UnSoloParador
<1> QED
  BY <1>1, Coherente, PTL

(* When sentido says PARADO, and so the next order would be accepted, the  *)
(* relays are at rest, unless main or the stop thread is writing them.     *)
THEOREM Mando == SinCortaRelativa => (Spec => []MandoCoherente)
<1>1. Coherencia => MandoCoherente
  BY DEF Coherencia
<1> QED
  BY <1>1, Coherente, PTL

(***************************************************************************)
(* Every step of CupulaFija is a step of Maniobras or leaves it alone.     *)
(***************************************************************************)
LEMMA ManiobrasPaso ==
    TypeOK /\ InterbloqueoActuadores /\ Coherencia /\ [Next]_vars
    => [M!Next]_(M!vars)
<1> SUFFICES ASSUME TypeOK, InterbloqueoActuadores, Coherencia, [Next]_vars
             PROVE  [M!Next]_(M!vars)
  OBVIOUS
<1> USE DEF M!Next, M!vars, M!Arrancar, M!Vigilar, M!Frenar, M!Soltar
<1>0. ASSUME UNCHANGED pin, UNCHANGED Vivos PROVE [M!Next]_(M!vars)
  BY <1>0 DEF SentidoMotor
<1>1. CASE Pin1 \/ Pin2
  <2>1. Vivos = {} /\ Vivos' = {}
    BY <1>1 DEF Pin1, Pin2, Coherencia, Vivos, paradas
  <2>2. \A p \in Pines : pin[p] \in BOOLEAN
    BY DEF TypeOK
  <2>3. CASE Pin1
    <3>1. pin' = [pin EXCEPT ![Suelta(marco.sm)] = TRUE]
      BY <2>3 DEF Pin1, Escribe
    <3>2. Suelta(marco.sm) \in Pines
      BY DEF Suelta, Pines
    <3>3. SentidoMotor' \in {SentidoMotor, "PARADO"}
      BY <3>1, <3>2 DEF InterbloqueoActuadores, SentidoMotor, Pines, TypeOK
    <3> QED
      BY <2>1, <3>3
  <2>4. CASE Pin2
    <3>1. /\ pin' = [pin EXCEPT ![Otro(Suelta(marco.sm))] = (marco.sm = "PARADO")]
          /\ pin[Suelta(marco.sm)]
      BY <2>4 DEF Pin2, Escribe, Coherencia
    <3> QED
      BY <2>1, <2>2, <3>1 DEF SentidoMotor, Suelta, Otro, Pines, TypeOK
  <2> QED
    BY <1>1, <2>3, <2>4
<1>2. CASE Lanzar
  <2>1. Vivos = {} /\ UNCHANGED pin
    BY <1>2 DEF Lanzar, Coherencia, mando
  <2>2. pin = Reles(sentido) /\ sentido \in {"CW", "CCW"}
    BY <1>2, <2>1
    DEF Lanzar, Coherencia, MandoCoherente, TypeOK, sentidoMovimiento
  <2>3. SentidoMotor \in {"CW", "CCW"}
    BY <2>2 DEF SentidoMotor, Reles, Activa, Pines
  <2> QED
    BY <2>1, <2>3 DEF SentidoMotor
<1>3. ASSUME NEW h \in Hilos, Para1(h) \/ Para2(h) PROVE [M!Next]_(M!vars)
  <2>1. PICK a \in {"para2", "para3"} : hilo' = [hilo EXCEPT ![h].pc = a]
    BY <1>3 DEF Para1, Para2, Para
  <2>2. Vivos # {} /\ Vivos' # {}
    <3>1. h \in Vivos
      BY <1>3 DEF Para1, Para2, Para, Vivos
    <3>2. hilo'[h].pc = a
      BY <2>1 DEF TypeOK
    <3> QED
      BY <3>1, <3>2 DEF Vivos
  <2>3. PICK p \in Pines : pin' = [pin EXCEPT ![p] = TRUE]
    BY <1>3 DEF Para1, Para2, Para, Escribe, Pines
  <2>4. SentidoMotor' \in {SentidoMotor, "PARADO"}
    BY <2>3 DEF InterbloqueoActuadores, SentidoMotor, Pines, TypeOK
  <2> QED
    BY <2>2, <2>4
<1>4. ASSUME NEW h \in Hilos, Para3(h) PROVE [M!Next]_(M!vars)
  <2>1. h \in Vivos /\ UNCHANGED pin
    BY <1>4 DEF Para3, Vivos
  <2>2. SentidoMotor = "PARADO"
    BY <1>4, <2>1 DEF Para3, Coherencia, SentidoMotor
  <2>3. Vivos' = {}
    BY <1>4, <2>1 DEF Para3, HiloNulo, Coherencia, Vivos, TypeOK
  <2> QED
    BY <2>1, <2>2, <2>3 DEF SentidoMotor
<1>5. ASSUME NEW h \in Hilos, Arranca(h) \/ Vigila(h) PROVE [M!Next]_(M!vars)
  <2>1. UNCHANGED Vivos
    BY <1>5 DEF Arranca, Vigila, Camino, Espera, Vivos, TypeOK
  <2> QED
    BY <1>0, <1>5, <2>1 DEF Arranca, Vigila, mando
<1>6. CASE Orden
  <2>1. UNCHANGED hilo /\ UNCHANGED pin
    BY <1>6, OrdenSigue
    DEF Orden, OrdenMover, OrdenPosicion, OrdenAngulo, OrdenDAH, OrdenCalibrar,
        OrdenFinalizar, paradas, mando
  <2> QED
    BY <1>0, <2>1 DEF Vivos
<1>7. CASE Sigue /\ ~Pin1 /\ ~Pin2 /\ ~Lanzar
  <2>1. UNCHANGED hilo /\ UNCHANGED pin
    BY <1>7
    DEF Sigue, Join, Fijar, DespuesDeDAH, CalCorto, CalArranque, CalParada, CalDah1,
        CalSale, CalDah2, CalFin, CalMide, FinStop, FinEnc, paradas, mando
  <2> QED
    BY <1>0, <2>1 DEF Vivos
<1>8. CASE Encoder \/ Cupula \/ UNCHANGED vars
  <2>1. UNCHANGED hilo /\ UNCHANGED pin
    BY <1>8 DEF Encoder, EncInicio, EncLee, EncMira, EncCuenta, EncDah, EncCorriente,
                EncFin, Cupula, Gira, vars, paradas, mando
  <2> QED
    BY <1>0, <2>1 DEF Vivos
<1>9. ASSUME NEW h \in Hilos, Divide(h) PROVE [M!Next]_(M!vars)
  BY <1>0, <1>9 DEF Divide, Vivos, paradas, mando
<1> QED
  BY <1>1, <1>2, <1>3, <1>4, <1>5, <1>6, <1>7, <1>8, <1>9 DEF Next, Parador, Sigue

LEMMA ManiobrasInicial == Init => M!Init
BY DEF Init, M!Init, SentidoMotor, EnReposo, Pines, Vivos, HiloNulo

(* The fixed dome implements the safety part of Maniobras.                 *)
THEOREM Implementa == SinCortaRelativa => (Spec => M!Seguro)
<1> SUFFICES ASSUME SinCortaRelativa PROVE Spec => M!Seguro
  OBVIOUS
<1>1. Spec => []TypeOK /\ []InterbloqueoActuadores /\ []Coherencia
  BY TipoCorrecto, Interbloqueo, Coherente
<1> QED
  BY <1>1, ManiobrasInicial, ManiobrasPaso, PTL DEF Spec, M!Seguro

(***************************************************************************)
(* In simulation the encoder makes out of the relays what sentido says,    *)
(* however late it looks at them.                                          *)
(***************************************************************************)
MiraBien == CASE sentido = "CW"  -> Pulso = 1
              [] sentido = "CCW" -> Pulso = -1
              [] OTHER           -> pc \in {"pin1", "pin2", "fijar"}

LEMMA MiraPaso ==
    ASSUME Simulacion, TypeOK, Coherencia, Next, enc.pc = "mira", enc'.pc = "cuenta"
    PROVE  MiraBien
<1>1. CASE EncMira
  <2>1. Pulso # 0
    BY <1>1 DEF EncMira, TypeOK
  <2>2. CASE sentido \in {"CW", "CCW"}
    BY <2>1, <2>2 DEF MiraBien, Coherencia, Suelta, Activa, Pulso
  <2>3. CASE sentido \notin {"CW", "CCW"}
    <3>1. sentido = "PARADO" /\ Vivos = {}
      BY <2>3 DEF Coherencia, TypeOK, sentidoMovimiento
    <3>2. pin # Reles("PARADO")
      BY <2>1 DEF Pulso, Reles, Activa, Pines
    <3> QED
      BY <3>1, <3>2 DEF MiraBien, Coherencia, MandoCoherente
  <2> QED
    BY <2>2, <2>3
<1>2. CASE Encoder /\ ~EncMira
  BY <1>2 DEF Encoder, EncInicio, EncLee, EncCuenta, EncDah, EncCorriente, EncFin
<1>3. CASE UNCHANGED enc
  BY <1>3
<1>4. Orden => UNCHANGED enc
  BY DEF Orden, OrdenMover, OrdenPosicion, OrdenAngulo, OrdenDAH, OrdenCalibrar,
         OrdenFinalizar
<1>5. Sigue => UNCHANGED enc
  BY DEF Sigue, Join, Pin1, Pin2, Fijar, Lanzar, DespuesDeDAH, CalCorto, CalArranque,
         CalParada, CalDah1, CalSale, CalDah2, CalFin, CalMide, FinStop, FinEnc
<1>6. (\E h \in Hilos : Parador(h) \/ Divide(h)) \/ Cupula => UNCHANGED enc
  BY DEF Parador, Divide, Arranca, Vigila, Para1, Para2, Para, Para3, Cupula, Gira
<1> QED
  BY <1>1, <1>2, <1>3, <1>4, <1>5, <1>6 DEF Next

(* When the encoder decides to count a pulse it is in the direction that   *)
(* the program says, or main is between the writes of mover.  Nothing is   *)
(* claimed of the moment the pulse is counted: main may have begun another *)
(* movement by then.                                                       *)
THEOREM MiraCorrecto == Simulacion /\ SinCortaRelativa => (Spec => MiraSegunSentido)
<1> SUFFICES ASSUME Simulacion, SinCortaRelativa PROVE Spec => MiraSegunSentido
  OBVIOUS
<1>1. TypeOK /\ Coherencia /\ [Next]_vars =>
        [enc.pc = "mira" /\ enc'.pc = "cuenta" => MiraBien]_vars
  BY MiraPaso
<1>2. Spec => []TypeOK /\ []Coherencia
  BY TipoCorrecto, Coherente
<1>3. [enc.pc = "mira" /\ enc'.pc = "cuenta" => MiraBien]_vars =>
      [enc.pc = "mira" /\ enc'.pc = "cuenta" =>
         CASE sentido = "CW"  -> Pulso = 1
           [] sentido = "CCW" -> Pulso = -1
           [] OTHER           -> pc \in {"pin1", "pin2", "fijar"}]_vars
  BY DEF MiraBien
<1> QED
  BY <1>1, <1>2, <1>3, PTL DEF Spec, MiraSegunSentido
=============================================================================
