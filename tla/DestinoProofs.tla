---------------------------- MODULE DestinoProofs ----------------------------
(***************************************************************************)
(* Where the monitored movements end and how far they take the dome, in    *)
(* simulation, with a slow dome and a client that waits: for every size of *)
(* the dome and every target of the right kind.                            *)
(***************************************************************************)
EXTENDS EncoderProofs

(***************************************************************************)
(* Arithmetic.                                                             *)
(***************************************************************************)
(* One more and one less, modulo the turn.                                 *)
LEMMA RestoVecino ==
    ASSUME NEW a \in Int, NEW r \in 0 .. N - 1, (r - a) % N = 0
    PROVE  /\ (a + 1) % N = IF r = N - 1 THEN 0 ELSE r + 1
           /\ (a - 1) % N = IF r = 0 THEN N - 1 ELSE r - 1
<1>0. /\ N \in Nat \ {0} /\ N \in Int /\ -N \in Int /\ r \in Int
      /\ r - a \in Int /\ a + 1 \in Int /\ a - 1 \in Int
  BY NAssumption
<1>1. ((r - a) + N) % N = 0 /\ ((r - a) - N) % N = 0
  BY <1>0, SumaMultiplos, UnaVueltaEsCero
<1>2. (a + 1) % N = IF r = N - 1 THEN 0 ELSE r + 1
  <2>1. ASSUME NEW s \in 0 .. N - 1, (s - (a + 1)) % N = 0 PROVE s = (a + 1) % N
    BY <2>1, <1>0, RestoUnico
  <2>2. CASE r = N - 1
    <3>1. 0 - (a + 1) = (r - a) - N /\ 0 \in 0 .. N - 1
      BY <2>2, <1>0
    <3> QED
      BY <2>1, <2>2, <3>1, <1>1
  <2>3. CASE r # N - 1
    <3>1. (r + 1) - (a + 1) = r - a /\ r + 1 \in 0 .. N - 1
      BY <2>3, <1>0
    <3> QED
      BY <2>1, <2>3, <3>1
  <2> QED
    BY <2>2, <2>3
<1>3. (a - 1) % N = IF r = 0 THEN N - 1 ELSE r - 1
  <2>1. ASSUME NEW s \in 0 .. N - 1, (s - (a - 1)) % N = 0 PROVE s = (a - 1) % N
    BY <2>1, <1>0, RestoUnico
  <2>2. CASE r = 0
    <3>1. (N - 1) - (a - 1) = (r - a) + N /\ N - 1 \in 0 .. N - 1
      BY <2>2, <1>0
    <3> QED
      BY <2>1, <2>2, <3>1, <1>1
  <2>3. CASE r # 0
    <3>1. (r - 1) - (a - 1) = r - a /\ r - 1 \in 0 .. N - 1
      BY <2>3, <1>0
    <3> QED
      BY <2>1, <2>3, <3>1
  <2> QED
    BY <2>2, <2>3
<1> QED
  BY <1>2, <1>3

LEMMA RestoSiguiente ==
    ASSUME NEW a \in Int
    PROVE  /\ a % N \in 0 .. N - 1
           /\ (a + 1) % N = IF a % N = N - 1 THEN 0 ELSE (a % N) + 1
           /\ (a - 1) % N = IF a % N = 0 THEN N - 1 ELSE (a % N) - 1
<1>1. a % N \in 0 .. N - 1
  BY NAssumption
<1>2. ((a % N) - a) % N = 0
  <2>1. (a - (a % N)) % N = 0 /\ 0 % N = 0 /\ a - (a % N) \in Int /\ 0 \in Int
    BY NAssumption
  <2>2. (a % N) - a = 0 - (a - (a % N))
    BY <1>1
  <2> QED
    BY <2>1, <2>2, SumaMultiplos
<1> QED
  BY <1>1, <1>2, RestoVecino

(* Where setAngulo sends the dome.                                         *)
LEMMA GradosEnVuelta ==
    ASSUME NEW q \in -359 .. 359
    PROVE  DivC(q * N, 360) \in 1 - N .. N - 1 /\ (q >= 0 => DivC(q * N, 360) >= 0)
<1>0. N \in Nat \ {0}
  BY NAssumption
<1> DEFINE x == q * N
           y == 359 * N
<1>1. x \in Int /\ y \in Int /\ x <= y /\ -y <= x /\ y < 360 * N /\ (q >= 0 => x >= 0)
  BY <1>0
<1> HIDE DEF x, y
<1>2. DivC(x, 360) \in 1 - N .. N - 1 /\ (x >= 0 => DivC(x, 360) >= 0)
  BY <1>0, <1>1 DEF DivC
<1> QED
  BY <1>1, <1>2 DEF x

LEMMA AnguloEnVuelta ==
    ASSUME NEW p \in -1 .. N - 1 PROVE DivC(p * 360, N) \in -360 .. 359
<1>0. N \in Nat \ {0}
  BY NAssumption
<1>1. CASE p = -1
  <2>1. DivC(-360, N) = -(360 \div N)
    BY <1>0 DEF DivC
  <2>2. 360 \div N \in 0 .. 360
    BY <1>0
  <2> QED
    BY <2>1, <2>2, <1>1
<1>2. CASE p # -1
  <2>1. p * 360 \in Nat /\ p * 360 < 360 * N
    BY <1>0, <1>2
  <2>2. (p * 360) \div N \in 0 .. 359
    BY <2>1, <1>0
  <2> QED
    BY <2>1, <2>2, <1>0 DEF DivC
<1> QED
  BY <1>1, <1>2

LEMMA PedidaEnVuelta ==
    ASSUME NEW p \in -1 .. N - 1
    PROVE  /\ \A n \in -1 .. 359 : p # -1 =>
                 PosicionPedida("absoluta", n, N, p) \in 0 .. N - 1
           /\ \A n \in -359 .. 359 : PosicionPedida("relativa", n, N, p) \in -N .. N
<1>0. N \in Nat \ {0}
  BY NAssumption
<1>1. ASSUME NEW n \in -1 .. 359, p # -1
      PROVE  PosicionPedida("absoluta", n, N, p) \in 0 .. N - 1
  BY <1>0, <1>1, GradosEnVuelta DEF PosicionPedida, getPosicion
<1>2. ASSUME NEW n \in -359 .. 359
      PROVE  PosicionPedida("relativa", n, N, p) \in -N .. N
  <2>1. getAngulo(-1, N, p) \in -360 .. 359
    BY <1>0, AnguloEnVuelta DEF getAngulo
  <2>2. Plegado(getAngulo(-1, N, p) + n) \in -359 .. 359
    <3>1. \A m \in -719 .. 718 : Plegado(m) \in -359 .. 359
      BY DEF Plegado
    <3> DEFINE g == getAngulo(-1, N, p)
    <3>2. g \in -360 .. 359
      BY <2>1
    <3> HIDE DEF g
    <3>3. g + n \in -719 .. 718
      BY <3>2
    <3>4. Plegado(g + n) \in -359 .. 359
      BY <3>1, <3>3
    <3> QED
      BY <3>4 DEF g
  <2>3. \A q \in -359 .. 359 : getPosicion(q, N, p) \in -N .. N
    BY <1>0, GradosEnVuelta DEF getPosicion
  <2> QED
    BY <2>2, <2>3 DEF PosicionPedida
<1> QED
  BY <1>1, <1>2

(***************************************************************************)
(* The steps.  Viaje needs the agreement of the counters (ConteoFiel) and  *)
(* that nothing but the movement in course is alive (Coherencia).          *)
(***************************************************************************)
LEMMA ViajeInicial == Init => Viaje
<1> SUFFICES ASSUME Init PROVE Viaje
  OBVIOUS
<1>1. Vivos = {}
  BY DEF Init, Vivos, HiloNulo
<1> QED
  BY <1>1 DEF Init, Viaje, EnPreparacion, MarcoNulo

(* A thread depends on the counters, the targets and the direction only.   *)
LEMMA ViajeIgual ==
    ASSUME Simulacion, Viaje, EnPreparacion', UNCHANGED <<sentido, hilo, cuenta, fines>>
    PROVE  Viaje'
<1>1. getDAH' = getDAH /\ Vivos' = Vivos
  BY DEF getDAH, Vivos, cuenta
<1>2. ASSUME NEW h \in Vivos, EnMarcha(h) PROVE EnMarcha(h)'
  <2>1. /\ FaltaCW(h)' = FaltaCW(h) /\ FaltaCCW(h)' = FaltaCCW(h)
        /\ EnDestino(h)' = EnDestino(h) /\ Pedido(hilo[h].tp)' = Pedido(hilo[h].tp)
    BY <1>1 DEF FaltaCW, FaltaCCW, EnDestino, Pedido, cuenta, fines
  <2> QED
    BY <2>1, <1>2 DEF EnMarcha, EnLaVuelta, cuenta
<1> QED
  BY <1>1, <1>2 DEF Viaje

(* A step that leaves no thread alive.                                     *)
LEMMA ViajeSolo == ASSUME EnPreparacion', Vivos' = {} PROVE Viaje'
BY DEF Viaje

LEMMA ViajeSetPosicion ==
    ASSUME Simulacion, TypeOK, Coherencia, Cuentas, Viaje, pc \in {"libre", "plus"},
           EnLaVuelta,
           NEW sm \in sentidoMovimiento, NEW tp \in tipoPosicion, NEW n \in Int,
           NEW sig \in {"libre", "plus"}, sig = "plus" => tp # "manual",
           ~(sm = "CORTA" /\ tp = "relativa"),
           tp = "absoluta" => posicionAbsoluta = -1 \/ n \in 0 .. N - 1,
           tp = "relativa" => n \in -N .. N,
           setPosicion(sm, tp, n, sig), UNCHANGED <<mando, cuenta, paradas, stop>>
    PROVE  Viaje'
<1>0. EnLaVuelta' /\ EnPreparacion /\ posicionRelativa \in Int
  BY DEF EnLaVuelta, cuenta, Viaje, TypeOK
<1>1. CASE Rechaza(sm, tp)
  <2>1. EnPreparacion'
    BY <1>0, <1>1 DEF setPosicion, EnPreparacion, MarcoNulo
  <2> QED
    BY <2>1, <1>1, ViajeIgual DEF setPosicion, mando, paradas
<1>2. CASE ~Rechaza(sm, tp) /\ Acepta(sm, tp, n, sig)
  <2>1. Vivos' = {}
    BY <1>2 DEF Rechaza, Coherencia, Vivos, paradas
  <2>2. SentidoFinal(sm, tp, n) # "CORTA"
    BY <1>2 DEF Rechaza, SentidoFinal, sentidoMasCorto, tipoPosicion, sentidoMovimiento
  <2>3. /\ marco'.tp = tp /\ marco'.sig = sig /\ marco'.ini = posicionRelativa
        /\ pc' = "pin1"
    BY <1>2, <2>2 DEF Acepta, TypeOK, Marcos
  <2>4. tp # "manual" => Pedido(tp)'
    <3>1. tp = "absoluta" => posicionAbsoluta # -1 /\ posicionAbsolutaFinal' = n
      BY <1>2 DEF Rechaza, Acepta
    <3>2. tp = "relativa" => posicionRelativaFinal' = posicionRelativa + n
      BY <1>2 DEF Rechaza, Acepta
    <3> QED
      BY <3>1, <3>2, <1>0 DEF Pedido, cuenta, tipoPosicion
  <2>5. EnPreparacion'
    BY <1>0, <2>3, <2>4 DEF EnPreparacion, cuenta
  <2> QED
    BY <2>1, <2>5, ViajeSolo
<1> QED
  BY <1>1, <1>2, NoDivide DEF setPosicion

LEMMA ViajeSetDAH ==
    ASSUME Alcanzable, TypeOK, Coherencia, Cuentas, Viaje, pc = "libre", EnLaVuelta,
           NEW v \in BOOLEAN, setDAH(v, "libre"), UNCHANGED <<mando, cuenta, paradas, stop>>
    PROVE  Viaje'
<1>0. /\ {"CW", "CORTA"} \subseteq sentidoMovimiento
      /\ {"relativa", "dah"} \subseteq tipoPosicion
      /\ Plus \in Int /\ Plus \in -N .. N /\ 0 \in Int /\ Simulacion
  BY CotasAssumption, NAssumption DEF Alcanzable, Prudente, sentidoMovimiento, tipoPosicion
<1>1. CASE v /\ getDAH
  <2>1. EnPreparacion'
    BY <1>1 DEF setDAH, Viaje, EnPreparacion, MarcoNulo
  <2> QED
    BY <2>1, <1>0, <1>1, ViajeIgual DEF setDAH, mando, paradas
<1>2. ASSUME NEW sig \in {"libre", "plus"}, VeADAH(sig) PROVE Viaje'
  <2>1. PICK s \in {"CW", "CORTA"} : setPosicion(s, "dah", 0, sig)
    BY <1>2 DEF VeADAH
  <2> QED
    BY <2>1, <1>0, ViajeSetPosicion
<1>3. CASE ~v /\ getDAH
  BY <1>3, <1>0, ViajeSetPosicion DEF setDAH
<1> QED
  BY <1>1, <1>2, <1>3 DEF setDAH

LEMMA ViajeOrden ==
    ASSUME Alcanzable, TypeOK, Coherencia, ConteoFiel, Viaje, Orden PROVE Viaje'
<1> USE DEF orden
<1>0. /\ Simulacion /\ Paciente /\ SinCortaRelativa /\ EnPreparacion
      /\ OrdenesFinalizar \cap {"todos", "stop"} = {}
      /\ maxPos = N /\ posicionAbsoluta \in -1 .. N - 1 /\ N \in Nat \ {0}
      /\ posicionRelativa \in Int /\ Cuentas
  BY NAssumption DEF Alcanzable, Prudente, Viaje, ConteoFiel, Cuentas, TypeOK
<1>1. Cabe => EnLaVuelta
  BY <1>0, CotasAssumption DEF Alcanzable, Cabe, EnLaVuelta, abs
<1>2. Libre => pc = "libre" /\ sentido = "PARADO" /\ Vivos = {}
  BY <1>0 DEF Libre, Coherencia
<1>3. ASSUME NEW sm \in OrdenesMover, OrdenMover(sm) PROVE Viaje'
  <2>1. EnPreparacion'
    BY <1>3, <1>0, <1>2 DEF OrdenMover, mover, EnPreparacion, TypeOK, Marcos
  <2> QED
    BY <2>1, <1>3, <1>2, ViajeSolo DEF OrdenMover, Vivos, paradas
<1>4. ASSUME NEW o \in OrdenesPosicion, Cabe, OrdenPosicion(o[1], o[2], o[3]) PROVE Viaje'
  <2>1. /\ o[1] \in sentidoMovimiento /\ o[2] \in tipoPosicion /\ o[3] \in Int
        /\ ~(o[1] = "CORTA" /\ o[2] = "relativa")
    BY <1>0, OrdenesAssumption DEF SinCortaRelativa
  <2>2. /\ o[2] = "absoluta" => o[3] \in 0 .. N - 1
        /\ o[2] = "relativa" => o[3] \in -N .. N
    BY DEF Alcanzable
  <2> QED
    BY <2>1, <2>2, <1>0, <1>1, <1>2, <1>4, ViajeSetPosicion DEF OrdenPosicion
<1>5. ASSUME NEW o \in OrdenesAngulo, Cabe, OrdenAngulo(o[1], o[2], o[3]) PROVE Viaje'
  <2> DEFINE n == PosicionPedida(o[2], o[3], maxPos, posicionAbsoluta)
  <2>1. /\ o[1] \in sentidoMovimiento /\ o[2] \in tipoPosicion /\ o[3] \in Int
        /\ ~(o[1] = "CORTA" /\ o[2] = "relativa")
    BY <1>0, OrdenesAssumption DEF SinCortaRelativa, sentidoMovimiento
  <2>2. /\ o[2] = "absoluta" => o[3] \in -1 .. 359
        /\ o[2] = "relativa" => o[3] \in -359 .. 359
    BY DEF Alcanzable
  <2>3. /\ o[2] = "absoluta" => posicionAbsoluta = -1 \/ n \in 0 .. N - 1
        /\ o[2] = "relativa" => n \in -N .. N
    BY <2>2, <1>0, PedidaEnVuelta
  <2>4. n \in Int
    BY <2>1, PedidaInt DEF TypeOK
  <2>5. setPosicion(o[1], o[2], n, "libre")
    BY <1>0, <1>5, NoDivide DEF OrdenAngulo
  <2> HIDE DEF n
  <2> QED
    BY <2>1, <2>3, <2>4, <2>5, <1>0, <1>1, <1>2, <1>5, ViajeSetPosicion DEF OrdenAngulo
<1>6. ASSUME NEW v \in OrdenesDAH, Cabe, OrdenDAH(v) PROVE Viaje'
  <2>1. v \in BOOLEAN
    BY OrdenesAssumption
  <2> QED
    BY <2>1, <1>0, <1>1, <1>2, <1>6, ViajeSetDAH DEF OrdenDAH
<1>7. ASSUME NEW o \in OrdenesCalibrar, OrdenCalibrar(o[1], o[2]) PROVE Viaje'
  <2>1. ~o[1] /\ ~o[2] /\ maxPos > -1
    BY <1>0 DEF Alcanzable, Prudente
  <2>2. EnPreparacion' /\ Vivos' = {}
    BY <2>1, <1>0, <1>2, <1>7 DEF OrdenCalibrar, EnPreparacion, Vivos, paradas
  <2> QED
    BY <2>2, ViajeSolo
<1>8. ASSUME NEW v \in OrdenesFinalizar, OrdenFinalizar(v) PROVE Viaje'
  <2>1. v \in {"encoder", "encoderSimulator"}
    BY <1>0, OrdenesAssumption
  <2>2. EnPreparacion'
    BY <2>1, <1>0, <1>8 DEF OrdenFinalizar, EnPreparacion
  <2>3. UNCHANGED <<sentido, hilo, cuenta, fines>>
    BY <1>8 DEF OrdenFinalizar, mando, paradas
  <2> QED
    BY <2>2, <2>3, <1>0, ViajeIgual
<1> QED
  BY <1>3, <1>4, <1>5, <1>6, <1>7, <1>8 DEF Orden

LEMMA ViajeSigue ==
    ASSUME Alcanzable, TypeOK, Coherencia, ConteoFiel, Viaje, Sigue PROVE Viaje'
<1> USE DEF orden, mando, paradas
<1>0. Simulacion /\ EnPreparacion /\ Plus \in Int /\ Plus \in -N .. N
      /\ posicionRelativa \in Int /\ Cuentas
  BY NAssumption, CotasAssumption DEF Alcanzable, Prudente, Viaje, TypeOK, ConteoFiel
<1>1. CASE Pin1 \/ Pin2
  <2>1. /\ UNCHANGED <<sentido, hilo, cuenta, fines, marco, stop>>
        /\ pc \in {"pin1", "pin2"} /\ pc' \in {"pin2", "fijar"}
    BY <1>1 DEF Pin1, Pin2
  <2>2. EnPreparacion'
    BY <1>0, <2>1 DEF EnPreparacion, EnLaVuelta, Pedido, cuenta, fines
  <2> QED
    BY <2>1, <2>2, <1>0, ViajeIgual
<1>2. CASE Fijar
  <2>1. Vivos' = {}
    BY <1>2 DEF Fijar, Coherencia, Vivos
  <2>2. EnPreparacion'
    BY <1>0, <1>2 DEF Fijar, EnPreparacion, EnLaVuelta, Pedido, cuenta, fines, MarcoNulo
  <2> QED
    BY <2>1, <2>2, ViajeSolo
<1>3. CASE Lanzar
  <2>1. EnPreparacion'
    BY <1>0, <1>3 DEF Lanzar, EnPreparacion, EnLaVuelta, Pedido, cuenta, fines, MarcoNulo
  <2>2. PICK h \in Hilos \ Vivos :
           hilo' = [hilo EXCEPT ![h] = [pc |-> "arranca", tp |-> marco.tp, ref |-> marco.ini]]
    BY <1>3 DEF Lanzar
  <2>3. Vivos' = {h}
    BY <1>3, <2>2 DEF Lanzar, Coherencia, Vivos, TypeOK
  <2>4. EnMarcha(h)'
    <3>1. /\ hilo'[h].pc = "arranca" /\ hilo'[h].tp = marco.tp
          /\ hilo'[h].ref = posicionRelativa
      BY <1>0, <1>3, <2>2 DEF Lanzar, EnPreparacion, TypeOK
    <3>2. EnLaVuelta' /\ Pedido(marco.tp) /\ UNCHANGED <<cuenta, fines>>
      BY <1>0, <1>3 DEF Lanzar, EnPreparacion, EnLaVuelta, cuenta
    <3> QED
      BY <3>1, <3>2 DEF EnMarcha, Pedido, cuenta, fines
  <2> QED
    BY <2>1, <2>3, <2>4 DEF Viaje
<1>4. CASE DespuesDeDAH
  <2>1. pc = "plus" /\ EnLaVuelta /\ setPosicion("CW", "relativa", Plus, "libre")
    BY <1>0, <1>4 DEF DespuesDeDAH, EnPreparacion
  <2> QED
    BY <2>1, <1>0, <1>4, ViajeSetPosicion
       DEF DespuesDeDAH, sentidoMovimiento, tipoPosicion
<1>5. CASE FinEnc
  <2>1. EnPreparacion' /\ UNCHANGED <<sentido, hilo, cuenta, fines>>
    BY <1>0, <1>5 DEF FinEnc, EnPreparacion
  <2> QED
    BY <2>1, <1>0, ViajeIgual
<1> QED
  BY <1>0, <1>1, <1>2, <1>3, <1>4, <1>5
     DEF Sigue, Join, CalCorto, CalArranque, CalParada, CalDah1, CalSale, CalDah2,
         CalFin, CalMide, FinStop, EnPreparacion

(* A thread starts: a relative target that lies behind is put a turn away, *)
(* because the dome is within a turn of 0.                                 *)
LEMMA ArrancaFinal ==
    ASSUME TypeOK, maxPos = N, EnLaVuelta, Pedido("relativa")
    PROVE  /\ FinalAjustado("CW") \in posicionRelativa .. posicionRelativa + N
           /\ FinalAjustado("CCW") \in posicionRelativa - N .. posicionRelativa
<1>0. N \in Nat \ {0} /\ posicionRelativa \in Int /\ posicionRelativaFinal \in Int
  BY NAssumption DEF TypeOK
<1>1. DivC(posicionRelativa, maxPos) = 0
  BY <1>0 DEF DivC, EnLaVuelta
<1>2. (DivC(posicionRelativa, maxPos) + 1) * maxPos = N
  BY <1>0, <1>1
<1> QED
  BY <1>0, <1>2 DEF FinalAjustado, Pedido

LEMMA ViajeArranca ==
    ASSUME Alcanzable, TypeOK, Coherencia, ConteoFiel, Viaje, NEW h \in Hilos, Arranca(h)
    PROVE  Viaje'
<1> USE DEF orden, mando
<1>0. /\ Simulacion /\ EnPreparacion /\ maxPos = N /\ N \in Nat \ {0} /\ Cuentas
      /\ posicionRelativa \in Int /\ posicionAbsoluta \in -1 .. N - 1
      /\ h \in Vivos /\ EnMarcha(h) /\ sentido \in {"CW", "CCW"}
  BY NAssumption DEF Alcanzable, Prudente, Viaje, ConteoFiel, Cuentas, TypeOK, Arranca,
     Vivos, Coherencia, sentidoMovimiento
<1>1. /\ hilo[h].tp \in {"absoluta", "relativa", "dah", "vuelta"}
      /\ hilo[h].ref = posicionRelativa /\ EnLaVuelta /\ Pedido(hilo[h].tp)
  BY <1>0 DEF EnMarcha, Arranca
<1>2. EnPreparacion'
  <2>1. pc \notin {"pin1", "pin2", "fijar", "lanzar"} /\ UNCHANGED <<orden, stop, cuenta>>
    BY <1>0 DEF Arranca, Coherencia
  <2> QED
    BY <2>1, <1>0 DEF EnPreparacion, EnLaVuelta, cuenta
<1>3. Vivos' = {h}
  BY <1>0 DEF Arranca, Vivos, Coherencia, TypeOK, Camino
<1>4. /\ hilo'[h].tp = hilo[h].tp
      /\ hilo'[h].pc = Camino(hilo[h].tp, sentido)
      /\ hilo'[h].ref = IF hilo[h].tp \in {"absoluta", "relativa"} THEN posicionRelativa
                        ELSE IF sentido = "CW" THEN posicionRelativa + N
                                               ELSE posicionRelativa - N
      /\ hilo[h].tp = "relativa" => posicionRelativaFinal' = FinalAjustado(sentido)
      /\ UNCHANGED <<sentido, posicionRelativa, posicionAbsoluta, posicionAbsolutaFinal>>
  BY <1>0, <1>1 DEF Arranca, TypeOK, cuenta
<1>5. getDAH' = getDAH /\ (getDAH <=> posicionRelativa % N = 0)
      /\ posicionRelativa % N \in 0 .. N - 1
  BY <1>0, <1>4, DAHEnMultiplos DEF getDAH
<1>6. CASE sentido = "CW"
  <2>1. ASSUME hilo[h].tp = "relativa" PROVE FaltaCW(h)'
    <3>1. posicionRelativaFinal' \in posicionRelativa .. posicionRelativa + N
      BY <1>0, <1>1, <1>4, <1>6, <2>1, ArrancaFinal
    <3>2. hilo'[h].ref = posicionRelativa
      BY <1>4, <2>1
    <3> QED
      BY <1>0, <1>4, <2>1, <3>1, <3>2 DEF FaltaCW
  <2>2. ASSUME hilo[h].tp = "absoluta" PROVE FaltaCW(h)'
    <3>1. posicionAbsoluta # -1 /\ posicionAbsolutaFinal \in 0 .. N - 1
      BY <1>1, <2>2 DEF Pedido
    <3>2. /\ hilo'[h].ref = posicionRelativa
          /\ posicionAbsoluta > posicionAbsolutaFinal => hilo'[h].pc = "baja_sube"
      BY <1>0, <1>4, <1>6, <2>2, <3>1 DEF Camino
    <3> QED
      BY <1>0, <1>4, <2>2, <3>1, <3>2 DEF FaltaCW
  <2>3. ASSUME hilo[h].tp \in {"dah", "vuelta"} PROVE FaltaCW(h)'
    <3>1. hilo'[h].ref = posicionRelativa + N
      BY <1>4, <1>6, <2>3
    <3>2. getDAH' \/ 0 < posicionRelativa % N
      BY <1>0, <1>5
    <3> QED
      BY <1>0, <1>4, <1>5, <2>3, <3>1, <3>2 DEF FaltaCW
  <2>4. hilo'[h].pc \in {"sube", "baja_sube"} /\ (hilo'[h].pc = "baja_sube" => hilo[h].tp = "absoluta")
    BY <1>4, <1>6 DEF Camino
  <2>5. FaltaCW(h)'
    BY <1>1, <2>1, <2>2, <2>3
  <2>6. EnMarcha(h)'
    BY <1>1, <1>4, <1>6, <2>4, <2>5 DEF EnMarcha
  <2> QED
    BY <1>2, <1>3, <2>6 DEF Viaje
<1>7. CASE sentido = "CCW"
  <2>1. ASSUME hilo[h].tp = "relativa" PROVE FaltaCCW(h)'
    <3>1. posicionRelativaFinal' \in posicionRelativa - N .. posicionRelativa
      BY <1>0, <1>1, <1>4, <1>7, <2>1, ArrancaFinal
    <3>2. hilo'[h].ref = posicionRelativa
      BY <1>4, <2>1
    <3> QED
      BY <1>0, <1>4, <2>1, <3>1, <3>2 DEF FaltaCCW
  <2>2. ASSUME hilo[h].tp = "absoluta" PROVE FaltaCCW(h)'
    <3>1. posicionAbsoluta # -1 /\ posicionAbsolutaFinal \in 0 .. N - 1
      BY <1>1, <2>2 DEF Pedido
    <3>2. /\ hilo'[h].ref = posicionRelativa
          /\ posicionAbsoluta < posicionAbsolutaFinal => hilo'[h].pc = "sube_baja"
      BY <1>0, <1>4, <1>7, <2>2, <3>1 DEF Camino
    <3> QED
      BY <1>0, <1>4, <2>2, <3>1, <3>2 DEF FaltaCCW
  <2>3. ASSUME hilo[h].tp \in {"dah", "vuelta"} PROVE FaltaCCW(h)'
    <3>1. hilo'[h].ref = posicionRelativa - N
      BY <1>4, <1>7, <2>3
    <3>2. getDAH' \/ 0 < posicionRelativa % N
      BY <1>0, <1>5
    <3> QED
      BY <1>0, <1>4, <1>5, <2>3, <3>1, <3>2 DEF FaltaCCW
  <2>4. hilo'[h].pc \in {"baja", "sube_baja"} /\ (hilo'[h].pc = "sube_baja" => hilo[h].tp = "absoluta")
    BY <1>4, <1>7 DEF Camino
  <2>5. FaltaCCW(h)'
    BY <1>1, <2>1, <2>2, <2>3
  <2>6. EnMarcha(h)'
    BY <1>1, <1>4, <1>7, <2>4, <2>5 DEF EnMarcha
  <2> QED
    BY <1>2, <1>3, <2>6 DEF Viaje
<1> QED
  BY <1>0, <1>6, <1>7

(* A wait that ends has reached its target.                                *)
LEMMA ViajeVigila ==
    ASSUME Alcanzable, TypeOK, Coherencia, ConteoFiel, Viaje, NEW h \in Hilos, Vigila(h)
    PROVE  Viaje'
<1> USE DEF orden, mando
<1>0. /\ Simulacion /\ EnPreparacion /\ ~stop /\ N \in Nat \ {0} /\ Cuentas
      /\ {posicionRelativa, posicionAbsoluta, posicionRelativaFinal,
          posicionAbsolutaFinal, hilo[h].ref} \subseteq Int
      /\ h \in Vivos /\ EnMarcha(h) /\ hilo[h].pc \in Espera /\ SePasa(h)
      /\ UNCHANGED <<sentido, cuenta, fines, marco, pc, stop>>
  BY NAssumption DEF Alcanzable, Prudente, Viaje, ConteoFiel, TypeOK, Vigila,
     Vivos, EnPreparacion, Espera
<1>2. EnPreparacion'
  BY <1>0 DEF EnPreparacion, EnLaVuelta, Pedido, cuenta, fines
<1>3. Vivos' = {h}
  BY <1>0 DEF Vigila, Vivos, Coherencia, TypeOK
<1>4. /\ hilo'[h].tp = hilo[h].tp /\ hilo'[h].ref = hilo[h].ref
      /\ hilo'[h].pc = CASE hilo[h].pc = "baja_sube" -> "sube"
                          [] hilo[h].pc = "sube_baja" -> "baja"
                          [] OTHER -> "para1"
      /\ getDAH' = getDAH
  BY <1>0 DEF Vigila, TypeOK, getDAH, cuenta
<1>5. (getDAH <=> posicionRelativa % N = 0) /\ posicionRelativa % N \in 0 .. N - 1
  BY <1>0, DAHEnMultiplos
<1>6. CASE hilo[h].pc = "baja_sube"
  <2>1. hilo[h].tp = "absoluta" /\ posicionAbsoluta <= posicionAbsolutaFinal /\ FaltaCW(h)
        /\ sentido = "CW"
    BY <1>0, <1>6 DEF EnMarcha, SePasa, Cuenta, Meta
  <2>2. FaltaCW(h)'
    BY <1>0, <1>4, <1>6, <2>1 DEF FaltaCW, cuenta, fines
  <2> QED
    BY <1>0, <1>2, <1>3, <1>4, <1>6, <2>1, <2>2 DEF Viaje, EnMarcha
<1>7. CASE hilo[h].pc = "sube_baja"
  <2>1. hilo[h].tp = "absoluta" /\ posicionAbsoluta >= posicionAbsolutaFinal /\ FaltaCCW(h)
        /\ sentido = "CCW"
    BY <1>0, <1>7 DEF EnMarcha, SePasa, Cuenta, Meta
  <2>2. FaltaCCW(h)'
    BY <1>0, <1>4, <1>7, <2>1 DEF FaltaCCW, cuenta, fines
  <2> QED
    BY <1>0, <1>2, <1>3, <1>4, <1>7, <2>1, <2>2 DEF Viaje, EnMarcha
<1>8. CASE hilo[h].pc = "sube"
  <2>1. FaltaCW(h) /\ hilo'[h].pc = "para1"
    BY <1>0, <1>4, <1>8 DEF EnMarcha
  <2>2. EnDestino(h)
    <3>0. \/ hilo[h].tp = "dah" /\ getDAH
          \/ Cuenta(hilo[h].tp) >= Meta(h)
      BY <1>0, <1>8 DEF SePasa
    <3>1. CASE hilo[h].tp = "absoluta"
      BY <1>0, <1>8, <2>1, <3>0, <3>1 DEF FaltaCW, Cuenta, Meta, EnDestino
    <3>2. CASE hilo[h].tp = "relativa"
      BY <1>0, <2>1, <3>0, <3>2 DEF FaltaCW, Cuenta, Meta, EnDestino
    <3>3. CASE hilo[h].tp = "vuelta"
      BY <1>0, <2>1, <3>0, <3>3 DEF FaltaCW, Cuenta, Meta, EnDestino
    <3>4. CASE hilo[h].tp = "dah"
      BY <1>0, <1>5, <2>1, <3>0, <3>4 DEF FaltaCW, Cuenta, Meta, EnDestino
    <3> QED
      BY <1>0, <3>1, <3>2, <3>3, <3>4 DEF EnMarcha
  <2>3. EnDestino(h)'
    BY <2>2, <1>0, <1>4 DEF EnDestino, cuenta, fines
  <2> QED
    BY <1>0, <1>2, <1>3, <1>4, <2>1, <2>3 DEF Viaje, EnMarcha
<1>9. CASE hilo[h].pc = "baja"
  <2>1. FaltaCCW(h) /\ hilo'[h].pc = "para1"
    BY <1>0, <1>4, <1>9 DEF EnMarcha
  <2>2. EnDestino(h)
    <3>0. \/ hilo[h].tp = "dah" /\ getDAH
          \/ Cuenta(hilo[h].tp) <= Meta(h)
      BY <1>0, <1>9 DEF SePasa
    <3>1. CASE hilo[h].tp = "absoluta"
      BY <1>0, <1>9, <2>1, <3>0, <3>1 DEF FaltaCCW, Cuenta, Meta, EnDestino
    <3>2. CASE hilo[h].tp = "relativa"
      BY <1>0, <2>1, <3>0, <3>2 DEF FaltaCCW, Cuenta, Meta, EnDestino
    <3>3. CASE hilo[h].tp = "vuelta"
      BY <1>0, <2>1, <3>0, <3>3 DEF FaltaCCW, Cuenta, Meta, EnDestino
    <3>4. CASE hilo[h].tp = "dah"
      BY <1>0, <1>5, <2>1, <3>0, <3>4 DEF FaltaCCW, Cuenta, Meta, EnDestino
    <3> QED
      BY <1>0, <3>1, <3>2, <3>3, <3>4 DEF EnMarcha
  <2>3. EnDestino(h)'
    BY <2>2, <1>0, <1>4 DEF EnDestino, cuenta, fines
  <2> QED
    BY <1>0, <1>2, <1>3, <1>4, <2>1, <2>3 DEF Viaje, EnMarcha
<1> QED
  BY <1>0, <1>6, <1>7, <1>8, <1>9 DEF Espera

LEMMA ViajeParador ==
    ASSUME Alcanzable, TypeOK, Coherencia, ConteoFiel, Viaje, NEW h \in Hilos, Parador(h)
    PROVE  Viaje'
<1> USE DEF orden, mando
<1>0. Simulacion /\ EnPreparacion
  BY DEF Alcanzable, Prudente, Viaje
<1>1. ASSUME Para1(h) \/ Para2(h) PROVE Viaje'
  <2>1. /\ h \in Vivos /\ EnMarcha(h) /\ hilo[h].pc \in {"para1", "para2"}
        /\ UNCHANGED <<sentido, cuenta, fines, marco, pc, stop>>
        /\ hilo' = [hilo EXCEPT ![h].pc = IF hilo[h].pc = "para1" THEN "para2" ELSE "para3"]
    BY <1>1 DEF Para1, Para2, Para, Vivos, Viaje
  <2>2. EnPreparacion'
    BY <1>0, <2>1 DEF EnPreparacion, EnLaVuelta, Pedido, cuenta, fines
  <2>3. Vivos' = {h}
    BY <2>1 DEF Vivos, Coherencia, TypeOK
  <2>4. /\ hilo'[h].tp = hilo[h].tp /\ hilo'[h].ref = hilo[h].ref
        /\ hilo'[h].pc \in {"para2", "para3"} /\ getDAH' = getDAH
    BY <1>0, <2>1 DEF TypeOK, getDAH, cuenta
  <2>5. EnDestino(h)'
    BY <2>1, <2>4 DEF EnMarcha, EnDestino, cuenta, fines
  <2> QED
    BY <2>1, <2>2, <2>3, <2>4, <2>5 DEF Viaje, EnMarcha
<1>2. ASSUME Para3(h) PROVE Viaje'
  <2>1. Vivos' = {}
    BY <1>2 DEF Para3, Vivos, Coherencia, TypeOK, HiloNulo
  <2>2. EnPreparacion'
    <3>1. pc \notin {"pin1", "pin2", "fijar", "lanzar"} /\ UNCHANGED <<orden, stop, cuenta>>
      BY <1>2 DEF Para3, Coherencia, Vivos
    <3> QED
      BY <1>0, <3>1 DEF EnPreparacion, EnLaVuelta, cuenta
  <2> QED
    BY <2>1, <2>2, ViajeSolo
<1> QED
  BY <1>1, <1>2, ViajeArranca, ViajeVigila DEF Parador

(***************************************************************************)
(* The encoder counts a pulse: the dome goes one position on, and only     *)
(* while the thread that lives has not arrived.                            *)
(***************************************************************************)
LEMMA PasoAbsoluta ==
    ASSUME NEW a \in 0 .. N - 1
    PROVE  /\ operarPosicionAbsoluta(a, 1, N) = IF a = N - 1 THEN 0 ELSE a + 1
           /\ operarPosicionAbsoluta(a, -1, N) = IF a = 0 THEN N - 1 ELSE a - 1
           /\ operarPosicionAbsoluta(-1, 1, N) = -1
           /\ operarPosicionAbsoluta(-1, -1, N) = -1
BY NAssumption DEF operarPosicionAbsoluta

LEMMA PasoCW ==
    ASSUME TypeOK, TypeOK', Simulacion, Cuentas, Cuentas', NEW h \in Hilos,
           hilo[h].tp \in {"absoluta", "relativa", "dah", "vuelta"},
           hilo[h].pc \in {"sube", "baja_sube"},
           hilo[h].pc = "baja_sube" => hilo[h].tp = "absoluta",
           FaltaCW(h), ~SePasa(h),
           posicionRelativa' = posicionRelativa + 1,
           posicionAbsoluta' = operarPosicionAbsoluta(posicionAbsoluta, 1, N),
           UNCHANGED <<fines, hilo>>
    PROVE  FaltaCW(h)'
<1>0. /\ N \in Nat \ {0} /\ posicionAbsoluta \in -1 .. N - 1
      /\ {posicionRelativa, posicionRelativaFinal, posicionAbsolutaFinal, hilo[h].ref}
            \subseteq Int
      /\ hilo'[h] = hilo[h] /\ UNCHANGED <<posicionAbsolutaFinal, posicionRelativaFinal>>
  BY NAssumption DEF Cuentas, TypeOK, fines
<1>1. CASE hilo[h].tp = "absoluta"
  <2>1. posicionAbsoluta \in 0 .. N - 1 /\ posicionAbsolutaFinal \in 0 .. N - 1
    BY <1>0, <1>1 DEF FaltaCW
  <2>2. posicionAbsoluta' = IF posicionAbsoluta = N - 1 THEN 0 ELSE posicionAbsoluta + 1
    BY <2>1, PasoAbsoluta
  <2>3. CASE hilo[h].pc = "sube"
    <3>1. posicionAbsoluta < posicionAbsolutaFinal
      BY <1>0, <1>1, <2>1, <2>3 DEF SePasa, Cuenta, Meta
    <3> QED
      BY <1>0, <1>1, <2>1, <2>2, <2>3, <3>1 DEF FaltaCW
  <2>4. CASE hilo[h].pc = "baja_sube"
    <3>1. posicionAbsoluta > posicionAbsolutaFinal
      BY <1>0, <1>1, <2>1, <2>4 DEF SePasa, Cuenta, Meta
    <3>2. posicionRelativa - hilo[h].ref + posicionAbsolutaFinal - posicionAbsoluta <= 0
          /\ posicionRelativa >= hilo[h].ref
      BY <1>0, <1>1, <2>1, <2>4, <3>1 DEF FaltaCW
    <3> QED
      BY <1>0, <1>1, <2>1, <2>2, <2>4, <3>1, <3>2 DEF FaltaCW
  <2> QED
    BY <2>3, <2>4
<1>2. CASE hilo[h].tp = "relativa"
  <2>1. posicionRelativa < posicionRelativaFinal
    BY <1>0, <1>2 DEF SePasa, Cuenta, Meta
  <2> QED
    BY <1>0, <1>2, <2>1 DEF FaltaCW
<1>3. CASE hilo[h].tp \in {"dah", "vuelta"}
  <2>1. hilo[h].pc = "sube" /\ posicionRelativa < hilo[h].ref
        /\ (hilo[h].tp = "dah" => ~getDAH)
    BY <1>0, <1>3 DEF SePasa, Cuenta, Meta
  <2>2. posicionRelativa % N \in 0 .. N - 1
        /\ (posicionRelativa + 1) % N = IF posicionRelativa % N = N - 1 THEN 0
                                        ELSE (posicionRelativa % N) + 1
    BY <1>0, RestoSiguiente
  <2>3. getDAH' <=> posicionRelativa' % N = 0
    BY DAHDespues
  <2>4. posicionRelativa' \in hilo[h].ref - N .. hilo[h].ref
    BY <1>0, <1>3, <2>1 DEF FaltaCW
  <2>5. ASSUME hilo[h].tp = "dah"
        PROVE  getDAH' \/ posicionRelativa' - (hilo[h].ref - N) < posicionRelativa' % N
    <3>1. posicionRelativa - (hilo[h].ref - N) < posicionRelativa % N
      BY <2>1, <2>5 DEF FaltaCW
    <3> QED
      BY <1>0, <2>2, <2>3, <3>1
  <2> QED
    BY <1>0, <1>3, <2>4, <2>5 DEF FaltaCW
<1> QED
  BY <1>1, <1>2, <1>3

LEMMA PasoCCW ==
    ASSUME TypeOK, TypeOK', Simulacion, Cuentas, Cuentas', NEW h \in Hilos,
           hilo[h].tp \in {"absoluta", "relativa", "dah", "vuelta"},
           hilo[h].pc \in {"baja", "sube_baja"},
           hilo[h].pc = "sube_baja" => hilo[h].tp = "absoluta",
           FaltaCCW(h), ~SePasa(h),
           posicionRelativa' = posicionRelativa - 1,
           posicionAbsoluta' = operarPosicionAbsoluta(posicionAbsoluta, -1, N),
           UNCHANGED <<fines, hilo>>
    PROVE  FaltaCCW(h)'
<1>0. /\ N \in Nat \ {0} /\ posicionAbsoluta \in -1 .. N - 1
      /\ {posicionRelativa, posicionRelativaFinal, posicionAbsolutaFinal, hilo[h].ref}
            \subseteq Int
      /\ hilo'[h] = hilo[h] /\ UNCHANGED <<posicionAbsolutaFinal, posicionRelativaFinal>>
  BY NAssumption DEF Cuentas, TypeOK, fines
<1>1. CASE hilo[h].tp = "absoluta"
  <2>1. posicionAbsoluta \in 0 .. N - 1 /\ posicionAbsolutaFinal \in 0 .. N - 1
    BY <1>0, <1>1 DEF FaltaCCW
  <2>2. posicionAbsoluta' = IF posicionAbsoluta = 0 THEN N - 1 ELSE posicionAbsoluta - 1
    BY <2>1, PasoAbsoluta
  <2>3. CASE hilo[h].pc = "baja"
    <3>1. posicionAbsoluta > posicionAbsolutaFinal
      BY <1>0, <1>1, <2>1, <2>3 DEF SePasa, Cuenta, Meta
    <3> QED
      BY <1>0, <1>1, <2>1, <2>2, <2>3, <3>1 DEF FaltaCCW
  <2>4. CASE hilo[h].pc = "sube_baja"
    <3>1. posicionAbsoluta < posicionAbsolutaFinal
      BY <1>0, <1>1, <2>1, <2>4 DEF SePasa, Cuenta, Meta
    <3>2. hilo[h].ref - posicionRelativa + posicionAbsoluta - posicionAbsolutaFinal <= 0
          /\ posicionRelativa <= hilo[h].ref
      BY <1>0, <1>1, <2>1, <2>4, <3>1 DEF FaltaCCW
    <3> QED
      BY <1>0, <1>1, <2>1, <2>2, <2>4, <3>1, <3>2 DEF FaltaCCW
  <2> QED
    BY <2>3, <2>4
<1>2. CASE hilo[h].tp = "relativa"
  <2>1. posicionRelativa > posicionRelativaFinal
    BY <1>0, <1>2 DEF SePasa, Cuenta, Meta
  <2> QED
    BY <1>0, <1>2, <2>1 DEF FaltaCCW
<1>3. CASE hilo[h].tp \in {"dah", "vuelta"}
  <2>1. hilo[h].pc = "baja" /\ posicionRelativa > hilo[h].ref
        /\ (hilo[h].tp = "dah" => ~getDAH)
    BY <1>0, <1>3 DEF SePasa, Cuenta, Meta
  <2>2. posicionRelativa % N \in 0 .. N - 1
        /\ (posicionRelativa - 1) % N = IF posicionRelativa % N = 0 THEN N - 1
                                        ELSE (posicionRelativa % N) - 1
    BY <1>0, RestoSiguiente
  <2>3. (getDAH' <=> posicionRelativa' % N = 0) /\ (getDAH <=> posicionRelativa % N = 0)
    BY DAHDespues, DAHEnMultiplos
  <2>4. posicionRelativa' \in hilo[h].ref .. hilo[h].ref + N
    BY <1>0, <1>3, <2>1 DEF FaltaCCW
  <2>5. ASSUME hilo[h].tp = "dah"
        PROVE  (hilo[h].ref + N - posicionRelativa') + (posicionRelativa' % N) < N
    <3>1. (hilo[h].ref + N - posicionRelativa) + (posicionRelativa % N) < N
      BY <2>1, <2>5 DEF FaltaCCW
    <3> QED
      BY <1>0, <2>1, <2>2, <2>3, <2>5, <3>1
  <2> QED
    BY <1>0, <1>3, <2>4, <2>5 DEF FaltaCCW
<1> QED
  BY <1>1, <1>2, <1>3

LEMMA ViajeCuenta ==
    ASSUME Alcanzable, TypeOK, TypeOK', Coherencia, ConteoFiel, ConteoFiel', Viaje, EncCuenta
    PROVE  Viaje'
<1> USE DEF orden, mando, paradas
<1>0. /\ Simulacion /\ EnPreparacion /\ Cuentas /\ Cuentas' /\ maxPos = N
      /\ N \in Nat \ {0} /\ posicionRelativa \in Int /\ posicionAbsoluta \in -1 .. N - 1
      /\ UNCHANGED <<pc, marco, stop, sentido, hilo, fines>> /\ enc.dar
  BY NAssumption DEF Alcanzable, Prudente, Viaje, ConteoFiel, Cuentas, TypeOK, EncCuenta
<1>1. /\ \A h \in Vivos : hilo[h].pc \in Espera /\ ~SePasa(h)
      /\ MainAlDia /\ sentido # "PARADO" /\ pin = Reles(sentido)
  BY DEF EncCuenta, ConteoFiel, Espectadores, Atrasado
<1>2. EnPreparacion'
  <2>1. pc \in {"libre", "finEnc", "terminado"}
    BY <1>0, <1>1 DEF MainAlDia, EnPreparacion
  <2> QED
    BY <1>0, <2>1 DEF EnPreparacion
<1>3. Pulso = Salto /\ sentido \in {"CW", "CCW"}
      /\ (sentido = "CW" => Salto = 1) /\ (sentido = "CCW" => Salto = -1)
  <2>1. Pulso = Salto /\ sentido \in {"CW", "CCW"}
    BY <1>0, <1>1 DEF Cuentas, EncCuenta, Coherencia, TypeOK, sentidoMovimiento
  <2>2. /\ pin["cw"] = ("cw" # Activa(sentido)) /\ pin["ccw"] = ("ccw" # Activa(sentido))
        /\ enc.ant \in BOOLEAN
    BY <1>1 DEF Reles, Pines, TypeOK
  <2>3. Activa(sentido) = IF sentido = "CW" THEN "cw" ELSE "ccw"
    BY <1>0, <2>1 DEF Activa
  <2>4. CASE sentido = "CW"
    BY <2>1, <2>2, <2>3, <2>4 DEF Pulso, Salto
  <2>5. CASE sentido = "CCW"
    BY <2>1, <2>2, <2>3, <2>5 DEF Pulso, Salto
  <2> QED
    BY <2>1, <2>4, <2>5
<1>4. /\ posicionRelativa' = posicionRelativa + Salto
      /\ posicionAbsoluta' = operarPosicionAbsoluta(posicionAbsoluta, Salto, N)
  BY <1>0 DEF EncCuenta
<1>5. SUFFICES ASSUME NEW h \in Vivos PROVE EnMarcha(h)'
  BY <1>0, <1>2 DEF Viaje, Vivos
<1>6. /\ h \in Hilos /\ EnMarcha(h) /\ hilo[h].pc \in Espera /\ ~SePasa(h)
      /\ hilo'[h] = hilo[h]
  BY <1>0, <1>1 DEF Viaje, Vivos
<1>7. CASE hilo[h].pc \in {"sube", "baja_sube"}
  <2>1. sentido = "CW" /\ FaltaCW(h) /\ Salto = 1
    BY <1>3, <1>6, <1>7 DEF EnMarcha
  <2>2. FaltaCW(h)'
    BY <1>0, <1>4, <1>6, <1>7, <2>1, PasoCW DEF EnMarcha
  <2> QED
    BY <1>0, <1>6, <1>7, <2>1, <2>2 DEF EnMarcha
<1>8. CASE hilo[h].pc \in {"baja", "sube_baja"}
  <2>1. sentido = "CCW" /\ FaltaCCW(h) /\ Salto = -1
    BY <1>3, <1>6, <1>8 DEF EnMarcha
  <2>2. FaltaCCW(h)'
    BY <1>0, <1>4, <1>6, <1>8, <2>1, PasoCCW DEF EnMarcha
  <2> QED
    BY <1>0, <1>6, <1>8, <2>1, <2>2 DEF EnMarcha
<1> QED
  BY <1>6, <1>7, <1>8 DEF Espera

LEMMA ViajePaso ==
    /\ Alcanzable /\ TypeOK /\ TypeOK' /\ Coherencia
    /\ ConteoFiel /\ ConteoFiel' /\ Viaje /\ [Next]_vars
    => Viaje'
<1> SUFFICES ASSUME Alcanzable, TypeOK, TypeOK', Coherencia, ConteoFiel, ConteoFiel',
                    Viaje, [Next]_vars
             PROVE  Viaje'
  OBVIOUS
<1>0. Simulacion /\ Cuentas
  BY DEF Alcanzable, Prudente, ConteoFiel
<1>1. ASSUME UNCHANGED <<orden, sentido, fines, cuenta, hilo, stop>> PROVE Viaje'
  <2>1. EnPreparacion'
    BY <1>1 DEF Viaje, EnPreparacion, EnLaVuelta, Pedido, orden, fines, cuenta
  <2> QED
    BY <1>0, <1>1, <2>1, ViajeIgual
<1>2. CASE UNCHANGED vars \/ Cupula \/ (Encoder /\ ~EncCuenta)
  BY <1>1, <1>2
  DEF vars, mando, paradas, Cupula, Gira, Encoder, EncInicio, EncLee, EncMira, EncDah,
      EncCorriente, EncFin
<1> QED
  BY <1>0, <1>2, ViajeSigue, ViajeOrden, ViajeParador, ViajeCuenta, NoDivide
  DEF Next, Encoder

(* Every movement is where its targets and its direction say.              *)
THEOREM ViajeCorrecto == Alcanzable => (Spec => []Viaje)
<1> SUFFICES ASSUME Alcanzable PROVE Spec => []Viaje
  OBVIOUS
<1>1. Prudente
  BY DEF Alcanzable
<1>2. Spec => []Coherencia /\ []ConteoFiel /\ []TypeOK
  BY <1>1, Coherente, ConteoCoherente, TipoCorrecto DEF Prudente
<1>3. /\ TypeOK /\ TypeOK' /\ Coherencia /\ ConteoFiel /\ ConteoFiel' /\ Viaje /\ [Next]_vars
      => Viaje'
  BY ViajePaso
<1> QED
  BY <1>2, <1>3, ViajeInicial, PTL DEF Spec

(* A monitored movement never turns the dome more than once.               *)
THEOREM ComoMuchoUnaVuelta == Alcanzable => (Spec => []UnaVuelta)
<1> SUFFICES ASSUME Alcanzable PROVE Spec => []UnaVuelta
  OBVIOUS
<1>1. ASSUME TypeOK, Cuentas, Viaje PROVE UnaVuelta
  <2>1. SUFFICES ASSUME NEW h \in Vivos, hilo[h].pc \in Espera
                 PROVE  abs(posicionRelativa - Partida(h)) <= maxPos
    BY DEF UnaVuelta
  <2>2. /\ maxPos = N /\ N \in Nat \ {0} /\ EnMarcha(h)
        /\ {posicionRelativa, posicionRelativaFinal, posicionAbsoluta,
            posicionAbsolutaFinal, hilo[h].ref} \subseteq Int
        /\ posicionAbsoluta \in -1 .. N - 1
    BY <1>1, NAssumption DEF TypeOK, Cuentas, Viaje, Vivos
  <2>3. CASE hilo[h].pc \in {"sube", "baja_sube"}
    <3>1. FaltaCW(h) /\ hilo[h].tp \in {"absoluta", "relativa", "dah", "vuelta"}
      BY <2>2, <2>3 DEF EnMarcha
    <3>2. Partida(h) = IF hilo[h].tp \in {"absoluta", "relativa"}
                       THEN hilo[h].ref ELSE hilo[h].ref - N
      BY <2>2, <2>3, <3>1 DEF Partida, EnMarcha
    <3> QED
      BY <2>2, <3>1, <3>2 DEF FaltaCW, abs
  <2>4. CASE hilo[h].pc \in {"baja", "sube_baja"}
    <3>1. FaltaCCW(h) /\ hilo[h].tp \in {"absoluta", "relativa", "dah", "vuelta"}
      BY <2>2, <2>4 DEF EnMarcha
    <3>2. Partida(h) = IF hilo[h].tp \in {"absoluta", "relativa"}
                       THEN hilo[h].ref ELSE hilo[h].ref + N
      BY <2>2, <2>4, <3>1 DEF Partida, EnMarcha
    <3> QED
      BY <2>2, <3>1, <3>2 DEF FaltaCCW, abs
  <2> QED
    BY <2>1, <2>3, <2>4 DEF Espera
<1>2. Spec => []TypeOK /\ []ConteoFiel /\ []Viaje
  BY TipoCorrecto, ConteoCoherente, ViajeCorrecto DEF Alcanzable
<1>3. ConteoFiel => Cuentas
  BY DEF ConteoFiel
<1> QED
  BY <1>1, <1>2, <1>3, PTL

(* A movement nobody hurried ends where it was asked to.                   *)
THEOREM SiempreLlega == Alcanzable => (Spec => LlegaADestino)
<1> SUFFICES ASSUME Alcanzable PROVE Spec => LlegaADestino
  OBVIOUS
<1>1. Viaje => [\A h \in Hilos : Para3(h) /\ pc = "libre" => EnDestino(h)]_vars
  <2> SUFFICES ASSUME Viaje, NEW h \in Hilos, Para3(h) PROVE EnDestino(h)
    OBVIOUS
  <2> QED
    BY DEF Viaje, Vivos, Para3, EnMarcha
<1>2. Spec => []Viaje
  BY ViajeCorrecto
<1> QED
  BY <1>1, <1>2, PTL DEF LlegaADestino

(***************************************************************************)
(* The short way.                                                          *)
(***************************************************************************)
LEMMA Grado ==
    ASSUME NEW p \in 0 .. N - 1
    PROVE  /\ DivC(p * 360, N) \in 0 .. 359
           /\ DivC(p * 360, N) * N <= 360 * p
           /\ 360 * p < DivC(p * 360, N) * N + N
<1>0. N \in Nat \ {0}
  BY NAssumption
<1> DEFINE x == p * 360
<1>1. x \in Nat /\ x < 360 * N /\ x = 360 * p
  BY <1>0
<1> HIDE DEF x
<1>2. DivC(x, N) = x \div N
  BY <1>0, <1>1 DEF DivC
<1>3. x \div N \in Nat /\ (x \div N) * N <= x /\ x < (x \div N) * N + N
  <2>1. x = N * (x \div N) + (x % N) /\ x % N \in 0 .. N - 1 /\ x \div N \in Nat
    BY <1>0, <1>1
  <2>2. N * (x \div N) = (x \div N) * N
    BY <2>1, <1>0
  <2> HIDE DEF x
  <2> QED
    BY <1>0, <1>1, <2>1, <2>2
<1>4. x \div N <= 359
  BY <1>0, <1>1, <1>3
<1> QED
  BY <1>1, <1>2, <1>3, <1>4 DEF x

LEMMA Veces ==
    ASSUME NEW a \in Int, NEW b \in Int, NEW k \in Int
    PROVE  /\ b - a <= k => b * N <= a * N + k * N
           /\ b - a >= k => b * N >= a * N + k * N
<1>0. N \in Nat \ {0}
  BY NAssumption
<1>1. ASSUME NEW c \in Int, c >= 0 PROVE c * N >= 0
  BY <1>0, <1>1
<1>2. (k - (b - a)) * N = k * N - b * N + a * N /\ ((b - a) - k) * N = b * N - a * N - k * N
  BY <1>0
<1>3. a * N \in Int /\ b * N \in Int /\ k * N \in Int
  BY <1>0
<1>4. b - a <= k => (k - (b - a)) * N >= 0
  BY <1>1
<1>5. b - a >= k => ((b - a) - k) * N >= 0
  BY <1>1
<1> QED
  BY <1>2, <1>3, <1>4, <1>5

LEMMA Atajo ==
    ASSUME N <= 360, NEW p \in 0 .. N - 1, NEW q \in 0 .. N - 1
    PROVE  360 * Recorre(sentidoMasCorto(q, N, p), p, q) < 181 * N
<1>0. N \in Nat \ {0}
  BY NAssumption
<1> DEFINE a == DivC(p * 360, N)
           b == DivC(q * 360, N)
<1>1. /\ a \in 0 .. 359 /\ b \in 0 .. 359
      /\ a * N <= 360 * p /\ 360 * p < a * N + N
      /\ b * N <= 360 * q /\ 360 * q < b * N + N
  BY Grado
<1>2. sentidoMasCorto(q, N, p) = IF (abs(b - a) < 360 - abs(b - a)) = (b - a > 0)
                                 THEN "CW" ELSE "CCW"
  <2>1. getAngulo(q, N, p) = b /\ getAngulo(-1, N, p) = a
    BY <1>0 DEF getAngulo
  <2> QED
    BY <2>1 DEF sentidoMasCorto
<1> HIDE DEF a, b
<1> DEFINE A == a * N
           B == b * N
<1>3. A \in Int /\ B \in Int
  BY <1>0, <1>1
<1>a. A <= 360 * p /\ 360 * p < A + N /\ B <= 360 * q /\ 360 * q < B + N
  BY <1>1
<1>b. \A k \in Int : /\ b - a <= k => B <= A + k * N
                     /\ b - a >= k => B >= A + k * N
                     /\ a - b <= k => A <= B + k * N
                     /\ a - b >= k => A >= B + k * N
  BY <1>1, Veces
<1> HIDE DEF A, B
<1>4. /\ \A d \in 0 .. N - 1 : d % N = d
      /\ \A d \in 1 - N .. -1 : d % N = d + N
  BY <1>0
<1>5. CASE b - a \in 1 .. 179
  <2>1. sentidoMasCorto(q, N, p) = "CW"
    BY <1>1, <1>2, <1>5 DEF abs
  <2>2. B >= A + 1 * N /\ B <= A + 179 * N
    BY <1>1, <1>5, <1>b
  <2>3. q - p \in 0 .. N - 1 /\ 360 * (q - p) < 181 * N
    BY <1>0, <1>3, <1>a, <2>2
  <2> QED
    BY <1>4, <2>1, <2>3 DEF Recorre
<1>6. CASE b - a \in 180 .. 359
  <2>1. sentidoMasCorto(q, N, p) = "CCW"
    BY <1>1, <1>2, <1>6 DEF abs
  <2>2. B >= A + 180 * N
    BY <1>1, <1>6, <1>b
  <2>3. p - q \in 1 - N .. -1 /\ 360 * (p - q + N) < 181 * N
    BY <1>0, <1>3, <1>a, <2>2
  <2> QED
    BY <1>4, <2>1, <2>3 DEF Recorre
<1>7. CASE b - a \in -179 .. -1
  <2>1. sentidoMasCorto(q, N, p) = "CCW"
    BY <1>1, <1>2, <1>7 DEF abs
  <2>2. A >= B + 1 * N /\ A <= B + 179 * N
    BY <1>1, <1>7, <1>b
  <2>3. p - q \in 0 .. N - 1 /\ 360 * (p - q) < 181 * N
    BY <1>0, <1>3, <1>a, <2>2
  <2> QED
    BY <1>4, <2>1, <2>3 DEF Recorre
<1>8. CASE b - a \in -359 .. -180
  <2>1. sentidoMasCorto(q, N, p) = "CW"
    BY <1>1, <1>2, <1>8 DEF abs
  <2>2. A >= B + 180 * N
    BY <1>1, <1>8, <1>b
  <2>3. q - p \in 1 - N .. -1 /\ 360 * (q - p + N) < 181 * N
    BY <1>0, <1>3, <1>a, <2>2
  <2> QED
    BY <1>4, <2>1, <2>3 DEF Recorre
<1>9. CASE b = a
  <2>0. A = B
    BY <1>9 DEF A, B
  <2>1. p = q
    BY <1>0, <1>3, <1>a, <2>0
  <2> QED
    BY <1>0, <1>4, <2>1 DEF Recorre
<1> QED
  BY <1>1, <1>5, <1>6, <1>7, <1>8, <1>9

(* An order to the DAH asks for position 0.                                *)
DahEsCero == \A o \in OrdenesPosicion \cup OrdenesAngulo : o[2] = "dah" => o[3] = 0

LEMMA CortaPide ==
    ASSUME N <= 360, TypeOK, maxPos = N, posicionAbsoluta \in 0 .. N - 1,
           NEW tp \in tipoPosicion, tp # "relativa",
           NEW n, tp = "absoluta" => n \in 0 .. N - 1, tp = "dah" => n = 0,
           NEW sig, sig # "pin1", setPosicion("CORTA", tp, n, sig), pc' = "pin1"
    PROVE  360 * Recorre(marco'.sm, posicionAbsoluta, posicionAbsolutaFinal') < 181 * N
<1>0. ~Rechaza("CORTA", tp) /\ Acepta("CORTA", tp, n, sig)
  BY DEF setPosicion, DivideEntreCero
<1>1. tp \in {"absoluta", "dah"}
  BY <1>0 DEF Rechaza, tipoPosicion
<1>2. /\ SentidoFinal("CORTA", tp, n) = sentidoMasCorto(n, N, posicionAbsoluta)
      /\ posicionAbsolutaFinal' = n /\ n \in 0 .. N - 1
  <2>1. CASE tp = "absoluta"
    BY <1>0, <2>1 DEF Acepta, SentidoFinal
  <2>2. CASE tp = "dah"
    BY <1>0, <2>2, NAssumption DEF Acepta, SentidoFinal
  <2> QED
    BY <1>1, <2>1, <2>2
<1>3. marco' = [marco EXCEPT !.sm = SentidoFinal("CORTA", tp, n), !.tp = tp,
                             !.sig = sig, !.ini = posicionRelativa]
  BY <1>0 DEF Acepta
<1>4. marco'.sm = sentidoMasCorto(n, N, posicionAbsoluta)
  BY <1>2, <1>3 DEF TypeOK, Marcos
<1> QED
  BY <1>2, <1>4, Atajo

(* For every dome of up to 360 pulses the short way is less than half a    *)
(* turn and a degree, through the origin or not (CaminoCorto).             *)
THEOREM SiempreCorto == Alcanzable /\ DahEsCero /\ N <= 360 => (Spec => CaminoCorto)
<1> SUFFICES ASSUME Alcanzable, DahEsCero, N <= 360 PROVE Spec => CaminoCorto
  OBVIOUS
<1>1. ASSUME TypeOK, ConteoFiel, PorLaCorta, pc' = "pin1", posicionAbsoluta # -1
      PROVE  360 * Recorre(marco'.sm, posicionAbsoluta, posicionAbsolutaFinal') < 181 * N
  <2>1. maxPos = N /\ posicionAbsoluta \in 0 .. N - 1 /\ N \in Nat \ {0}
    BY <1>1, NAssumption DEF ConteoFiel, Cuentas
  <2>2. ASSUME NEW o \in OrdenesPosicion, o[1] = "CORTA", OrdenPosicion(o[1], o[2], o[3])
        PROVE  360 * Recorre(marco'.sm, posicionAbsoluta, posicionAbsolutaFinal') < 181 * N
    <3>1. /\ o[2] \in tipoPosicion /\ o[2] # "relativa"
          /\ o[2] = "absoluta" => o[3] \in 0 .. N - 1
          /\ o[2] = "dah" => o[3] = 0
      BY <2>2, OrdenesAssumption DEF Alcanzable, Prudente, SinCortaRelativa, DahEsCero
    <3>2. setPosicion("CORTA", o[2], o[3], "libre")
      BY <2>2 DEF OrdenPosicion
    <3> QED
      BY <1>1, <2>1, <3>1, <3>2, CortaPide
  <2>3. ASSUME NEW o \in OrdenesAngulo, o[1] = "CORTA", OrdenAngulo(o[1], o[2], o[3])
        PROVE  360 * Recorre(marco'.sm, posicionAbsoluta, posicionAbsolutaFinal') < 181 * N
    <3> DEFINE n == PosicionPedida(o[2], o[3], maxPos, posicionAbsoluta)
    <3>1. /\ o[2] \in tipoPosicion /\ o[2] # "relativa"
          /\ o[2] = "absoluta" => o[3] \in -1 .. 359
          /\ o[2] = "dah" => o[3] = 0
      BY <2>3, OrdenesAssumption DEF Alcanzable, Prudente, SinCortaRelativa, DahEsCero
    <3>2. o[2] = "absoluta" => n \in 0 .. N - 1
      <4>0. posicionAbsoluta \in -1 .. N - 1 /\ posicionAbsoluta # -1
        BY <2>1
      <4>1. \A m \in -1 .. 359 :
                PosicionPedida("absoluta", m, N, posicionAbsoluta) \in 0 .. N - 1
        BY <4>0, PedidaEnVuelta
      <4>2. CASE o[2] = "absoluta"
        <5>1. n = PosicionPedida("absoluta", o[3], N, posicionAbsoluta)
          BY <2>1, <4>2
        <5>2. o[3] \in -1 .. 359
          BY <3>1, <4>2
        <5> HIDE DEF n
        <5> QED
          BY <4>1, <5>1, <5>2
      <4> QED
        BY <4>2
    <3>3. o[2] = "dah" => n = 0
      BY <2>1, <3>1 DEF PosicionPedida, getPosicion, DivC
    <3>4. setPosicion("CORTA", o[2], n, "libre")
      BY <2>3, <3>1 DEF OrdenAngulo
    <3> HIDE DEF n
    <3> QED
      BY <1>1, <2>1, <3>1, <3>2, <3>3, <3>4, CortaPide
  <2>4. ASSUME NEW v \in OrdenesDAH, OrdenDAH(v), ~getDAH
        PROVE  360 * Recorre(marco'.sm, posicionAbsoluta, posicionAbsolutaFinal') < 181 * N
    <3>1. v \in BOOLEAN
      BY OrdenesAssumption
    <3>2. VeADAH("libre") \/ VeADAH("plus")
      BY <2>4, <3>1 DEF OrdenDAH, setDAH
    <3>3. setPosicion("CORTA", "dah", 0, "libre") \/ setPosicion("CORTA", "dah", 0, "plus")
      BY <1>1, <3>2 DEF VeADAH
    <3>4. "dah" \in tipoPosicion
      BY DEF tipoPosicion
    <3> QED
      BY <1>1, <2>1, <3>3, <3>4, CortaPide
  <2> QED
    BY <1>1, <2>2, <2>3, <2>4 DEF PorLaCorta
<1>2. TypeOK /\ ConteoFiel =>
        [PorLaCorta /\ pc' = "pin1" /\ posicionAbsoluta # -1 =>
           360 * Recorre(marco'.sm, posicionAbsoluta, posicionAbsolutaFinal') < 181 * N]_vars
  BY <1>1
<1>3. Spec => []TypeOK /\ []ConteoFiel
  BY TipoCorrecto, ConteoCoherente DEF Alcanzable
<1> QED
  BY <1>2, <1>3, PTL DEF CaminoCorto
=============================================================================
