---------------------------- MODULE EncoderProofs ----------------------------
(***************************************************************************)
(* What the encoder thread knows of the dome when the dome is slow, for a  *)
(* dome of any size: in the real mode the current of the mobile part       *)
(* follows the DAH sensor; in simulation, for a client that waits, the two *)
(* counters agree with the dome and a complete calibration measures it.    *)
(***************************************************************************)
EXTENDS CupulaFijaProofs, Trayecto

(* Half a pulse toggles the encoder pin and can be undone by another one.  *)
LEMMA MedioPulso ==
    ASSUME TypeOK, NEW d \in {1, -1}, Gira(d)
    PROVE  /\ \/ giro' = giro + d
              \/ d = 1 /\ giro = 2 * N - 1 /\ giro' = 0
              \/ d = -1 /\ giro = 0 /\ giro' = 2 * N - 1
           /\ PinEncoder' = ~PinEncoder
           /\ (giro' + (-d)) % (2 * N) = giro
<1> DEFINE m == 2 * N
<1>1. m \in Nat \ {0} /\ m > 1 /\ m % 2 = 0 /\ (m - 1) % 2 = 1
  BY NAssumption
<1>2. giro \in 0 .. m - 1
  BY DEF TypeOK
<1>3. giro' = (giro + d) % m
  BY DEF Gira
<1> HIDE DEF m
<1>4. \A x \in 0 .. m - 1 : x % m = x
  BY <1>1
<1>5. m % m = 0 /\ (-1) % m = m - 1
  BY <1>1
<1>6. CASE d = 1 /\ giro = m - 1
  <2>1. giro' = 0
    BY <1>1, <1>3, <1>5, <1>6
  <2>2. PinEncoder' /\ ~PinEncoder
    BY <1>1, <1>6, <2>1 DEF PinEncoder
  <2>3. (giro' + (-d)) % m = giro
    BY <1>5, <1>6, <2>1
  <2> QED
    BY <1>6, <2>1, <2>2, <2>3 DEF m
<1>7. CASE d = -1 /\ giro = 0
  <2>1. giro' = m - 1
    BY <1>1, <1>3, <1>5, <1>7
  <2>2. giro' + (-d) = m
    BY <1>1, <1>7, <2>1
  <2>3. (giro' + (-d)) % m = giro
    BY <1>5, <1>7, <2>2
  <2>4. PinEncoder /\ ~PinEncoder'
    BY <1>1, <1>7, <2>1 DEF PinEncoder
  <2>5. PinEncoder' = ~PinEncoder
    BY <2>4 DEF PinEncoder
  <2>6. giro' = 2 * N - 1 /\ (giro' + (-d)) % (2 * N) = giro
    BY <2>1, <2>3 DEF m
  <2> QED
    BY <1>7, <2>5, <2>6, Zenon
<1>8. CASE ~(d = 1 /\ giro = m - 1) /\ ~(d = -1 /\ giro = 0)
  <2>1. giro + d \in 0 .. m - 1 /\ giro \in Int
    BY <1>1, <1>2, <1>8
  <2>2. giro' = giro + d
    BY <1>3, <1>4, <2>1
  <2>3. (giro' + (-d)) % m = giro
    <3>1. giro' + (-d) = giro
      BY <2>1, <2>2
    <3> QED
      BY <1>2, <1>4, <3>1
  <2>4. (giro + d) % 2 = 0 <=> ~(giro % 2 = 0)
    BY <2>1
  <2>5. PinEncoder' = ~PinEncoder
    BY <2>2, <2>4 DEF PinEncoder
  <2> QED
    BY <2>2, <2>3, <2>5 DEF m
<1> QED
  BY <1>6, <1>7, <1>8

(* Only the encoder thread and the dome change what these proofs are about.*)
LEMMA RestoQuieto ==
    ASSUME Sigue \/ Orden \/ (\E h \in Hilos : Parador(h) \/ Divide(h)) \/ UNCHANGED vars
    PROVE  UNCHANGED <<enc, giro, corriente>>
<1>1. CASE Orden
  BY <1>1 DEF Orden, OrdenMover, OrdenPosicion, OrdenAngulo, OrdenDAH, OrdenCalibrar,
              OrdenFinalizar
<1>2. CASE Sigue
  BY <1>2 DEF Sigue, Join, Pin1, Pin2, Fijar, Lanzar, DespuesDeDAH, CalCorto,
              CalArranque, CalParada, CalDah1, CalSale, CalDah2, CalFin, CalMide,
              FinStop, FinEnc
<1>3. CASE \E h \in Hilos : Parador(h) \/ Divide(h)
  BY <1>3 DEF Parador, Divide, Arranca, Vigila, Para1, Para2, Para, Para3
<1>4. CASE UNCHANGED vars
  BY <1>4 DEF vars
<1> QED
  BY <1>1, <1>2, <1>3, <1>4

(***************************************************************************)
(* The current of the mobile part, in the real mode.  With a slow dome the *)
(* encoder thread has seen the last half pulse before the next one, and    *)
(* when it has it goes on to look at the sensor.                           *)
(***************************************************************************)
Corriente ==
    pc # "muerto" =>
        /\ enc.pc = "inicio" => ~corriente
        /\ enc.pc \in {"mira", "cuenta"} => PinEncoder # enc.ant
        /\ enc.pc \in {"dah", "corriente"} => PinEncoder = enc.ant
        /\ enc.pc = "corriente" /\ ~corriente => giro < AnchoDAH
        /\ corriente /\ enc.pc # "fin" => CercaDAH
        /\ corriente /\ enc.pc = "lee" /\ PinEncoder = enc.ant => giro < AnchoDAH
        /\ tension /\ ~corriente => fallos > 0

LEMMA EnSuSitio == ASSUME TypeOK, giro < AnchoDAH PROVE CercaDAH
<1>1. giro \in 0 .. 2 * N - 1 /\ 2 * N \in Nat \ {0}
  BY NAssumption DEF TypeOK
<1>2. (giro + 0) % (2 * N) = giro
  BY <1>1
<1> QED
  BY <1>2 DEF CercaDAH

LEMMA CorrienteGira ==
    ASSUME ~Simulacion, Puntual, TypeOK, Corriente, NEW d \in {1, -1}, Gira(d)
    PROVE  Corriente'
<1>1. PinEncoder' = ~PinEncoder /\ (giro' + (-d)) % (2 * N) = giro
  BY MedioPulso
<1>2. UNCHANGED <<pc, enc, corriente, tension, fallos>>
  BY DEF Gira, orden, mando
<1>3. pc = "muerto" \/ enc.pc = "fin" \/ (enc.pc = "lee" /\ PinEncoder = enc.ant)
  BY DEF Gira, AlDia
<1>4. CASE pc # "muerto" /\ corriente /\ enc.pc = "lee"
  <2>1. -d \in {-1, 0, 1} /\ (giro' + (-d)) % (2 * N) < AnchoDAH
    BY <1>1, <1>3, <1>4 DEF Corriente
  <2>2. CercaDAH'
    BY <2>1 DEF CercaDAH
  <2> QED
    BY <1>1, <1>2, <1>3, <1>4, <2>2 DEF Corriente
<1> QED
  BY <1>1, <1>2, <1>3, <1>4 DEF Corriente

LEMMA CorrienteEncoder ==
    ASSUME ~Simulacion, TypeOK, TypeOK', Corriente, Encoder PROVE Corriente'
<1>0. /\ UNCHANGED <<giro, pc>> /\ PinEncoder' = PinEncoder /\ CercaDAH' = CercaDAH
      /\ (getDAH <=> giro < AnchoDAH) /\ pc # "muerto"
  BY DEF Encoder, EncInicio, EncLee, EncMira, EncCuenta, EncDah, EncCorriente, EncFin,
         PinEncoder, CercaDAH, getDAH, orden
<1>1. CASE EncInicio
  BY <1>0, <1>1 DEF EncInicio, Corriente, mando
<1>2. CASE EncLee \/ EncFin
  BY <1>0, <1>2 DEF EncLee, EncFin, Corriente, TypeOK, mando
<1>3. CASE EncMira \/ EncCuenta
  <2>1. PinEncoder \in BOOLEAN
    BY DEF PinEncoder
  <2>2. /\ \/ enc'.pc = "dah" /\ enc'.ant = ~enc.ant
           \/ enc'.pc = "cuenta" /\ enc'.ant = enc.ant
        /\ enc.ant \in BOOLEAN /\ UNCHANGED <<corriente, tension, fallos>>
        /\ enc.pc \in {"mira", "cuenta"}
    BY <1>3 DEF EncMira, EncCuenta, TypeOK, mando
  <2> QED
    BY <1>0, <2>1, <2>2 DEF Corriente
<1>4. CASE EncDah
  <2>1. /\ enc'.ant = enc.ant /\ UNCHANGED <<corriente, tension, fallos>>
        /\ enc.pc \in {"dah", "lee"} /\ PinEncoder = enc.ant
    BY <1>0, <1>4 DEF EncDah, Corriente, TypeOK, mando
  <2>2. IF corriente = getDAH THEN enc'.pc = "lee" ELSE enc'.pc = "corriente"
    BY <1>4 DEF EncDah, TypeOK
  <2>3. (corriente = getDAH) <=> (corriente <=> giro < AnchoDAH)
    BY <1>0 DEF TypeOK, getDAH
  <2> QED
    BY <1>0, <2>1, <2>2, <2>3 DEF Corriente
<1>5. CASE EncCorriente
  <2>1. enc'.pc = "lee" /\ enc'.ant = enc.ant /\ enc.pc = "corriente"
    BY <1>5 DEF EncCorriente, TypeOK
  <2>2. corriente' <=> ~corriente
    BY <1>5, Zenon DEF EncCorriente
  <2>3. corriente' => giro < AnchoDAH /\ CercaDAH
    BY <1>0, <2>1, <2>2, EnSuSitio DEF Corriente
  <2>4. tension' /\ ~corriente' => fallos' > 0
    <3>1. CASE tension' = corriente'
      BY <3>1
    <3>2. CASE fallos' = fallos + 1
      BY <3>2 DEF TypeOK
    <3> QED
      BY <1>5, <3>1, <3>2, Zenon DEF EncCorriente
  <2> QED
    BY <1>0, <2>1, <2>3, <2>4 DEF Corriente
<1> QED
  BY <1>1, <1>2, <1>3, <1>4, <1>5 DEF Encoder

(* Main and the stop threads write the other two relays, and a program     *)
(* that has died does nothing.                                             *)
LEMMA CorrienteResto ==
    ASSUME TypeOK, TypeOK', Corriente, pc # "muerto",
           Sigue \/ Orden \/ (\E h \in Hilos : Parador(h) \/ Divide(h)) \/ UNCHANGED vars
    PROVE  Corriente'
<1> USE DEF mando
<1>1. UNCHANGED <<enc, giro, corriente>>
  BY RestoQuieto
<1>2. UNCHANGED tension /\ (fallos > 0 => fallos' > 0)
  <2>1. CASE Orden
    BY <2>1, OrdenSigue
  <2>2. CASE Pin1 \/ Pin2
    BY <2>2 DEF Pin1, Pin2, Escribe, TypeOK
  <2>3. CASE Sigue /\ ~Pin1 /\ ~Pin2
    BY <2>3 DEF Sigue, Join, Fijar, Lanzar, DespuesDeDAH, CalCorto, CalArranque,
                CalParada, CalDah1, CalSale, CalDah2, CalFin, CalMide, FinStop, FinEnc
  <2>4. ASSUME NEW h \in Hilos, Parador(h) \/ Divide(h)
        PROVE  UNCHANGED tension /\ (fallos > 0 => fallos' > 0)
    BY <2>4 DEF Parador, Divide, Arranca, Vigila, Para1, Para2, Para, Para3, Escribe, TypeOK
  <2>5. CASE UNCHANGED vars
    BY <2>5 DEF vars
  <2> QED
    BY <2>1, <2>2, <2>3, <2>4, <2>5
<1> QED
  BY <1>1, <1>2 DEF Corriente, CercaDAH, PinEncoder

LEMMA MuertoQueda == ASSUME pc = "muerto", [Next]_vars PROVE pc' = "muerto"
<1> USE DEF orden
<1>1. ~Sigue
  BY DEF Sigue, Join, Pin1, Pin2, Fijar, Lanzar, DespuesDeDAH, CalCorto, CalArranque,
         CalParada, CalDah1, CalSale, CalDah2, CalFin, CalMide, FinStop, FinEnc
<1>2. ~Orden
  BY DEF Orden, OrdenMover, OrdenPosicion, OrdenAngulo, OrdenDAH, OrdenCalibrar,
         OrdenFinalizar, Libre
<1>3. CASE Cupula \/ UNCHANGED vars
  BY <1>3 DEF Cupula, Gira, vars
<1> QED
  BY <1>1, <1>2, <1>3 DEF Next, Parador, Divide, Encoder

LEMMA CorrientePaso ==
    ~Simulacion /\ Puntual /\ TypeOK /\ TypeOK' /\ Corriente /\ [Next]_vars => Corriente'
<1> SUFFICES ASSUME ~Simulacion, Puntual, TypeOK, TypeOK', Corriente, [Next]_vars
             PROVE  Corriente'
  OBVIOUS
<1>1. CASE pc = "muerto"
  BY <1>1, MuertoQueda DEF Corriente
<1>2. CASE pc # "muerto"
  BY <1>2, CorrienteResto, CorrienteEncoder, CorrienteGira DEF Next, Cupula
<1> QED
  BY <1>1, <1>2

(* In the real mode, with a dome that is slow with respect to the threads, *)
(* the mobile part has power only in the zone of the DAH sensor or half a  *)
(* pulse away, whatever the orders, the interleavings and the size of the  *)
(* zone (runEncoder, setCorrienteCupulaMovil), unless the write that takes *)
(* it away fails; that the write that gives it fails does no harm.         *)
THEOREM CorrienteSegura == ~Simulacion /\ Puntual => (Spec => []CorrienteEnDAH)
<1> SUFFICES ASSUME ~Simulacion, Puntual PROVE Spec => []CorrienteEnDAH
  OBVIOUS
<1>1. Init => Corriente
  BY DEF Init, Corriente
<1>2. TypeOK /\ TypeOK' /\ Corriente /\ [Next]_vars => Corriente'
  BY CorrientePaso
<1>3. Corriente => CorrienteEnDAH
  BY DEF Corriente, CorrienteEnDAH
<1> QED
  BY <1>1, <1>2, <1>3, TipoCorrecto, PTL DEF Spec

(***************************************************************************)
(* Counting modulo a turn.                                                 *)
(***************************************************************************)
LEMMA SumaMultiplos ==
    ASSUME NEW a \in Int, NEW b \in Int, a % N = 0, b % N = 0
    PROVE  (a + b) % N = 0 /\ (a - b) % N = 0
<1>0. N \in Nat \ {0}
  BY NAssumption
<1>1. PICK k \in Int : a = k * N
  BY <1>0
<1>2. PICK l \in Int : b = l * N
  BY <1>0
<1>3. a + b = (k + l) * N /\ a - b = (k - l) * N
  BY <1>0, <1>1, <1>2
<1>4. \A n \in Int : (n * N) % N = 0
  BY <1>0
<1>5. k + l \in Int /\ k - l \in Int
  OBVIOUS
<1> QED
  BY <1>3, <1>4, <1>5

LEMMA UnaVueltaEsCero ==
    /\ N % N = 0 /\ (-N) % N = 0 /\ 0 % N = 0
    /\ \A a \in 1 - N .. N - 1 : a % N = 0 <=> a = 0
<1>0. N \in Nat \ {0}
  BY NAssumption
<1>1. N % N = 0 /\ 0 % N = 0 /\ (-N) % N = 0
  BY <1>0
<1>2. ASSUME NEW a \in 0 .. N - 1 PROVE a % N = a
  BY <1>0
<1>3. ASSUME NEW a \in 1 - N .. -1 PROVE a % N = a + N
  BY <1>0
<1> QED
  BY <1>0, <1>1, <1>2, <1>3

LEMMA RestoUnico ==
    ASSUME NEW a \in Int, NEW r \in 0 .. N - 1, (r - a) % N = 0 PROVE r = a % N
<1>0. N \in Nat \ {0}
  BY NAssumption
<1> DEFINE s == a % N
<1>1. s \in 0 .. N - 1 /\ (a - s) % N = 0
  BY <1>0
<1> HIDE DEF s
<1>2. ((r - a) + (a - s)) % N = 0
  <2>1. r - a \in Int /\ a - s \in Int
    BY <1>0, <1>1
  <2> QED
    BY <1>1, <2>1, SumaMultiplos
<1>3. (r - a) + (a - s) = r - s /\ r - s \in 1 - N .. N - 1
  BY <1>0, <1>1
<1>4. r - s = 0
  BY <1>2, <1>3, UnaVueltaEsCero
<1>5. r = s
  <2>1. r \in Int /\ s \in Int
    BY <1>0, <1>1
  <2> QED
    BY <1>4, <2>1
<1> QED
  BY <1>5 DEF s

(* The counters and the sensor of the simulator agree: the DAH is at the   *)
(* multiples of the relative counter, with an origin or without one.       *)
LEMMA OrigenEnMultiplos ==
    ASSUME NEW r \in Int, NEW a \in -1 .. N - 1, a # -1 => (r - a) % N = 0
    PROVE  a = 0 \/ (a = -1 /\ r % N = 0) <=> r % N = 0
<1>0. N \in Nat \ {0} /\ 0 \in Int /\ a \in Int
  BY NAssumption
<1>1. CASE a = -1
  BY <1>1
<1>2. CASE a = 0
  <2>1. r - a = r
    BY <1>2
  <2> QED
    BY <1>2, <2>1
<1>3. CASE a \in 1 .. N - 1
  <2>1. a % N # 0
    BY <1>0, <1>3, UnaVueltaEsCero
  <2>0. (r - a) % N = 0 /\ r - a \in Int
    BY <1>0, <1>3
  <2>2. r % N = 0 => (r - (r - a)) % N = 0
    BY <2>0, SumaMultiplos
  <2>3. r - (r - a) = a
    BY <1>0
  <2> QED
    BY <1>3, <2>1, <2>2, <2>3
<1> QED
  BY <1>0, <1>1, <1>2, <1>3

LEMMA DAHEnMultiplos ==
    ASSUME Simulacion, TypeOK, Cuentas
    PROVE  getDAH <=> posicionRelativa % N = 0
<1>1. posicionRelativa \in Int /\ posicionAbsoluta \in -1 .. N - 1
      /\ (posicionAbsoluta # -1 => (posicionRelativa - posicionAbsoluta) % N = 0)
  BY DEF TypeOK, Cuentas
<1>2. getDAH <=> posicionAbsoluta = 0 \/ (posicionAbsoluta = -1 /\ posicionRelativa % N = 0)
  BY DEF getDAH
<1> QED
  BY <1>1, <1>2, OrigenEnMultiplos

(* The same in the state a step leads to.                                  *)
LEMMA DAHDespues ==
    ASSUME Simulacion, TypeOK', Cuentas'
    PROVE  getDAH' <=> posicionRelativa' % N = 0
<1>1. posicionRelativa' \in Int /\ posicionAbsoluta' \in -1 .. N - 1
      /\ (posicionAbsoluta' # -1 => (posicionRelativa' - posicionAbsoluta') % N = 0)
  BY DEF TypeOK, Cuentas
<1>2. getDAH' <=> posicionAbsoluta' = 0 \/ (posicionAbsoluta' = -1 /\ posicionRelativa' % N = 0)
  BY DEF getDAH
<1> QED
  BY <1>1, <1>2, OrigenEnMultiplos

(* What half a pulse adds to the place of the dome.                        *)
LEMMA MedioPulsoPosicion ==
    ASSUME TypeOK, NEW d \in {1, -1}, Gira(d),
           NEW c \in {-1, 0, 1},
           c = (IF PinEncoder THEN IF d = 1 THEN 1 ELSE 0
                              ELSE IF d = -1 THEN -1 ELSE 0)
    PROVE  Posicion \in Int /\ Posicion' \in Int /\ (Posicion + c - Posicion') % N = 0
<1>0. giro \in 0 .. 2 * N - 1 /\ N \in Nat \ {0}
  BY NAssumption DEF TypeOK
<1>1. CASE giro' = giro + d
  <2>1. giro' = giro + d /\ giro \in Int
    BY <1>0, <1>1
  <2>2. Posicion' = Posicion + c
    <3>1. CASE giro % 2 = 0
      <4>1. (giro + 1) \div 2 = giro \div 2 /\ (giro + 2) \div 2 = giro \div 2 + 1
        BY <2>1, <3>1
      <4> QED
        BY <2>1, <3>1, <4>1 DEF Posicion, PinEncoder
    <3>2. CASE giro % 2 # 0
      <4>1. (giro + 2) \div 2 = (giro + 1) \div 2 /\ giro \div 2 = (giro + 1) \div 2 - 1
        BY <2>1, <3>2
      <4> QED
        BY <2>1, <3>2, <4>1 DEF Posicion, PinEncoder
    <3> QED
      BY <3>1, <3>2
  <2> QED
    BY <1>0, <2>2, UnaVueltaEsCero DEF Posicion
<1>2. CASE d = 1 /\ giro = 2 * N - 1 /\ giro' = 0
  <2>1. Posicion = N /\ Posicion' = 0 /\ ~PinEncoder
    BY <1>0, <1>2 DEF Posicion, PinEncoder
  <2> QED
    BY <1>0, <1>2, <2>1, UnaVueltaEsCero
<1>3. CASE d = -1 /\ giro = 0 /\ giro' = 2 * N - 1
  <2>1. Posicion = 0 /\ Posicion' = N /\ PinEncoder
    BY <1>0, <1>3 DEF Posicion, PinEncoder
  <2> QED
    BY <1>0, <1>3, <2>1, UnaVueltaEsCero
<1> QED
  BY <1>1, <1>2, <1>3, MedioPulso

(***************************************************************************)
(* ConteoFiel, one lemma per thread.                                       *)
(***************************************************************************)
LEMMA FielInicial == Prudente /\ Init => ConteoFiel
<1> SUFFICES ASSUME Prudente, Init PROVE ConteoFiel
  OBVIOUS
<1>0. N \in Nat \ {0}
  BY NAssumption
<1>1. enc.pc = "inicio" /\ giro = 0
  BY DEF Prudente, Init
<1>2. ~Atrasado /\ Posicion = 0
  BY <1>1 DEF Atrasado, Posicion
<1>3. Cuentas
  BY <1>0, <1>1, <1>2, UnaVueltaEsCero DEF Prudente, Init, Cuentas, Falta
<1>4. Medicion
  BY DEF Init, Medicion, MarcoNulo, EnMover
<1> QED
  BY <1>2, <1>3, <1>4 DEF ConteoFiel, Espectadores

LEMMA FielGira ==
    ASSUME Prudente, TypeOK, Coherencia, ConteoFiel, NEW d \in {1, -1}, Gira(d)
    PROVE  ConteoFiel'
<1> USE DEF orden, mando, fines, cuenta, calib, paradas
<1>0. Simulacion /\ Puntual
  BY DEF Prudente
<1>1. enc.pc = "lee" /\ PinEncoder = enc.ant /\ AlDia /\ pc # "muerto"
  BY <1>0 DEF Gira, AlDia, ConteoFiel, Cuentas
<1>2. ~Atrasado /\ Atrasado'
  BY <1>1, MedioPulso DEF Atrasado, Gira
<1>3. getDAH' = getDAH
  BY <1>0 DEF Gira, getDAH
<1> DEFINE c == IF PinEncoder THEN IF d = 1 THEN 1 ELSE 0
                              ELSE IF d = -1 THEN -1 ELSE 0
<1>4. Falta' = c /\ c \in {-1, 0, 1}
  <2>1. UNCHANGED <<pin, enc>> /\ pin = [EnReposo EXCEPT ![IF d = 1 THEN "cw" ELSE "ccw"] = FALSE]
    BY <1>0 DEF Gira, Empuja, Motor
  <2>2. /\ d = 1 => ~pin["cw"] /\ pin["ccw"]
        /\ d = -1 => pin["cw"] /\ ~pin["ccw"]
    BY <2>1 DEF EnReposo, Pines
  <2>3. /\ d = 1 => ~pin'["cw"] /\ pin'["ccw"]
        /\ d = -1 => pin'["cw"] /\ ~pin'["ccw"]
        /\ enc'.ant <=> PinEncoder
    BY <1>1, <2>1, <2>2
  <2>4. Falta' = Pulso'
    BY <1>2 DEF Falta
  <2>5. CASE d = 1 /\ PinEncoder
    <3>0. ~pin'["cw"] /\ pin'["ccw"] /\ enc'.ant
      BY <2>3, <2>5
    <3>1. Pulso' = 1 /\ c = 1
      BY <2>5, <3>0 DEF Pulso
    <3> QED
      BY <2>4, <3>1
  <2>6. CASE d = 1 /\ ~PinEncoder
    <3>0. ~pin'["cw"] /\ pin'["ccw"] /\ ~enc'.ant
      BY <2>3, <2>6
    <3>1. Pulso' = 0 /\ c = 0
      BY <2>6, <3>0 DEF Pulso
    <3> QED
      BY <2>4, <3>1
  <2>7. CASE d = -1 /\ PinEncoder
    <3>0. pin'["cw"] /\ ~pin'["ccw"] /\ enc'.ant
      BY <2>3, <2>7
    <3>1. Pulso' = 0 /\ c = 0
      BY <2>7, <3>0 DEF Pulso
    <3> QED
      BY <2>4, <3>1
  <2>8. CASE d = -1 /\ ~PinEncoder
    <3>0. pin'["cw"] /\ ~pin'["ccw"] /\ ~enc'.ant
      BY <2>3, <2>8
    <3>1. Pulso' = -1 /\ c = -1
      BY <2>8, <3>0 DEF Pulso
    <3> QED
      BY <2>4, <3>1
  <2> QED
    BY <2>5, <2>6, <2>7, <2>8
<1>5. Cuentas'
  <2>0. /\ posicionRelativa \in Int /\ posicionRelativa' = posicionRelativa
        /\ Posicion \in Int /\ Posicion' \in Int /\ (Posicion + c - Posicion') % N = 0
        /\ (posicionRelativa - Posicion) % N = 0
    <3>1. Falta = 0 /\ (posicionRelativa + Falta - Posicion) % N = 0
      BY <1>1, <1>2 DEF Falta, ConteoFiel, Cuentas
    <3>2. Posicion \in Int /\ Posicion' \in Int /\ (Posicion + c - Posicion') % N = 0
      BY <1>4, MedioPulsoPosicion
    <3>3. posicionRelativa \in Int /\ posicionRelativa' = posicionRelativa
      BY DEF TypeOK, Gira
    <3> HIDE DEF c
    <3>4. posicionRelativa + 0 - Posicion = posicionRelativa - Posicion
      BY <3>2, <3>3
    <3> QED
      BY <3>1, <3>2, <3>3, <3>4
  <2> HIDE DEF c
  <2>1. (posicionRelativa' + Falta' - Posicion') % N = 0
    <3>1. ((posicionRelativa - Posicion) + (Posicion + c - Posicion')) % N = 0
      BY <1>4, <2>0, SumaMultiplos
    <3>2. (posicionRelativa - Posicion) + (Posicion + c - Posicion')
          = posicionRelativa' + Falta' - Posicion'
      BY <1>4, <2>0
    <3> QED
      BY <3>1, <3>2
  <2> QED
    BY <1>1, <2>1 DEF Gira, ConteoFiel, Cuentas
<1>6. Espectadores'
  <2>1. \A h \in Vivos : hilo[h].pc \in Espera /\ ~SePasa(h)
    BY <1>1 DEF AlDia
  <2>2. MainAlDia
    BY <1>1 DEF AlDia
  <2>3. pin = Reles(sentido)
    BY <2>1, <2>2 DEF Coherencia, MandoCoherente, MainAlDia, Espera
  <2>4. sentido # "PARADO"
    BY <1>0, <2>3 DEF Gira, Empuja, Motor, Reles, Activa, EnReposo, Pines
  <2>5. MainAlDia' /\ Vivos' = Vivos
    BY <1>3, <2>2 DEF Gira, MainAlDia, Vivos
  <2>6. ASSUME NEW h \in Vivos' PROVE (hilo[h].pc \in Espera /\ ~SePasa(h))'
    BY <1>3, <2>1, <2>5 DEF Gira, SePasa, Cuenta, Meta
  <2>7. (sentido # "PARADO" /\ pin = Reles(sentido))'
    BY <2>3, <2>4 DEF Gira, Reles, Activa
  <2> QED
    BY <2>5, <2>6, <2>7 DEF Espectadores
<1>7. Medicion'
  BY <1>3 DEF Gira, ConteoFiel, Medicion, Vivos
<1> QED
  BY <1>5, <1>6, <1>7 DEF ConteoFiel

(* While the encoder thread is behind, only it moves on, and main can at   *)
(* most be told to end it.                                                 *)
LEMMA Espera1 ==
    ASSUME Prudente, TypeOK, Coherencia, ConteoFiel, Atrasado
    PROVE  /\ ~Sigue
           /\ \A h \in Hilos : ~Parador(h) /\ ~Divide(h)
           /\ \A d \in {1, -1} : ~Gira(d)
           /\ Orden => \E v \in OrdenesFinalizar : OrdenFinalizar(v)
<1>0. /\ \A h \in Vivos : hilo[h].pc \in Espera /\ ~SePasa(h)
      /\ MainAlDia /\ sentido # "PARADO"
  BY DEF ConteoFiel, Espectadores
<1>1. ~Sigue
  <2>1. pc \notin {"calCorto", "finStop", "finParada"}
        /\ (pc = "join" => Vivos = {}) /\ enc.pc # "fin"
    BY DEF ConteoFiel, Medicion, Atrasado
  <2> QED
    BY <1>0, <2>1 DEF MainAlDia, Sigue, Join, Pin1, Pin2, Fijar, Lanzar, DespuesDeDAH,
       CalCorto, CalArranque, CalParada, CalDah1, CalSale, CalDah2, CalFin, CalMide,
       FinStop, FinEnc
<1>2. ASSUME NEW h \in Hilos PROVE ~Parador(h) /\ ~Divide(h)
  <2>1. h \notin Vivos => hilo[h].pc = "fin"
    BY DEF Vivos
  <2> QED
    BY <1>0, <2>1 DEF Parador, Divide, Arranca, Vigila, Para1, Para2, Para3, Para, Espera
<1>3. \A d \in {1, -1} : ~Gira(d)
  BY DEF Gira, AlDia, Atrasado, Prudente
<1>4. Orden => \E v \in OrdenesFinalizar : OrdenFinalizar(v)
  BY <1>0 DEF Orden, OrdenMover, OrdenPosicion, OrdenAngulo, OrdenDAH, OrdenCalibrar,
              Libre, Prudente
<1> QED
  BY <1>1, <1>2, <1>3, <1>4

LEMMA MedicionIgual ==
    ASSUME Simulacion, Medicion, UNCHANGED <<orden, sentido, hilo, cuenta>>
    PROVE  Medicion' /\ getDAH' = getDAH /\ Vivos' = Vivos
<1>1. getDAH' = getDAH /\ Vivos' = Vivos
  BY DEF getDAH, Vivos, cuenta
<1> QED
  BY <1>1 DEF Medicion, orden, cuenta

(* One count, when main measures a turn: calibrate sees every pulse.       *)
LEMMA CuentaMedicion ==
    ASSUME Prudente, TypeOK, TypeOK', Coherencia, ConteoFiel, EncCuenta, Cuentas'
    PROVE  Medicion'
<1>0. /\ Simulacion /\ N \in Nat \ {0}
      /\ posicionRelativa \in Int /\ posicionRelativa' \in Int /\ marco.pIni \in Int
  BY NAssumption DEF Prudente, TypeOK, Marcos
<1>1. Atrasado /\ Cuentas /\ Medicion
  BY DEF EncCuenta, Atrasado, ConteoFiel
<1>2. MainAlDia /\ pin = Reles(sentido)
  BY <1>1 DEF ConteoFiel, Espectadores
<1>3. UNCHANGED <<pc, marco, sentido, hilo>> /\ Vivos' = Vivos
  BY DEF EncCuenta, orden, mando, paradas, Vivos
<1>4. posicionRelativa' = posicionRelativa + Pulso
  BY <1>1 DEF EncCuenta, Cuentas
<1>5. sentido = "CCW" => Pulso \in {-1, 0}
  BY <1>0, <1>2 DEF Reles, Activa, Pines, Pulso
<1>6. CASE pc = "calSale"
  <2>1. getDAH /\ sentido = "CCW" /\ marco.pIni % N = 0
    BY <1>1, <1>2, <1>6 DEF MainAlDia, Medicion
  <2>2. N = 1 \/ posicionRelativa = marco.pIni
    BY <1>1, <1>6, <2>1 DEF Medicion
  <2>3. N # 1 /\ posicionRelativa' = marco.pIni - 1 => ~getDAH'
    <3>1. SUFFICES ASSUME N # 1, posicionRelativa' = marco.pIni - 1,
                          (marco.pIni - 1) % N = 0
                   PROVE  FALSE
      BY <1>0, DAHDespues
    <3>2. (marco.pIni - (marco.pIni - 1)) % N = 0
      BY <1>0, <2>1, <3>1, SumaMultiplos
    <3>3. marco.pIni - (marco.pIni - 1) = 1
      BY <1>0
    <3> QED
      BY <1>0, <3>1, <3>2, <3>3, UnaVueltaEsCero
  <2>4. \/ posicionRelativa' = marco.pIni
        \/ posicionRelativa' = marco.pIni - 1 /\ ~getDAH'
        \/ N = 1
    BY <1>0, <1>4, <1>5, <2>1, <2>2, <2>3
  <2> QED
    BY <1>1, <1>3, <1>6, <2>4 DEF Medicion, EnMover
<1>7. CASE pc = "calDah2"
  <2>1. ~getDAH /\ sentido = "CCW" /\ marco.pIni % N = 0
        /\ posicionRelativa \in marco.pIni - N .. marco.pIni - 1
    BY <1>1, <1>2, <1>7 DEF MainAlDia, Medicion
  <2>2. (marco.pIni - N) % N = 0
    BY <1>0, <2>1, SumaMultiplos, UnaVueltaEsCero
  <2>3. posicionRelativa # marco.pIni - N
    BY <1>0, <1>1, <2>1, <2>2, DAHEnMultiplos
  <2>4. posicionRelativa' \in marco.pIni - N .. marco.pIni - 1
    BY <1>0, <1>4, <1>5, <2>1, <2>3
  <2> QED
    BY <1>1, <1>3, <1>7, <2>4 DEF Medicion, EnMover
<1>8. CASE pc \notin {"calSale", "calDah2"}
  <2>1. pc \notin {"calFin", "calMide"} \cup EnMover
    <3>1. pc = "join" => Vivos = {}
      BY <1>1 DEF Medicion
    <3> QED
      BY <1>2, <3>1 DEF MainAlDia, EnMover
  <2> QED
    BY <1>1, <1>3, <1>8, <2>1 DEF Medicion
<1> QED
  BY <1>6, <1>7, <1>8

(* One count, and what the counters say of the dome.                       *)
LEMMA CuentaCuentas ==
    ASSUME Prudente, TypeOK, Cuentas, EncCuenta PROVE Cuentas'
<1>0. /\ posicionRelativa \in Int /\ posicionAbsoluta \in Int /\ maxPos = N
      /\ N \in Nat \ {0} /\ Pulso \in {-1, 0, 1} /\ giro \in Int
  BY NAssumption DEF TypeOK, Pulso, Cuentas
<1>1. Falta = Pulso /\ enc.dar /\ enc.pc = "cuenta" /\ PinEncoder # enc.ant
  BY DEF EncCuenta, Falta, Atrasado, Cuentas
<1>2. /\ enc'.pc = "dah" /\ enc'.dar /\ enc'.ant = ~enc.ant
      /\ UNCHANGED <<giro, maxPos>> /\ PinEncoder' = PinEncoder
      /\ posicionRelativa' = posicionRelativa + Pulso /\ Salto = Pulso
  BY <1>1 DEF EncCuenta, Cuentas, TypeOK, calib, PinEncoder
<1>3. PinEncoder' = enc'.ant
  BY <1>1, <1>2 DEF TypeOK, PinEncoder
<1>4. Falta' = 0 /\ Posicion' = Posicion /\ Posicion \in Int
  BY <1>0, <1>2, <1>3 DEF Falta, Atrasado, Posicion
<1>5. (posicionRelativa' + Falta' - Posicion') % N = 0
  <2>1. posicionRelativa' + Falta' - Posicion' = posicionRelativa + Falta - Posicion
    BY <1>0, <1>1, <1>2, <1>4
  <2> QED
    BY <1>1, <2>1 DEF Cuentas
<1>6. /\ posicionAbsoluta' \in -1 .. N - 1
      /\ posicionAbsoluta' # -1 => (posicionRelativa' - posicionAbsoluta') % N = 0
  <2>0. posicionAbsoluta \in -1 .. N - 1
        /\ (posicionAbsoluta # -1 => (posicionRelativa - posicionAbsoluta) % N = 0)
    BY DEF Cuentas
  <2>1. CASE posicionAbsoluta = -1
    BY <1>0, <1>2, <2>1 DEF EncCuenta, operarPosicionAbsoluta
  <2>2. CASE posicionAbsoluta # -1
    <3>1. posicionAbsoluta' = operarPosicionAbsoluta(posicionAbsoluta, Pulso, N)
      BY <1>0, <1>1, <1>2, <2>2 DEF EncCuenta
    <3>2. CASE posicionAbsoluta + Pulso = N
      <4>1. posicionAbsoluta' = 0
        BY <2>2, <3>1, <3>2 DEF operarPosicionAbsoluta
      <4>2. posicionRelativa' - posicionAbsoluta' = (posicionRelativa - posicionAbsoluta) + N
        BY <1>0, <1>2, <3>2, <4>1
      <4>3. posicionRelativa - posicionAbsoluta \in Int /\ N \in Int
        BY <1>0
      <4>4. ((posicionRelativa - posicionAbsoluta) + N) % N = 0
        BY <2>0, <2>2, <4>3, SumaMultiplos, UnaVueltaEsCero
      <4> QED
        BY <1>0, <4>1, <4>2, <4>4
    <3>3. CASE posicionAbsoluta + Pulso < 0
      <4>1. posicionAbsoluta' = N - 1 /\ posicionAbsoluta = 0 /\ Pulso = -1
        BY <1>0, <2>0, <2>2, <3>1, <3>3 DEF operarPosicionAbsoluta
      <4>2. posicionRelativa' - posicionAbsoluta' = (posicionRelativa - posicionAbsoluta) - N
        BY <1>0, <1>2, <4>1
      <4> QED
        BY <1>0, <2>0, <2>2, <4>1, <4>2, SumaMultiplos, UnaVueltaEsCero
    <3>4. CASE posicionAbsoluta + Pulso # N /\ ~(posicionAbsoluta + Pulso < 0)
      <4>1. posicionAbsoluta' = posicionAbsoluta + Pulso
        BY <2>2, <3>1, <3>4 DEF operarPosicionAbsoluta
      <4>2. posicionRelativa' - posicionAbsoluta' = posicionRelativa - posicionAbsoluta
        BY <1>0, <1>2, <4>1
      <4> QED
        BY <1>0, <2>0, <2>2, <3>4, <4>1, <4>2
    <3> QED
      BY <3>2, <3>3, <3>4
  <2> QED
    BY <2>1, <2>2
<1> QED
  BY <1>0, <1>2, <1>3, <1>5, <1>6 DEF Cuentas

LEMMA FielEncoder ==
    ASSUME Prudente, TypeOK, TypeOK', Coherencia, ConteoFiel, Encoder
    PROVE  ConteoFiel'
<1> USE DEF mando, fines, calib, paradas
<1>0. Simulacion /\ Cuentas /\ Espectadores /\ Medicion
  BY DEF Prudente, ConteoFiel
<1>1. UNCHANGED giro /\ PinEncoder' = PinEncoder /\ Posicion' = Posicion
  BY DEF Encoder, EncInicio, EncLee, EncMira, EncCuenta, EncDah, EncCorriente, EncFin,
         PinEncoder, Posicion
<1>2. CASE EncInicio
  <2>1. UNCHANGED <<orden, sentido, hilo, cuenta>> /\ ~Atrasado /\ ~Atrasado'
    BY <1>1, <1>2 DEF EncInicio, Atrasado
  <2>2. getDAH
    <3>1. Falta = 0 /\ Posicion = 0 /\ posicionRelativa \in Int
      BY <1>0, <1>2, <2>1 DEF EncInicio, Falta, Posicion, Cuentas, TypeOK
    <3>2. (posicionRelativa + 0 - 0) % N = 0 /\ posicionRelativa + 0 - 0 = posicionRelativa
      BY <1>0, <1>2, <3>1 DEF EncInicio, Cuentas
    <3> QED
      BY <1>0, <3>2, DAHEnMultiplos
  <2>3. enc' = [pc |-> "lee", ant |-> PinEncoder, dar |-> TRUE] /\ maxPos' = maxPos
    <3>1. maxPos = N /\ maxPos >= 0 /\ (maxPos >= 0 /\ getDAH) = TRUE
      BY <1>0, <2>2, NAssumption DEF Cuentas
    <3> QED
      BY <1>2, <3>1 DEF EncInicio
  <2>4. Falta' = Falta
    BY <2>1 DEF Falta
  <2>5. Cuentas'
    BY <1>0, <1>1, <1>2, <2>1, <2>3, <2>4 DEF EncInicio, Cuentas, cuenta
  <2> QED
    BY <1>0, <2>1, <2>5, MedicionIgual DEF ConteoFiel, Espectadores
<1>3. CASE EncLee \/ (EncMira /\ Pulso # 0)
  <2>1. /\ UNCHANGED <<orden, sentido, hilo, cuenta, pin, stop, fines, paradas>>
        /\ Atrasado /\ Atrasado'
    BY <1>3 DEF EncLee, EncMira, Atrasado, TypeOK
  <2>0. /\ enc'.ant = enc.ant /\ enc'.dar = enc.dar /\ enc.pc \in {"lee", "mira"}
        /\ \/ enc'.pc = "mira"
           \/ enc'.pc = "cuenta" /\ Pulso # 0
        /\ PinEncoder # enc.ant /\ UNCHANGED maxPos
    BY <1>0, <1>3 DEF EncLee, EncMira, Cuentas, TypeOK
  <2>2. Medicion' /\ getDAH' = getDAH /\ Vivos' = Vivos
    BY <1>0, <2>1, MedicionIgual
  <2>3. Pulso' = Pulso /\ Falta' = Falta /\ (Pulso # 0 => Salto' = Pulso)
    BY <2>0, <2>1 DEF Pulso, Falta, Salto
  <2>4. Cuentas'
    BY <1>0, <1>1, <2>0, <2>1, <2>3 DEF Cuentas, cuenta
  <2>5. Espectadores'
    <3>1. \A h \in Vivos : hilo[h].pc \in Espera /\ ~SePasa(h)
      BY <1>0, <2>1 DEF Espectadores
    <3>2. ASSUME NEW h \in Vivos PROVE (hilo[h].pc \in Espera /\ ~SePasa(h))'
      BY <2>1, <2>2, <3>1 DEF SePasa, Cuenta, Meta, cuenta, fines
    <3>3. MainAlDia'
      BY <1>0, <2>0, <2>1, <2>2 DEF Espectadores, MainAlDia, orden, paradas
    <3>4. (sentido # "PARADO" /\ pin = Reles(sentido))'
      BY <1>0, <2>1 DEF Espectadores, Reles, Activa
    <3> QED
      BY <2>2, <3>2, <3>3, <3>4 DEF Espectadores
  <2> QED
    BY <2>2, <2>4, <2>5 DEF ConteoFiel
<1>7. CASE EncMira /\ Pulso = 0
  <2>1. /\ UNCHANGED <<orden, sentido, hilo, cuenta, maxPos>> /\ enc'.pc = "dah"
        /\ enc'.ant = ~enc.ant /\ enc'.dar = enc.dar /\ enc.pc = "mira"
        /\ enc.ant \in BOOLEAN
    BY <1>7 DEF EncMira, TypeOK
  <2>2. PinEncoder' = enc'.ant /\ Falta = 0 /\ ~Atrasado'
    BY <1>0, <1>1, <1>7, <2>1 DEF Cuentas, PinEncoder, Falta, Atrasado
  <2>3. Falta' = 0
    BY <2>2 DEF Falta
  <2>4. Cuentas'
    BY <1>0, <1>1, <2>1, <2>2, <2>3 DEF Cuentas, cuenta
  <2> QED
    BY <1>0, <2>1, <2>2, <2>4, MedicionIgual DEF ConteoFiel, Espectadores
<1>4. CASE EncCuenta
  <2>1. Cuentas'
    BY <1>0, <1>4, CuentaCuentas
  <2>2. Medicion'
    BY <1>4, <2>1, CuentaMedicion
  <2>3. ~Atrasado'
    BY <1>4, <2>1 DEF EncCuenta, Atrasado, Cuentas, TypeOK
  <2> QED
    BY <2>1, <2>2, <2>3 DEF ConteoFiel, Espectadores
<1>5. CASE EncDah \/ EncCorriente
  <2>1. /\ UNCHANGED <<orden, sentido, hilo, cuenta, maxPos>>
        /\ enc'.pc \in {"lee", "corriente"} /\ enc'.ant = enc.ant /\ enc'.dar = enc.dar
        /\ enc.pc \in {"dah", "lee", "corriente"}
    BY <1>5 DEF EncDah, EncCorriente, TypeOK
  <2>2. PinEncoder = enc.ant
    BY <1>0, <1>5 DEF EncDah, EncCorriente, Cuentas
  <2>3. ~Atrasado /\ ~Atrasado'
    BY <1>1, <2>1, <2>2 DEF Atrasado
  <2>4. Cuentas'
    BY <1>0, <1>1, <2>1, <2>2, <2>3 DEF Cuentas, Falta, cuenta
  <2> QED
    BY <1>0, <2>1, <2>3, <2>4, MedicionIgual DEF ConteoFiel, Espectadores
<1>6. CASE EncFin
  <2>1. UNCHANGED <<orden, sentido, hilo, cuenta>> /\ enc'.pc = "fin" /\ fin'
    BY <1>6 DEF EncFin, TypeOK
  <2>2. ~Atrasado'
    BY <2>1 DEF Atrasado
  <2>3. Cuentas'
    BY <1>0, <1>6, <2>1 DEF EncFin, Cuentas, cuenta
  <2> QED
    BY <1>0, <2>1, <2>2, <2>3, MedicionIgual DEF ConteoFiel, Espectadores
<1> QED
  BY <1>2, <1>3, <1>4, <1>5, <1>6, <1>7 DEF Encoder

(* What an order, or setPosicion, leaves in pc and marco.                  *)
Fuera == {"libre", "plus", "plusCal", "calArranque"}

(* A patient client has a dome of N pulses, and nothing divides by zero.   *)
LEMMA NoDivide == ASSUME Cuentas PROVE ~DivideEntreCero /\ \A h \in Hilos : ~Divide(h)
BY NAssumption DEF Cuentas, DivideEntreCero, Divide

Retirado ==
    /\ pc \in Fuera \cup {"lanzar", "pin1"}
    /\ pc \in {"lanzar", "pin1"} => marco.sig \in Fuera
    /\ marco.sig # "calCorto"

LEMMA SetPosicionRetirado ==
    ASSUME TypeOK, Cuentas, Medicion, NEW sm, NEW tp, NEW n, NEW sig \in Fuera,
           setPosicion(sm, tp, n, sig)
    PROVE  Retirado' /\ Medicion'
<1>1. CASE Rechaza(sm, tp)
  BY <1>1 DEF setPosicion, Retirado, Medicion, MarcoNulo, Fuera, EnMover
<1>2. CASE Acepta(sm, tp, n, sig)
  <2>1. marco'.sig = sig
    BY <1>2 DEF Acepta, TypeOK, Marcos
  <2> QED
    BY <1>2, <2>1 DEF Acepta, Retirado, Medicion, Fuera, EnMover
<1> QED
  BY <1>1, <1>2, NoDivide DEF setPosicion

LEMMA SetDAHRetirado ==
    ASSUME TypeOK, Cuentas, Medicion, NEW v \in BOOLEAN, NEW sig \in Fuera, setDAH(v, sig)
    PROVE  Retirado' /\ Medicion'
<1>0. {"plus", "plusCal"} \subseteq Fuera
  BY DEF Fuera
<1>1. CASE v /\ getDAH
  <2>1. pc' = sig /\ marco'.sig # "calCorto"
    BY <1>1 DEF setDAH, MarcoNulo, Medicion
  <2> QED
    BY <2>1 DEF Retirado, Medicion, Fuera, EnMover
<1>2. CASE ~v /\ getDAH
  BY <1>2, SetPosicionRetirado DEF setDAH
<1>3. CASE ~getDAH
  <2>1. PICK k \in Fuera : VeADAH(k)
    BY <1>0, <1>3 DEF setDAH
  <2> QED
    BY <2>1, SetPosicionRetirado DEF VeADAH
<1> QED
  BY <1>1, <1>2, <1>3

LEMMA FielSinContar ==
    ASSUME Simulacion, Cuentas, ~Atrasado, UNCHANGED <<enc, giro, cuenta, maxPos>>, fin => fin'
    PROVE  Cuentas' /\ Espectadores'
<1>1. Posicion' = Posicion /\ PinEncoder' = PinEncoder /\ ~Atrasado' /\ enc.pc # "cuenta"
  BY DEF Posicion, PinEncoder, Atrasado
<1>2. Falta' = Falta
  BY <1>1 DEF Falta
<1> QED
  BY <1>1, <1>2 DEF Cuentas, Espectadores, cuenta

LEMMA FielOrden ==
    ASSUME Prudente, TypeOK, TypeOK', Coherencia, ConteoFiel, Orden
    PROVE  ConteoFiel'
<1> USE DEF orden, mando, fines, calib, paradas
<1>0. /\ Simulacion /\ Cuentas /\ Espectadores /\ Medicion
      /\ UNCHANGED <<enc, giro>>
      /\ {"libre", "calArranque"} \subseteq Fuera
  BY RestoQuieto DEF Prudente, ConteoFiel, Fuera
<1>a. Libre => ~Atrasado
  BY <1>0 DEF Libre, Prudente, Espectadores
<1>1. ASSUME NEW s \in OrdenesMover, OrdenMover(s) PROVE ConteoFiel'
  <2>1. pc' = "pin1" /\ marco'.sig = "libre" /\ UNCHANGED <<cuenta, maxPos, fin>>
    BY <1>1 DEF OrdenMover, mover, Libre, Prudente, TypeOK, Marcos
  <2>2. Medicion'
    BY <2>1 DEF Medicion, EnMover
  <2> QED
    BY <1>0, <1>1, <1>a, <2>1, <2>2, FielSinContar DEF OrdenMover, ConteoFiel
<1>2. ASSUME NEW sm, NEW tp, NEW n, OrdenPosicion(sm, tp, n) \/ OrdenAngulo(sm, tp, n)
      PROVE  ConteoFiel'
  <2>1. PICK m : setPosicion(sm, tp, m, "libre")
    BY <1>0, <1>2, NoDivide DEF OrdenPosicion, OrdenAngulo
  <2>2. Medicion'
    BY <1>0, <2>1, SetPosicionRetirado
  <2>3. UNCHANGED <<cuenta, maxPos, fin>> /\ Libre
    BY <1>2 DEF OrdenPosicion, OrdenAngulo
  <2> QED
    BY <1>0, <1>a, <2>2, <2>3, FielSinContar DEF ConteoFiel
<1>3. ASSUME NEW v \in OrdenesDAH, OrdenDAH(v) PROVE ConteoFiel'
  <2>1. Medicion'
    BY <1>0, <1>3, OrdenesAssumption, SetDAHRetirado DEF OrdenDAH
  <2>2. UNCHANGED <<cuenta, maxPos, fin>> /\ Libre
    BY <1>3 DEF OrdenDAH
  <2> QED
    BY <1>0, <1>a, <2>1, <2>2, FielSinContar DEF ConteoFiel
<1>4. ASSUME NEW o \in OrdenesCalibrar, OrdenCalibrar(o[1], o[2]) PROVE ConteoFiel'
  <2>0. Libre /\ UNCHANGED <<maxPos, fin>>
    BY <1>4 DEF OrdenCalibrar
  <2>1. CASE setDAH(FALSE, "calArranque") /\ UNCHANGED cuenta
    BY <1>0, <1>a, <2>0, <2>1, SetDAHRetirado, FielSinContar DEF ConteoFiel
  <2>2. CASE UNCHANGED cuenta /\ UNCHANGED orden
    <3>1. Medicion'
      BY <1>0, <1>4, <2>2, MedicionIgual DEF OrdenCalibrar
    <3> QED
      BY <1>0, <1>a, <2>0, <2>2, <3>1, FielSinContar DEF ConteoFiel
  <2>3. CASE getDAH /\ PonOrigen /\ UNCHANGED orden
    <3>1. Medicion'
      BY <1>0, <2>0, <2>3 DEF Libre, Medicion, EnMover
    <3>2. posicionRelativa % N = 0
      BY <1>0, <2>3, DAHEnMultiplos
    <3>3. posicionRelativa' = 0 /\ posicionAbsoluta' = 0
          /\ Posicion' = Posicion /\ PinEncoder' = PinEncoder
      BY <1>0, <2>3 DEF PonOrigen, Posicion, PinEncoder
    <3>4. ~Atrasado' /\ Falta' = 0 /\ Falta = 0
      BY <1>0, <1>a, <2>0, <3>3 DEF Atrasado, Falta
    <3>5. enc.pc # "fin" => (posicionRelativa' + Falta' - Posicion') % N = 0
      <4>1. SUFFICES ASSUME enc.pc # "fin"
                     PROVE  (posicionRelativa' + Falta' - Posicion') % N = 0
        OBVIOUS
      <4>2. posicionRelativa \in Int /\ Posicion \in Int
        BY NAssumption DEF TypeOK, Posicion
      <4>3. (posicionRelativa - Posicion) % N = 0
        <5>1. posicionRelativa + 0 - Posicion = posicionRelativa - Posicion
          BY <4>2
        <5> QED
          BY <1>0, <3>4, <4>1, <5>1 DEF Cuentas
      <4>4. ((posicionRelativa - Posicion) - posicionRelativa) % N = 0
        BY <3>2, <4>2, <4>3, SumaMultiplos
      <4>5. (posicionRelativa - Posicion) - posicionRelativa = 0 + 0 - Posicion
        BY <4>2
      <4> QED
        BY <3>3, <3>4, <4>4, <4>5
    <3>6. Cuentas'
      BY <1>0, <1>a, <2>0, <3>3, <3>5, NAssumption, UnaVueltaEsCero DEF Cuentas, Atrasado
    <3> QED
      BY <3>1, <3>4, <3>6 DEF ConteoFiel, Espectadores
  <2> QED
    BY <1>0, <1>4, <2>1, <2>2, <2>3, NAssumption DEF OrdenCalibrar, Prudente, Cuentas
<1>5. ASSUME NEW v \in OrdenesFinalizar, OrdenFinalizar(v) PROVE ConteoFiel'
  <2>0. /\ UNCHANGED <<sentido, pin, hilo, pStop, cuenta, fines, maxPos, marco>>
        /\ pc = "libre" /\ pc' \in {"finEnc", "libre"} /\ UNCHANGED stop /\ (fin => fin')
    BY <1>5 DEF OrdenFinalizar, Prudente
  <2>1. Medicion'
    BY <1>0, <2>0 DEF Medicion, EnMover
  <2>2. Posicion' = Posicion /\ PinEncoder' = PinEncoder /\ Pulso' = Pulso
    BY <1>0, <2>0 DEF Posicion, PinEncoder, Pulso
  <2>3. Cuentas'
    <3>1. Falta' = Falta /\ Salto' = Salto
      BY <1>0, <2>2 DEF Falta, Atrasado, Salto
    <3> QED
      BY <1>0, <2>0, <2>2, <3>1 DEF Cuentas, cuenta
  <2>4. Espectadores'
    <3>1. SUFFICES ASSUME Atrasado PROVE Espectadores'
      BY <1>0, <2>2 DEF Espectadores, Atrasado
    <3>2. Vivos' = Vivos /\ getDAH' = getDAH
      BY <1>0, <2>0 DEF Vivos, getDAH, cuenta
    <3>3. \A h \in Vivos : hilo[h].pc \in Espera /\ ~SePasa(h)
      BY <1>0, <3>1 DEF Espectadores
    <3>4. ASSUME NEW h \in Vivos PROVE (hilo[h].pc \in Espera /\ ~SePasa(h))'
      BY <2>0, <3>2, <3>3 DEF SePasa, Cuenta, Meta, cuenta, fines
    <3>5. MainAlDia'
      BY <1>0, <2>0, <3>1 DEF MainAlDia, Atrasado
    <3>6. (sentido # "PARADO" /\ pin = Reles(sentido))'
      BY <1>0, <2>0, <3>1 DEF Espectadores, Reles, Activa
    <3> QED
      BY <3>2, <3>4, <3>5, <3>6 DEF Espectadores
  <2> QED
    BY <2>1, <2>3, <2>4 DEF ConteoFiel
<1> QED
  BY <1>1, <1>2, <1>3, <1>4, <1>5 DEF Orden

LEMMA FielParador ==
    ASSUME Prudente, TypeOK, Coherencia, ConteoFiel, NEW h \in Hilos, Parador(h)
    PROVE  ConteoFiel'
<1>0. Simulacion /\ Cuentas /\ Medicion /\ ~Atrasado
  BY Espera1 DEF Prudente, ConteoFiel
<1>1. UNCHANGED <<enc, giro, cuenta, maxPos, fin, pc, marco>>
  BY DEF Parador, Arranca, Vigila, Para1, Para2, Para, Para3, orden, calib
<1>2. h \in Vivos
  BY DEF Parador, Arranca, Vigila, Para1, Para2, Para3, Para, Espera, Vivos
<1>3. pc \notin {"calDah1", "calSale", "calDah2", "calFin", "join"}
  BY <1>0, <1>2 DEF Medicion
<1>4. Medicion'
  BY <1>0, <1>1, <1>3 DEF Medicion, EnMover, cuenta
<1> QED
  BY <1>0, <1>1, <1>4, FielSinContar DEF ConteoFiel

(* The last step of calibrate: the dome has stood still since the second   *)
(* time it passed the DAH, a whole turn after the first.                   *)
LEMMA MideUnaVuelta ==
    ASSUME Prudente, TypeOK, ConteoFiel, ~Atrasado, CalMide
    PROVE  /\ maxPos' = N /\ posicionAbsoluta' = 0 /\ posicionRelativa' = 0
           /\ enc.pc # "fin" => Posicion % N = 0
<1>0. /\ Cuentas /\ Medicion /\ pc = "calMide" /\ N \in Nat \ {0}
      /\ posicionRelativa \in Int /\ marco.pIni \in Int /\ Posicion \in Int
  BY NAssumption DEF ConteoFiel, CalMide, TypeOK, Marcos, Posicion
<1>1. posicionRelativa = marco.pFin /\ marco.pFin % N = 0 /\ marco.pFin = marco.pIni - N
  BY <1>0 DEF Medicion
<1>2. abs(posicionRelativa - marco.pFin) = 0 /\ abs(marco.pFin - marco.pIni) = N
  BY <1>0, <1>1 DEF abs
<1>3. maxPos' = N /\ posicionAbsoluta' = 0 /\ posicionRelativa' = 0
  BY <1>0, <1>2 DEF CalMide
<1>4. ASSUME enc.pc # "fin" PROVE Posicion % N = 0
  <2>1. (posicionRelativa + 0 - Posicion) % N = 0
    BY <1>0, <1>4 DEF Cuentas, Falta
  <2>2. posicionRelativa + 0 - Posicion = posicionRelativa - Posicion
        /\ posicionRelativa - Posicion \in Int
        /\ posicionRelativa - (posicionRelativa - Posicion) = Posicion
    BY <1>0
  <2> QED
    BY <1>0, <1>1, <2>1, <2>2, SumaMultiplos
<1> QED
  BY <1>3, <1>4

LEMMA FielSigue ==
    ASSUME Prudente, TypeOK, TypeOK', Coherencia, ConteoFiel, Sigue
    PROVE  ConteoFiel'
<1> USE DEF orden, mando, fines, calib, paradas
<1>0. Simulacion /\ Cuentas /\ Medicion /\ ~Atrasado /\ UNCHANGED <<enc, giro>>
  BY Espera1, RestoQuieto DEF Prudente, ConteoFiel
<1>1. ASSUME Medicion', UNCHANGED <<cuenta, maxPos, fin>> PROVE ConteoFiel'
  BY <1>0, <1>1, FielSinContar DEF ConteoFiel
<1>2. CASE Join
  <2>1. Medicion'
    BY <1>0, <1>2 DEF Join, Medicion, EnMover, Vivos, cuenta
  <2> QED
    BY <1>1, <1>2, <2>1 DEF Join
<1>3. CASE Pin1 \/ Pin2
  <2>1. Medicion'
    BY <1>0, <1>3 DEF Pin1, Pin2, Medicion, EnMover, Vivos, cuenta
  <2> QED
    BY <1>1, <1>3, <2>1 DEF Pin1, Pin2
<1>4. CASE Fijar
  <2>1. Vivos = {} /\ Vivos' = Vivos
    BY <1>4 DEF Fijar, Coherencia, Vivos
  <2>2. CASE marco.tp = "manual"
    <3>1. pc' = marco.sig /\ sentido' = marco.sm
      BY <1>4, <2>2 DEF Fijar
    <3>2. marco.sig \in Continuaciones
      BY DEF TypeOK, Marcos
    <3>3. marco'.sig # "calCorto" /\ (pc' = "calMide" => marco' = marco)
      BY <1>0, <1>4, <3>1 DEF Fijar, Medicion, MarcoNulo
    <3>4. Medicion'
      BY <1>0, <1>4, <2>1, <3>1, <3>2, <3>3
      DEF Fijar, Medicion, EnMover, Continuaciones, cuenta
    <3> QED
      BY <1>1, <1>4, <3>4 DEF Fijar
  <2>3. CASE marco.tp # "manual"
    <3>1. pc' = "lanzar" /\ marco' = marco /\ marco.sig \notin {"calDah1", "calMide"}
      BY <1>0, <1>4, <2>3 DEF Fijar, Medicion, EnMover
    <3>2. Medicion'
      BY <1>0, <3>1 DEF Medicion, EnMover
    <3> QED
      BY <1>1, <1>4, <3>2 DEF Fijar
  <2> QED
    BY <2>2, <2>3
<1>5. CASE Lanzar
  <2>1. pc' = marco.sig /\ marco.sig \in Continuaciones \ {"calDah1", "calMide", "calCorto"}
    BY <1>0, <1>5 DEF Lanzar, Medicion, TypeOK, Marcos
  <2>2. marco'.sig # "calCorto"
    BY <1>0, <1>5 DEF Lanzar, Medicion, MarcoNulo
  <2>3. Medicion'
    BY <2>1, <2>2 DEF Medicion, EnMover, Continuaciones
  <2> QED
    BY <1>1, <1>5, <2>3 DEF Lanzar
<1>6. CASE DespuesDeDAH
  <2>1. PICK k \in Fuera : setPosicion("CW", "relativa", Plus, k)
    BY <1>6 DEF DespuesDeDAH, Fuera
  <2>2. Medicion'
    BY <1>0, <2>1, SetPosicionRetirado
  <2> QED
    BY <1>1, <1>6, <2>2 DEF DespuesDeDAH
<1>7. CASE CalArranque
  <2>1. Medicion'
    BY <1>0, <1>7 DEF CalArranque, Medicion, EnMover
  <2> QED
    BY <1>1, <1>7, <2>1 DEF CalArranque
<1>8. CASE CalParada
  <2>1. ~Rechaza("CCW", "manual") /\ SentidoFinal("CCW", "manual", 0) = "CCW"
    BY <1>8 DEF CalParada, Rechaza, SentidoFinal
  <2>2. pc' = "pin1" /\ marco'.sig = "calDah1" /\ marco'.sm = "CCW" /\ marco'.tp = "manual"
    BY <1>8, <2>1 DEF CalParada, setPosicion, Acepta, TypeOK, Marcos
  <2>3. Medicion'
    BY <2>2 DEF Medicion, EnMover
  <2> QED
    BY <1>1, <1>8, <2>3 DEF CalParada
<1>9. CASE CalDah1
  <2>1. posicionRelativa % N = 0 /\ marco'.pIni = posicionRelativa /\ marco'.sig = marco.sig
    BY <1>0, <1>9, DAHEnMultiplos DEF CalDah1, TypeOK, Marcos
  <2>2. Medicion'
    BY <1>0, <1>9, <2>1 DEF CalDah1, Medicion, EnMover, Vivos, cuenta
  <2> QED
    BY <1>1, <1>9, <2>2 DEF CalDah1
<1>10. CASE CalSale
  <2>0. /\ posicionRelativa \in Int /\ marco.pIni \in Int /\ N \in Nat \ {0}
        /\ marco.pIni % N = 0 /\ posicionRelativa % N # 0
    BY <1>0, <1>10, NAssumption, DAHEnMultiplos DEF CalSale, Medicion, TypeOK, Marcos
  <2>1. posicionRelativa = marco.pIni - 1
    BY <1>0, <1>10, <2>0 DEF CalSale, Medicion
  <2>2. posicionRelativa \in marco.pIni - N .. marco.pIni - 1
    BY <2>0, <2>1
  <2>3. Medicion'
    BY <1>0, <1>10, <2>2 DEF CalSale, Medicion, EnMover, Vivos, cuenta
  <2> QED
    BY <1>1, <1>10, <2>3 DEF CalSale
<1>11. CASE CalDah2
  <2>0. /\ posicionRelativa \in Int /\ marco.pIni \in Int /\ N \in Nat \ {0}
        /\ marco.pIni % N = 0 /\ posicionRelativa % N = 0
        /\ posicionRelativa \in marco.pIni - N .. marco.pIni - 1
    BY <1>0, <1>11, NAssumption, DAHEnMultiplos DEF CalDah2, Medicion, TypeOK, Marcos
  <2>1. posicionRelativa = marco.pIni - N
    <3>1. (posicionRelativa - marco.pIni) % N = 0
      BY <2>0, SumaMultiplos
    <3>2. ((posicionRelativa - marco.pIni) + N) % N = 0
      BY <2>0, <3>1, SumaMultiplos, UnaVueltaEsCero
    <3>3. (posicionRelativa - marco.pIni) + N \in 1 - N .. N - 1
      BY <2>0
    <3>4. (posicionRelativa - marco.pIni) + N = 0
      BY <3>2, <3>3, UnaVueltaEsCero
    <3> QED
      BY <2>0, <3>4
  <2>2. /\ marco'.pFin = posicionRelativa /\ marco'.sig = marco.sig
        /\ marco'.pIni = marco.pIni
    BY <1>11 DEF CalDah2, TypeOK, Marcos
  <2>3. Medicion'
    BY <1>0, <1>11, <2>0, <2>1, <2>2 DEF CalDah2, Medicion, EnMover, Vivos, cuenta
  <2> QED
    BY <1>1, <1>11, <2>3 DEF CalDah2
<1>12. CASE CalFin
  <2>1. /\ pc' \in {"pin1", "join"} /\ marco'.sig = "calMide" /\ marco'.tp = "manual"
        /\ marco'.pIni = marco.pIni /\ marco'.pFin = marco.pFin
    BY <1>12 DEF CalFin, mover, TypeOK, Marcos
  <2>2. Medicion'
    BY <1>0, <1>12, <2>1 DEF CalFin, Medicion, EnMover, Vivos, cuenta
  <2> QED
    BY <1>1, <1>12, <2>2 DEF CalFin
<1>13. CASE CalMide
  <2>1. /\ maxPos' = N /\ posicionAbsoluta' = 0 /\ posicionRelativa' = 0
        /\ enc.pc # "fin" => Posicion % N = 0
    BY <1>0, <1>13, MideUnaVuelta
  <2>2. /\ Posicion' = Posicion /\ PinEncoder' = PinEncoder /\ ~Atrasado'
        /\ Posicion \in Int
    BY <1>0, NAssumption DEF Posicion, PinEncoder, Atrasado, TypeOK
  <2>3. enc.pc # "fin" => (posicionRelativa' + Falta' - Posicion') % N = 0
    <3>1. 0 - Posicion = 0 + 0 - Posicion /\ Falta' = 0
      BY <2>2 DEF Falta
    <3>2. Posicion % N = 0 => (0 - Posicion) % N = 0
      BY <2>2, SumaMultiplos, UnaVueltaEsCero
    <3> QED
      BY <2>1, <2>2, <3>1, <3>2
  <2>4. Cuentas'
    BY <1>0, <1>13, <2>1, <2>2, <2>3, NAssumption, UnaVueltaEsCero
    DEF CalMide, Cuentas, Atrasado
  <2>5. Medicion'
    BY <1>0, <1>13 DEF CalMide, Medicion, EnMover, MarcoNulo
  <2> QED
    BY <2>2, <2>4, <2>5 DEF ConteoFiel, Espectadores
<1>14. CASE CalCorto \/ FinStop
  BY <1>0, <1>14 DEF CalCorto, FinStop, Medicion
<1>15. CASE FinEnc
  <2>1. Medicion'
    BY <1>0, <1>15 DEF FinEnc, Medicion, EnMover
  <2> QED
    BY <1>1, <1>15, <2>1 DEF FinEnc
<1> QED
  BY <1>2, <1>3, <1>4, <1>5, <1>6, <1>7, <1>8, <1>9, <1>10, <1>11, <1>12, <1>13, <1>14,
     <1>15 DEF Sigue

LEMMA FielPaso ==
    Prudente /\ TypeOK /\ TypeOK' /\ Coherencia /\ ConteoFiel /\ [Next]_vars => ConteoFiel'
<1> SUFFICES ASSUME Prudente, TypeOK, TypeOK', Coherencia, ConteoFiel, [Next]_vars
             PROVE  ConteoFiel'
  OBVIOUS
<1>1. CASE UNCHANGED vars
  <2>1. UNCHANGED <<orden, mando, fines, cuenta, calib, paradas, stop, fin, enc, giro>>
    BY <1>1 DEF vars
  <2>2. Atrasado' = Atrasado /\ Posicion' = Posicion /\ Pulso' = Pulso
        /\ PinEncoder' = PinEncoder /\ Vivos' = Vivos /\ getDAH' = getDAH /\ Salto' = Salto
    BY <2>1 DEF Atrasado, Posicion, Pulso, Salto, PinEncoder, Vivos, getDAH, mando, cuenta,
                paradas
  <2>3. Cuentas' /\ Medicion'
    BY <2>1, <2>2 DEF ConteoFiel, Cuentas, Medicion, Falta, orden, mando, cuenta, calib
  <2>4. Espectadores'
    <3>1. \A h \in Vivos : (~SePasa(h))' = ~SePasa(h)
      BY <2>1, <2>2 DEF SePasa, Cuenta, Meta, cuenta, fines, paradas
    <3>2. MainAlDia' = MainAlDia /\ (Reles(sentido))' = Reles(sentido)
      BY <2>1, <2>2 DEF MainAlDia, Reles, Activa, orden, mando, paradas
    <3> QED
      BY <2>1, <2>2, <3>1, <3>2 DEF ConteoFiel, Espectadores, mando, paradas
  <2> QED
    BY <2>3, <2>4 DEF ConteoFiel
<1> QED
  BY <1>1, FielSigue, FielOrden, FielParador, FielEncoder, FielGira, NoDivide
  DEF Next, Cupula, ConteoFiel

(* Behind every theorem about the counters: nobody but the encoder thread  *)
(* moves while it is behind the dome, and what calibrate has seen so far   *)
(* is a dome that has turned CCW from its DAH.                             *)
THEOREM ConteoCoherente == Prudente => (Spec => []ConteoFiel)
<1> SUFFICES ASSUME Prudente PROVE Spec => []ConteoFiel
  OBVIOUS
<1>1. Spec => []Coherencia
  BY Coherente DEF Prudente
<1>2. Init => ConteoFiel
  BY FielInicial
<1>3. TypeOK /\ TypeOK' /\ Coherencia /\ ConteoFiel /\ [Next]_vars => ConteoFiel'
  BY FielPaso
<1> QED
  BY <1>1, <1>2, <1>3, TipoCorrecto, PTL DEF Spec

(* Whatever a patient client asks for, and for as long as it asks, the two *)
(* counters agree with the dome whenever the encoder thread has looked at  *)
(* the pin, through the changes of direction, the wraps of the absolute    *)
(* counter, the new origins and the complete calibrations.                 *)
THEOREM PosicionCorrecta == Prudente => (Spec => []PosicionFiel)
<1> SUFFICES ASSUME Prudente PROVE Spec => []PosicionFiel
  OBVIOUS
<1>1. ASSUME TypeOK, ConteoFiel, enc.pc = "lee", PinEncoder = enc.ant
      PROVE  /\ (posicionRelativa - Posicion) % N = 0
             /\ posicionAbsoluta # -1 => posicionAbsoluta = Posicion % N
  <2>0. /\ posicionRelativa \in Int /\ posicionAbsoluta \in -1 .. N - 1
        /\ Posicion \in Int /\ N \in Nat \ {0}
    BY <1>1, NAssumption DEF TypeOK, ConteoFiel, Cuentas, Posicion
  <2>1. (posicionRelativa - Posicion) % N = 0
    <3>1. Falta = 0 /\ (posicionRelativa + Falta - Posicion) % N = 0
      BY <1>1 DEF ConteoFiel, Cuentas, Falta, Atrasado
    <3>2. posicionRelativa + 0 - Posicion = posicionRelativa - Posicion
      BY <2>0
    <3> QED
      BY <3>1, <3>2
  <2>2. ASSUME posicionAbsoluta # -1 PROVE posicionAbsoluta = Posicion % N
    <3>1. (posicionRelativa - posicionAbsoluta) % N = 0
      BY <1>1, <2>2 DEF ConteoFiel, Cuentas
    <3>2. (posicionRelativa - Posicion) - (posicionRelativa - posicionAbsoluta)
          = posicionAbsoluta - Posicion
          /\ posicionRelativa - Posicion \in Int /\ posicionRelativa - posicionAbsoluta \in Int
      BY <2>0
    <3>3. (posicionAbsoluta - Posicion) % N = 0
      BY <2>1, <3>1, <3>2, SumaMultiplos
    <3>4. posicionAbsoluta \in 0 .. N - 1
      BY <2>0, <2>2
    <3> QED
      BY <2>0, <3>3, <3>4, RestoUnico
  <2> QED
    BY <2>1, <2>2
<1>2. TypeOK /\ ConteoFiel => PosicionFiel
  BY <1>1 DEF PosicionFiel
<1> QED
  BY <1>2, ConteoCoherente, TipoCorrecto, PTL

(***************************************************************************)
(* Once the simulator has been told to end the dome stands still, and a    *)
(* calibration that begins then never gets as far as its last step.        *)
(***************************************************************************)
Apagado ==
    fin => /\ Atrasado => pc \in {"libre", "finEnc"}
           /\ pc \notin {"calDah2", "calFin", "calMide"}
           /\ pc \in EnMover => marco.sig # "calMide"
           /\ pc = "calSale" => getDAH

LEMMA ApagadoRetirado == ASSUME Retirado', ~Atrasado' PROVE Apagado'
BY DEF Retirado, Apagado, Fuera, EnMover

LEMMA ApagadoOrden ==
    ASSUME Prudente, TypeOK, ConteoFiel, Apagado, Orden PROVE Apagado'
<1> USE DEF orden
<1>0. /\ Medicion /\ Cuentas /\ UNCHANGED <<enc, giro>>
      /\ {"libre", "calArranque"} \subseteq Fuera
  BY RestoQuieto DEF ConteoFiel, Fuera
<1>a. Libre => ~Atrasado'
  BY <1>0 DEF Libre, Prudente, ConteoFiel, Espectadores, Atrasado, PinEncoder
<1>1. ASSUME NEW s \in OrdenesMover, OrdenMover(s) PROVE Apagado'
  <2>1. pc' = "pin1" /\ marco'.sig = "libre"
    BY <1>1 DEF OrdenMover, mover, Libre, Prudente, TypeOK, Marcos
  <2> QED
    BY <1>1, <1>a, <2>1 DEF OrdenMover, Apagado, EnMover
<1>2. ASSUME NEW sm, NEW tp, NEW n, OrdenPosicion(sm, tp, n) \/ OrdenAngulo(sm, tp, n)
      PROVE  Apagado'
  BY <1>0, <1>2, <1>a, NoDivide, SetPosicionRetirado, ApagadoRetirado
  DEF OrdenPosicion, OrdenAngulo
<1>3. ASSUME NEW v \in OrdenesDAH, OrdenDAH(v) PROVE Apagado'
  BY <1>0, <1>3, <1>a, OrdenesAssumption, SetDAHRetirado, ApagadoRetirado DEF OrdenDAH
<1>4. ASSUME NEW o \in OrdenesCalibrar, OrdenCalibrar(o[1], o[2]) PROVE Apagado'
  <2>0. Libre /\ pc = "libre"
    BY <1>4 DEF OrdenCalibrar, Libre
  <2>1. CASE setDAH(FALSE, "calArranque")
    BY <1>0, <1>a, <2>0, <2>1, SetDAHRetirado, ApagadoRetirado
  <2>2. CASE UNCHANGED orden
    BY <1>a, <2>0, <2>2 DEF Apagado, EnMover
  <2> QED
    BY <1>0, <1>4, <2>1, <2>2, NAssumption
    DEF OrdenCalibrar, Prudente, ConteoFiel, Cuentas
<1>5. ASSUME NEW v \in OrdenesFinalizar, OrdenFinalizar(v) PROVE Apagado'
  BY <1>5 DEF OrdenFinalizar, Prudente, Apagado, EnMover
<1> QED
  BY <1>1, <1>2, <1>3, <1>4, <1>5 DEF Orden

LEMMA ApagadoSigue ==
    ASSUME Prudente, TypeOK, Coherencia, ConteoFiel, Apagado, Sigue PROVE Apagado'
<1> USE DEF orden
<1>0. Medicion /\ Cuentas /\ ~Atrasado /\ ~Atrasado' /\ UNCHANGED fin
  <2>1. UNCHANGED fin
    BY DEF Sigue, Join, Pin1, Pin2, Fijar, Lanzar, DespuesDeDAH, CalCorto, CalArranque,
           CalParada, CalDah1, CalSale, CalDah2, CalFin, CalMide, FinStop, FinEnc
  <2> QED
    BY <2>1, Espera1, RestoQuieto DEF ConteoFiel, Atrasado, PinEncoder
<1>1. CASE Join \/ Pin1 \/ Pin2
  BY <1>0, <1>1 DEF Join, Pin1, Pin2, Apagado, EnMover
<1>2. CASE Fijar \/ Lanzar
  <2>1. marco.sig \in Continuaciones /\ pc \in EnMover \cup {"lanzar"}
    BY <1>2 DEF Fijar, Lanzar, EnMover, TypeOK, Marcos
  <2>2. pc' \in {marco.sig, "lanzar"}
    BY <1>2 DEF Fijar, Lanzar
  <2> QED
    BY <1>0, <2>1, <2>2 DEF Apagado, Medicion, Continuaciones, EnMover
<1>3. CASE DespuesDeDAH
  <2>1. PICK k \in Fuera : setPosicion("CW", "relativa", Plus, k)
    BY <1>3 DEF DespuesDeDAH, Fuera
  <2> QED
    BY <1>0, <2>1, SetPosicionRetirado, ApagadoRetirado
<1>4. CASE CalParada
  <2>1. ~Rechaza("CCW", "manual") /\ SentidoFinal("CCW", "manual", 0) = "CCW"
    BY <1>4 DEF CalParada, Rechaza, SentidoFinal
  <2>2. pc' = "pin1" /\ marco'.sig = "calDah1"
    BY <1>4, <2>1 DEF CalParada, setPosicion, Acepta, TypeOK, Marcos
  <2> QED
    BY <1>0, <2>2 DEF Apagado, EnMover
<1>5. CASE CalDah1
  <2>1. getDAH' = getDAH
    BY <1>0, <1>5, RestoQuieto DEF CalDah1, getDAH, cuenta, Prudente
  <2> QED
    BY <1>0, <1>5, <2>1 DEF CalDah1, Apagado, EnMover
<1>6. CASE CalCorto \/ CalArranque \/ CalSale \/ CalDah2 \/ CalFin \/ CalMide
  <2>1. pc # "calCorto"
    BY <1>0 DEF Medicion
  <2> QED
    BY <1>0, <1>6, <2>1
    DEF CalCorto, CalArranque, CalSale, CalDah2, CalFin, CalMide, Apagado, EnMover
<1>7. CASE FinStop \/ FinEnc
  BY <1>0, <1>7 DEF FinStop, FinEnc, Medicion, Apagado, EnMover
<1> QED
  BY <1>1, <1>2, <1>3, <1>4, <1>5, <1>6, <1>7 DEF Sigue

LEMMA ApagadoEncoder ==
    ASSUME Prudente, TypeOK, ConteoFiel, Apagado, Encoder PROVE Apagado'
<1>1. UNCHANGED <<orden, fin>> /\ Cuentas
  BY DEF Encoder, EncInicio, EncLee, EncMira, EncCuenta, EncDah, EncCorriente, EncFin,
         ConteoFiel
<1>2. Atrasado' => Atrasado
  <2>1. PinEncoder' = PinEncoder
    BY DEF Encoder, EncInicio, EncLee, EncMira, EncCuenta, EncDah, EncCorriente, EncFin,
           PinEncoder
  <2>2. CASE EncInicio \/ EncFin
    BY <2>1, <2>2 DEF EncInicio, EncFin, Atrasado, TypeOK
  <2>3. CASE EncLee \/ EncMira \/ EncCuenta
    BY <2>3 DEF EncLee, EncMira, EncCuenta, Atrasado
  <2>4. CASE EncDah \/ EncCorriente
    <3>1. enc'.ant = enc.ant /\ enc'.pc \in {"lee", "corriente"}
      BY <2>4 DEF EncDah, EncCorriente, TypeOK
    <3>2. PinEncoder = enc.ant
      BY <1>1, <2>4 DEF EncDah, EncCorriente, Cuentas
    <3> QED
      BY <2>1, <3>1, <3>2 DEF Atrasado
  <2> QED
    BY <2>2, <2>3, <2>4 DEF Encoder
<1>3. CASE EncCuenta
  <2>1. Atrasado
    BY <1>3 DEF EncCuenta, Atrasado
  <2> QED
    BY <1>1, <2>1 DEF Apagado, orden, EnMover
<1>4. CASE ~EncCuenta
  <2>1. getDAH' = getDAH
    BY <1>4 DEF Encoder, EncInicio, EncLee, EncMira, EncDah, EncCorriente, EncFin, cuenta,
                getDAH, Prudente
  <2> QED
    BY <1>1, <1>2, <2>1 DEF Apagado, orden
<1> QED
  BY <1>3, <1>4

LEMMA ApagadoPaso ==
    Prudente /\ TypeOK /\ Coherencia /\ ConteoFiel /\ Apagado /\ [Next]_vars => Apagado'
<1> SUFFICES ASSUME Prudente, TypeOK, Coherencia, ConteoFiel, Apagado, [Next]_vars
             PROVE  Apagado'
  OBVIOUS
<1>1. CASE UNCHANGED vars
  <2>1. UNCHANGED <<orden, fin, enc, giro>> /\ getDAH' = getDAH
    BY <1>1 DEF vars, cuenta, getDAH
  <2> QED
    BY <2>1 DEF Apagado, Atrasado, PinEncoder, orden
<1>2. ASSUME NEW h \in Hilos, Parador(h) PROVE Apagado'
  <2>1. UNCHANGED <<enc, giro, cuenta, fin, pc, marco>>
    BY <1>2 DEF Parador, Arranca, Vigila, Para1, Para2, Para, Para3, orden
  <2>2. getDAH' = getDAH /\ Atrasado' = Atrasado
    BY <2>1 DEF getDAH, cuenta, Atrasado, PinEncoder
  <2> QED
    BY <2>1, <2>2 DEF Apagado
<1>3. ASSUME NEW d \in {1, -1}, Gira(d) PROVE Apagado'
  BY <1>3 DEF Gira, Prudente, Apagado
<1> QED
  BY <1>1, <1>2, <1>3, ApagadoOrden, ApagadoSigue, ApagadoEncoder, NoDivide
  DEF Next, Cupula, ConteoFiel

(* A complete calibration, whenever it ends, has measured the turn of the  *)
(* dome and leaves the absolute counter where the dome is (calibrate).     *)
THEOREM CalibradoCorrecto == Prudente => (Spec => CalibraCorrecto)
<1> SUFFICES ASSUME Prudente PROVE Spec => CalibraCorrecto
  OBVIOUS
<1>1. Init => Apagado
  BY DEF Init, Apagado
<1>2. TypeOK /\ Coherencia /\ ConteoFiel /\ Apagado /\ [Next]_vars => Apagado'
  BY ApagadoPaso
<1>3. ASSUME TypeOK, Coherencia, ConteoFiel, Apagado, CalMide
      PROVE  maxPos' = N /\ posicionAbsoluta' = Posicion % N
  <2>1. ~Atrasado
    BY <1>3, Espera1 DEF Sigue
  <2>2. enc.pc # "fin"
    BY <1>3 DEF CalMide, Apagado, ConteoFiel, Cuentas
  <2> QED
    BY <1>3, <2>1, <2>2, MideUnaVuelta
<1>4. TypeOK /\ Coherencia /\ ConteoFiel /\ Apagado /\ [Next]_vars
      => [CalMide => maxPos' = N /\ posicionAbsoluta' = Posicion % N]_vars
  BY <1>3
<1>5. Spec => []TypeOK /\ []Coherencia /\ []ConteoFiel
  BY TipoCorrecto, Coherente, ConteoCoherente DEF Prudente
<1> QED
  BY <1>1, <1>2, <1>4, <1>5, PTL DEF Spec, CalibraCorrecto
=============================================================================
