------------------------- MODULE TratamientoProofs -------------------------
(***************************************************************************)
(* tratamientoMensaje keeps to the orders that CupulaFija allows, so that  *)
(* what is proved of the fixed part holds of it in the whole program.      *)
(***************************************************************************)
EXTENDS Tratamiento, EncoderProofs

(***************************************************************************)
(* The check of a request: what is left of its parameters begins with one  *)
(* of the words that the table has for the order.                          *)
(***************************************************************************)
LEMMA PrimerParametro ==
    ASSUME NEW S, {"CW", "CORTA"} \subseteq S, NEW o, NEW ps \in Seq(S),
           NEW x \in Revisa(o, ps), x.res = "OK", o \in {"mover", "setPosicion"}
    PROVE  /\ o = "mover" => x.ps[1] \in {"CW", "CCW"}
           /\ o = "setPosicion" => x.ps[1] \in Sentidos
<1> DEFINE c == comandos[o]
<1>1. /\ o = "mover" => c.fila = <<"CW", "CW", "CCW">> /\ c.num_param = 1
      /\ o = "setPosicion" => /\ c.fila = <<"CORTA", "CORTA", "CW", "CCW">>
                              /\ c.num_param = 3
  BY DEF comandos, comando
<1>2. x.ps \in Completos(c, ps) /\ (Len(ps) >= 1 => Vale(ps[1], c.fila))
  BY DEF Revisa, OK, KO, Muere
<1> DEFINE uno == IF ps = <<>> THEN <<c.fila[1]>> ELSE ps
<1>3. c.fila[1] \notin Marcas /\ c.num_param > 0
  BY <1>1 DEF Marcas
<1>4. Completos(c, ps) = {uno} \cup {uno \o [i \in 1 .. n |-> Hallado] :
                             n \in 1 .. IF uno = <<>> THEN 0 ELSE c.num_param - Len(uno)}
  BY <1>3 DEF Completos
<1>5. x.ps[1] = uno[1]
  <2>0. c.fila[1] \in S
    BY <1>1
  <2>1. uno \in Seq(S) /\ Len(uno) >= 1
    <3>1. CASE ps = <<>>
      BY <2>0, <3>1
    <3>2. CASE ps # <<>>
      BY <3>2
    <3> QED
      BY <3>1, <3>2
  <2>2. CASE x.ps = uno
    BY <2>2
  <2>3. ASSUME NEW n \in Nat, x.ps = uno \o [i \in 1 .. n |-> Hallado]
        PROVE  x.ps[1] = uno[1]
    BY <2>1, <2>3
  <2>4. CASE x.ps # uno
    <3>1. PICK n \in 1 .. IF uno = <<>> THEN 0 ELSE c.num_param - Len(uno) :
              x.ps = uno \o [i \in 1 .. n |-> Hallado]
      BY <1>2, <1>4, <2>4
    <3>2. n \in Nat
      BY <1>1, <2>1, <3>1
    <3> QED
      BY <2>3, <3>1, <3>2
  <2> QED
    BY <2>2, <2>4
<1>6. CASE ps = <<>>
  BY <1>1, <1>5, <1>6 DEF Sentidos
<1>7. CASE ps # <<>>
  <2>1. Vale(ps[1], c.fila)
    BY <1>2, <1>7
  <2> QED
    BY <1>1, <1>5, <1>7, <2>1 DEF Vale, Sentidos
<1> QED
  BY <1>6, <1>7

(***************************************************************************)
(* Each step is a step of the fixed part, or leaves it as it is.           *)
(***************************************************************************)
LEMMA AnguloEsOrden ==
    ASSUME NEW o, NEW ps, o = "setPosicion" => ps[1] \in Sentidos,
           Cabe, SetPosicion(o, ps)
    PROVE  Orden
<1>1. PICK tp \in TiposLeidos(Leido(ps, 2)) :
          OrdenAngulo(ps[1], tp, IF Len(ps) = 3 THEN stoi[ps[3]] ELSE 0)
  BY DEF SetPosicion
<1> DEFINE g == IF Len(ps) = 3 THEN stoi[ps[3]] ELSE 0
           a == <<ps[1], tp, g>>
<1>2. g \in Grados
  BY DEF SetPosicion, GradosValidos, Convierte, Grados
<1>3. tp \in tipoPosicion
  BY DEF TiposLeidos, tipoPosicion
<1>4. a \in OrdenesAngulo
  BY <1>2, <1>3, TratamientoAssumption DEF SetPosicion
<1>5. a[1] = ps[1] /\ a[2] = tp /\ a[3] = g
  OBVIOUS
<1>6. OrdenAngulo(a[1], a[2], a[3])
  BY <1>1, <1>5
<1> HIDE DEF a
<1> QED
  BY <1>4, <1>6 DEF Orden

LEMMA TrataEsOrden ==
    ASSUME NEW o, NEW ps, o = "mover" => ps[1] \in {"CW", "CCW"},
           o = "setPosicion" => ps[1] \in Sentidos,
           o = "parar" \/ Cabe, Trata(o, ps)
    PROVE  Orden \/ UNCHANGED vars
<1>1. CASE SetPosicion(o, ps)
  BY <1>1, AnguloEsOrden DEF SetPosicion
<1>2. CASE Calibrar(o, ps)
  <2>1. PICK adah \in BOOLEAN : OrdenCalibrar(ps[1] = "si", adah)
    BY <1>2 DEF Calibrar
  <2>2. PICK re \in BOOLEAN : OrdenCalibrar(re, adah)
    BY <2>1
  <2> DEFINE a == <<re, adah>>
  <2>3. a \in OrdenesCalibrar /\ a[1] = re /\ a[2] = adah
    BY TratamientoAssumption
  <2>4. OrdenCalibrar(a[1], a[2])
    BY <2>2, <2>3
  <2> HIDE DEF a
  <2> QED
    BY <1>2, <2>3, <2>4 DEF Orden, Calibrar
<1>3. CASE Mover(o, ps)
  BY <1>3, TratamientoAssumption DEF Mover, Orden
<1>4. CASE Parar(o)
  BY <1>4, TratamientoAssumption DEF Parar, Orden
<1>5. CASE OrdenPosicion("CORTA", "dah", 0) /\ o # "parar"
  <2> DEFINE a == <<"CORTA", "dah", 0>>
  <2>1. a \in OrdenesPosicion /\ a[1] = "CORTA" /\ a[2] = "dah" /\ a[3] = 0
    BY TratamientoAssumption
  <2>2. OrdenPosicion(a[1], a[2], a[3])
    BY <1>5, <2>1
  <2> HIDE DEF a
  <2> QED
    BY <1>5, <2>1, <2>2 DEF Orden
<1>6. CASE OrdenDAH(TRUE) /\ o # "parar"
  BY <1>6, TratamientoAssumption DEF Orden
<1> QED
  BY <1>1, <1>2, <1>3, <1>4, <1>5, <1>6
     DEF Trata, SetDomeAtHome, ConectarMovil, Aparte

LEMMA PasoDeLaCupula == [Siguiente]_Variables => [Next]_vars
<1> SUFFICES ASSUME [Siguiente]_Variables PROVE [Next]_vars
  OBVIOUS
<1>1. ASSUME NEW p \in Recibidas, Toma(p) PROVE [Next]_vars
  <2>1. CASE UNCHANGED vars
    BY <2>1
  <2>2. ASSUME NEW x \in Revisa(p.orden, p.ps), x.res = "OK", Trata(p.orden, x.ps)
        PROVE  [Next]_vars
    <3> DEFINE S == {p.ps[n] : n \in DOMAIN p.ps} \cup {"CW", "CORTA"}
    <3>1. p.ps \in Seq(S)
      <4>1. p.ps \in Seq({p.ps[n] : n \in DOMAIN p.ps})
        BY RecibidasAssumption
      <4>2. DOMAIN p.ps = 1 .. Len(p.ps) /\ Len(p.ps) \in Nat
        BY <4>1
      <4> QED
        BY <4>1, <4>2
    <3>2. /\ p.orden = "mover" => x.ps[1] \in {"CW", "CCW"}
          /\ p.orden = "setPosicion" => x.ps[1] \in Sentidos
      BY <2>2, <3>1, PrimerParametro
    <3>3. Orden \/ UNCHANGED vars
      BY <1>1, <2>2, <3>2, TrataEsOrden DEF Toma
    <3> QED
      BY <3>3 DEF Next
  <2> QED
    BY <1>1, <2>1, <2>2 DEF Toma
<1>2. CASE PasoMain
  BY <1>2 DEF PasoMain, Next, Vuelve, Responde, MiraDAH, MiraCorriente, Mira, Duerme, Conecta
<1>3. ASSUME NEW h \in Hilos, Parador(h) PROVE [Next]_vars
  BY <1>3 DEF Next
<1>4. CASE PasoEncoder
  BY <1>4 DEF PasoEncoder, Next
<1>5. CASE PasoCupula
  BY <1>5 DEF PasoCupula, Next
<1>6. CASE UNCHANGED Variables
  BY <1>6 DEF Variables
<1>7. ASSUME NEW h \in Hilos, PasoDivide(h) PROVE [Next]_vars
  BY <1>7 DEF PasoDivide, Next
<1> QED
  BY <1>1, <1>2, <1>3, <1>4, <1>5, <1>6, <1>7 DEF Siguiente, PasoParador

(* Whatever the clients send, main uses the fixed part as CupulaFija says  *)
(* that it is used (ImplementaCupula).                                     *)
THEOREM UsaLaCupula == Programa => ImplementaCupula
<1>1. Arranque => Init
  BY DEF Arranque
<1> QED
  BY <1>1, PasoDeLaCupula, PTL DEF Programa, ImplementaCupula

LEMMA TipoDeLaCupula == Programa => []TypeOK
<1>1. TypeOK /\ [Siguiente]_Variables => TypeOK'
  BY TipoPaso, PasoDeLaCupula
<1>2. Arranque => TypeOK
  BY TipoInicial DEF Arranque
<1> QED
  BY <1>1, <1>2, PTL DEF Programa

(* No request of any client, malformed ones included, makes the program    *)
(* command the two relays together (InterbloqueoActuadores).               *)
THEOREM InterbloqueoPrograma == Programa => []InterbloqueoActuadores
<1>1. Arranque => InterbloqueoActuadores /\ SueltaAntes
  BY DEF Arranque, Init, EnReposo, Pines, InterbloqueoActuadores, SueltaAntes
<1>2. TypeOK /\ InterbloqueoActuadores /\ SueltaAntes /\ [Siguiente]_Variables
      => (InterbloqueoActuadores /\ SueltaAntes)'
  BY InterbloqueoPaso, PasoDeLaCupula
<1> QED
  BY <1>1, <1>2, TipoDeLaCupula, PTL DEF Programa

(* What parar and conectarMovil rest on: main carries out nothing once it  *)
(* has gone on to something else.                                          *)
Ocupado == pc # "libre" => tr \in {"cf", "miraDAH", "muerto"}

(* When a request is answered the fixed part has finished with it.         *)
LEMMA TomaDeja ==
    ASSUME NEW p \in Recibidas, Toma(p)
    PROVE  /\ tr = "fuera"
           /\ \/ UNCHANGED vars /\ tr' \in {"cm", "responde", "muerto", "miraDAH"}
              \/ tr' \in {"cf", "miraDAH", "muerto"}
<1>1. CASE UNCHANGED vars /\ (Deja("KO") \/ Muerte)
  BY <1>1 DEF Toma, Deja, Muerte
<1>2. ASSUME NEW x \in Revisa(p.orden, p.ps), Trata(p.orden, x.ps)
      PROVE  \/ UNCHANGED vars /\ tr' \in {"cm", "responde", "muerto", "miraDAH"}
             \/ tr' \in {"cf", "miraDAH", "muerto"}
  BY <1>2 DEF Trata, SetPosicion, Calibrar, Mover, Parar, SetDomeAtHome, ConectarMovil,
              Aparte, Consulta, Niega, Lanza, PideMovil, Deja, Muerte, Llama, VaA
<1> QED
  BY <1>1, <1>2 DEF Toma

LEMMA SigueOcupado == Sigue => pc # "libre"
BY DEF Sigue, Join, Pin1, Pin2, Fijar, Lanzar, DespuesDeDAH, CalCorto, CalArranque,
       CalParada, CalDah1, CalSale, CalDah2, CalFin, CalMide, FinStop, FinEnc

LEMMA OtrosNoMandan ==
    (\E h \in Hilos : Parador(h)) \/ Encoder \/ Cupula => UNCHANGED orden
BY DEF Parador, Arranca, Vigila, Para1, Para2, Para3, Para, Encoder, EncInicio, EncLee,
       EncMira, EncCuenta, EncDah, EncCorriente, EncFin, Cupula, Gira

LEMMA OcupadoPaso == Ocupado /\ [Siguiente]_Variables => Ocupado'
<1> SUFFICES ASSUME Ocupado, [Siguiente]_Variables PROVE Ocupado'
  OBVIOUS
<1>1. ASSUME NEW p \in Recibidas, Toma(p) PROVE Ocupado'
  BY <1>1, TomaDeja DEF Ocupado, vars, orden
<1>2. CASE Sigue /\ UNCHANGED tratamiento
  BY <1>2, SigueOcupado DEF Ocupado, tratamiento
<1>3. CASE Vuelve \/ Responde \/ MiraDAH \/ MiraCorriente \/ Duerme \/ Conecta
  BY <1>3 DEF Vuelve, Responde, MiraDAH, MiraCorriente, Mira, Duerme, Conecta, Ocupado,
              vars, orden
<1>4. CASE UNCHANGED orden /\ UNCHANGED tratamiento
  BY <1>4 DEF Ocupado, orden, tratamiento
<1>5. ASSUME NEW h \in Hilos, PasoDivide(h) PROVE Ocupado'
  BY <1>5 DEF PasoDivide, Muerte, Ocupado
<1> QED
  BY <1>1, <1>2, <1>3, <1>4, <1>5, OtrosNoMandan
     DEF Siguiente, PasoMain, PasoParador, PasoEncoder, PasoCupula, Variables, vars

LEMMA OcupadoSiempre == Programa => []Ocupado
<1>1. Arranque => Ocupado
  BY DEF Arranque, Init, Ocupado
<1> QED
  BY <1>1, OcupadoPaso, PTL DEF Programa

(***************************************************************************)
(* What a request leaves behind.  A wait that is asleep has a second left; *)
(* only an order of DeLaMovil waits for the mobile part; and what makes a  *)
(* treatment throw is a parameter that its check has not been able to see. *)
(***************************************************************************)
Causa == getComando(atendida)
         /\ (comandos[atendida].num_param > 1 \/ atendida \in DeLaMovil)

Tratado ==
    /\ TypeTratamiento
    /\ tr = "duermeDAH" => segundos < EsperasDAH
    /\ tr = "duermeCorriente" => segundos < EsperasCorriente
    /\ tr = "cm" => Causa
    /\ MuereConCausa

LEMMA DosParametros ==
    ASSUME NEW o, o \in DeLaMovil \cup {"setPosicion", "calibrar"}
    PROVE  /\ getComando(o)
           /\ comandos[o].num_param > 1 \/ o \in DeLaMovil
BY DEF getComando, comandos, comando, DeLaMovil

LEMMA RevisaResultado ==
    ASSUME NEW o, NEW ps, NEW x \in Revisa(o, ps)
    PROVE  x.res = "muere" => getComando(o) /\ comandos[o].num_param > 1
BY DEF Revisa, OK, KO, Muere

(* The treatments leave the size of the dome as it is, and a call does not *)
(* come back if it has divided by 0.                                       *)
LEMMA SinTamano ==
    ASSUME NEW sm, NEW tp, NEW n, NEW v, NEW sig \in Continuaciones, pc' = "muerto",
           setPosicion(sm, tp, n, sig) \/ setDAH(v, sig)
    PROVE  maxPos = 0
<1>1. \A s, t, m : \A k \in Continuaciones : setPosicion(s, t, m, k) => maxPos = 0
  BY DEF setPosicion, Acepta, DivideEntreCero, Continuaciones
<1>2. CASE ~getDAH /\ setDAH(v, sig)
  <2>1. PICK k \in Continuaciones : VeADAH(k)
    BY <1>2 DEF setDAH, Continuaciones
  <2> QED
    BY <1>1, <2>1 DEF VeADAH
<1>3. CASE getDAH /\ setDAH(v, sig)
  BY <1>1, <1>3 DEF setDAH, Continuaciones
<1> QED
  BY <1>1, <1>2, <1>3

LEMMA TrataLlama ==
    ASSUME NEW o, NEW ps, pc = "libre", Trata(o, ps)
    PROVE  /\ maxPos' = maxPos
           /\ \/ Aparte(o, ps)
              \/ tr' \in {"cf", "miraDAH"} /\ respuesta' = respuesta
              \/ tr' = "muerto" /\ maxPos = 0 /\ respuesta' = respuesta
<1>0. {"libre", "calCorto", "calArranque"} \subseteq Continuaciones
  BY DEF Continuaciones
<1>1. CASE Aparte(o, ps)
  BY <1>1 DEF Aparte, vars, calib
<1>2. ASSUME NEW a, NEW b, OrdenMover(a) \/ OrdenPosicion("CORTA", "dah", 0) \/ OrdenDAH(TRUE)
                           \/ OrdenCalibrar(a, b) \/ UNCHANGED vars
      PROVE  maxPos' = maxPos /\ (pc' = "muerto" => maxPos = 0)
  <2>1. CASE OrdenMover(a) \/ UNCHANGED vars
    BY <2>1 DEF OrdenMover, mover, calib, vars, orden
  <2>2. CASE OrdenPosicion("CORTA", "dah", 0) \/ OrdenDAH(TRUE)
    BY <1>0, <2>2, SinTamano DEF OrdenPosicion, OrdenDAH, calib
  <2>3. CASE OrdenCalibrar(a, b)
    BY <1>0, <2>3, SinTamano DEF OrdenCalibrar, orden
  <2> QED
    BY <1>2, <2>1, <2>2, <2>3
<1>3. ASSUME NEW a, NEW t, NEW g, OrdenAngulo(a, t, g)
      PROVE  maxPos' = maxPos /\ (pc' = "muerto" => maxPos = 0)
  BY <1>0, <1>3, SinTamano DEF OrdenAngulo, DivideEntreCero, calib
<1>4. CASE ~Aparte(o, ps)
  <2>1. /\ tr' \in {"cf", "miraDAH"} \/ (tr' = "muerto" /\ pc' = "muerto")
        /\ respuesta' = respuesta
    BY <1>4 DEF Trata, SetPosicion, Calibrar, Mover, Parar, SetDomeAtHome, ConectarMovil,
                Llama, VaA
  <2>2. maxPos' = maxPos /\ (pc' = "muerto" => maxPos = 0)
    BY <1>2, <1>3, <1>4 DEF Trata, SetPosicion, Calibrar, Mover, Parar, SetDomeAtHome,
                            ConectarMovil
  <2> QED
    BY <2>1, <2>2
<1> QED
  BY <1>1, <1>4

LEMMA TomaTratado ==
    ASSUME TypeOK, Ocupado, Tratado, NEW p \in Recibidas, Toma(p) PROVE Tratado'
<1>1. /\ atendida' = p.orden /\ segundos' = 0 /\ puerto' = puerto
      /\ quieta' \in BOOLEAN
      /\ tr = "fuera" /\ pc = "libre"
  BY DEF Toma, Ocupado
<1>2. PICK x \in Revisa(p.orden, p.ps) :
          \/ x.res = "OK" /\ Trata(p.orden, x.ps)
          \/ x.res = "KO" /\ Deja("KO")
          \/ x.res = "muere" /\ Muerte
  BY DEF Toma
<1>3. /\ tr' \in {"cf", "cm", "miraDAH", "responde", "muerto"}
      /\ respuesta' \in {"", "OK", "KO"}
      /\ tr' = "cm" => Causa'
      /\ tr' = "muerto" => Causa' \/ maxPos' = 0
  <2>0. respuesta \in {"", "OK", "KO"}
    BY DEF Tratado, TypeTratamiento
  <2>1. CASE x.res = "KO" /\ Deja("KO")
    BY <2>1 DEF Deja
  <2>2. CASE x.res = "muere" /\ Muerte
    BY <1>1, <2>0, <2>2, RevisaResultado DEF Muerte, Causa
  <2>3. CASE x.res = "OK" /\ Trata(p.orden, x.ps)
    <3>1. CASE Aparte(p.orden, x.ps)
      <4>1. CASE Consulta(p.orden, x.ps) \/ Niega(p.orden, x.ps)
        <5>1. maxPos' = maxPos
          BY <3>1 DEF Aparte, vars, calib
        <5> QED
          BY <2>0, <4>1, <5>1 DEF Consulta, Niega, Deja, Muerte
      <4>2. CASE Lanza(p.orden, x.ps) \/ PideMovil(p.orden, x.ps)
        <5>1. p.orden \in DeLaMovil \cup {"setPosicion", "calibrar"}
          BY <4>2 DEF Lanza, PideMovil, DeLaMovil
        <5>2. tr' \in {"cm", "muerto"} /\ respuesta' = respuesta
          BY <4>2 DEF Lanza, PideMovil, Muerte
        <5> QED
          BY <1>1, <2>0, <5>1, <5>2, DosParametros DEF Causa
      <4> QED
        BY <3>1, <4>1, <4>2 DEF Aparte
    <3>2. CASE ~Aparte(p.orden, x.ps)
      BY <1>1, <2>0, <2>3, <3>2, TrataLlama
    <3> QED
      BY <3>1, <3>2
  <2> QED
    BY <1>2, <2>1, <2>2, <2>3
<1>4. atendida' \in {q.orden : q \in Recibidas} \cup {""}
  BY <1>1
<1>5. MuereConCausa'
  BY <1>3 DEF MuereConCausa, Causa
<1>6. puerto' \in {"nulo", "abierto", "fallido"}
  BY <1>1 DEF Tratado, TypeTratamiento
<1>7. TypeTratamiento'
  <2>1. segundos' \in Nat /\ segundos' <= EsperasDAH /\ segundos' <= EsperasCorriente
    BY <1>1, EsperasAssumption
  <2> QED
    BY <1>1, <1>3, <1>4, <1>6, <2>1 DEF TypeTratamiento
<1> QED
  BY <1>3, <1>5, <1>7 DEF Tratado

LEMMA EsperaTratada ==
    ASSUME Tratado, atendida' = atendida, quieta' = quieta, puerto' = puerto,
           respuesta' \in {respuesta, "KO"}, segundos' \in Nat,
           \/ tr' = "miraDAH" /\ segundos' <= EsperasDAH
           \/ tr' = "duermeDAH" /\ segundos' < EsperasDAH
           \/ tr' = "miraCorriente" /\ segundos' <= EsperasCorriente
           \/ tr' = "duermeCorriente" /\ segundos' < EsperasCorriente
           \/ tr' \in {"conecta", "responde"}
    PROVE  Tratado'
<1> USE EsperasAssumption
<1>1. /\ respuesta' \in {"", "OK", "KO"}
      /\ atendida' \in {p.orden : p \in Recibidas} \cup {""}
      /\ puerto' \in {"nulo", "abierto", "fallido"} /\ quieta' \in BOOLEAN
  BY DEF Tratado, TypeTratamiento
<1>2. tr' \in {"miraDAH", "duermeDAH"} => segundos' <= EsperasDAH
  <2>1. CASE tr' = "miraDAH"
    BY <2>1
  <2>2. CASE tr' = "duermeDAH"
    BY <2>2
  <2> QED
    BY <2>1, <2>2
<1>3. tr' \in {"miraCorriente", "duermeCorriente"} => segundos' <= EsperasCorriente
  <2>1. CASE tr' = "miraCorriente"
    BY <2>1
  <2>2. CASE tr' = "duermeCorriente"
    BY <2>2
  <2> QED
    BY <2>1, <2>2
<1>4. /\ tr' \in {"miraDAH", "duermeDAH", "miraCorriente", "duermeCorriente",
                  "conecta", "responde"}
      /\ tr' = "duermeDAH" => segundos' < EsperasDAH
      /\ tr' = "duermeCorriente" => segundos' < EsperasCorriente
  OBVIOUS
<1>5. TypeTratamiento'
  BY <1>1, <1>2, <1>3, <1>4 DEF TypeTratamiento
<1> QED
  BY <1>4, <1>5 DEF Tratado, MuereConCausa

LEMMA TratadoPaso == TypeOK /\ Ocupado /\ Tratado /\ [Siguiente]_Variables => Tratado'
<1> SUFFICES ASSUME TypeOK, Ocupado, Tratado, [Siguiente]_Variables PROVE Tratado'
  OBVIOUS
<1> USE EsperasAssumption
<1>1. ASSUME NEW p \in Recibidas, Toma(p) PROVE Tratado'
  BY <1>1, TomaTratado
<1>2. CASE UNCHANGED tratamiento /\ (tr = "muerto" => UNCHANGED maxPos)
  BY <1>2 DEF tratamiento, Tratado, TypeTratamiento, Causa, MuereConCausa
<1>a. ASSUME Cupula \/ UNCHANGED vars PROVE UNCHANGED maxPos
  BY <1>a DEF Cupula, Gira, vars, calib
<1>b. ASSUME NEW h \in Hilos, PasoDivide(h) PROVE Tratado'
  BY <1>b DEF PasoDivide, Divide, DivideEntreCero, Muerte, Tratado, TypeTratamiento,
              MuereConCausa, calib
<1>3. CASE Vuelve
  BY <1>3 DEF Vuelve, Deja, Muerte, Tratado, TypeTratamiento, Causa, MuereConCausa
<1>4. CASE Responde
  BY <1>4 DEF Responde, Tratado, TypeTratamiento, MuereConCausa
<1>5. CASE MiraDAH
  <2>1. /\ tr = "miraDAH" /\ atendida' = atendida /\ quieta' = quieta
        /\ puerto' = puerto /\ respuesta' \in {respuesta, "KO"}
        /\ \/ tr' = "duermeDAH" /\ segundos < EsperasDAH /\ segundos' = segundos
           \/ tr' = "miraCorriente" /\ segundos' = 0
           \/ tr' = "responde" /\ segundos' = segundos
    BY <1>5 DEF MiraDAH, Mira, Deja
  <2>2. segundos \in Nat
    BY DEF Tratado, TypeTratamiento
  <2> QED
    BY <2>1, <2>2, EsperaTratada
<1>6. CASE MiraCorriente
  <2>1. /\ tr = "miraCorriente" /\ atendida' = atendida /\ quieta' = quieta
        /\ puerto' = puerto /\ respuesta' \in {respuesta, "KO"}
        /\ \/ tr' = "duermeCorriente" /\ segundos < EsperasCorriente
              /\ segundos' = segundos
           \/ tr' = "conecta" /\ segundos' = 0
           \/ tr' = "responde" /\ segundos' = segundos
    BY <1>6 DEF MiraCorriente, Mira, Deja
  <2>2. segundos \in Nat
    BY DEF Tratado, TypeTratamiento
  <2> QED
    BY <2>1, <2>2, EsperaTratada
<1>7. CASE Duerme
  <2>1. /\ \/ tr = "duermeDAH" /\ tr' = "miraDAH"
           \/ tr = "duermeCorriente" /\ tr' = "miraCorriente"
        /\ segundos' = segundos + 1 /\ atendida' = atendida /\ quieta' = quieta
        /\ puerto' = puerto /\ respuesta' = respuesta
    BY <1>7 DEF Duerme
  <2>2. /\ segundos \in Nat
        /\ tr = "duermeDAH" => segundos < EsperasDAH
        /\ tr = "duermeCorriente" => segundos < EsperasCorriente
    BY DEF Tratado, TypeTratamiento
  <2> QED
    BY <2>1, <2>2, EsperaTratada
<1>8. CASE Conecta
  BY <1>8 DEF Conecta, Deja, Tratado, TypeTratamiento, MuereConCausa
<1> QED
  BY <1>1, <1>2, <1>3, <1>4, <1>5, <1>6, <1>7, <1>8, <1>a, <1>b
     DEF Siguiente, PasoMain, PasoParador, PasoEncoder, PasoCupula, Variables

LEMMA TratadoSiempre == Programa => []Tratado
<1>1. Arranque => Tratado
  <2> SUFFICES ASSUME Arranque PROVE Tratado
    OBVIOUS
  <2>1. tr = "fuera" /\ atendida = "" /\ respuesta = "" /\ segundos = 0
        /\ puerto = "nulo" /\ quieta = TRUE
    BY DEF Arranque
  <2> QED
    BY <2>1 DEF Tratado, TypeTratamiento, MuereConCausa
<1> QED
  BY <1>1, TratadoPaso, TipoDeLaCupula, OcupadoSiempre, PTL DEF Programa

(* Type correctness of tratamientoMensaje: the seconds of a wait never go  *)
(* past its limit.                                                         *)
THEOREM TipoTratamiento == Programa => []TypeTratamiento
<1>1. Tratado => TypeTratamiento
  BY DEF Tratado
<1> QED
  BY <1>1, TratadoSiempre, PTL

(* An order of the fixed part with one parameter at most never takes the   *)
(* program down, whatever the request says, unless the dome was measured   *)
(* with no encoder thread and its size is 0 (MuereConCausa).               *)
THEOREM SoloConCausa == Programa => []MuereConCausa
<1>1. Tratado => MuereConCausa
  BY DEF Tratado
<1> QED
  BY <1>1, TratadoSiempre, PTL

(***************************************************************************)
(* Relative movements by the short way, which leave threads that nobody    *)
(* stops, are what a client has to keep away from for the rest: a request  *)
(* to setPosicion says which way, or that the position is absolute, with   *)
(* the word that the code looks for.                                       *)
(***************************************************************************)
SinCortaPedida ==
    \A p \in Recibidas : p.orden = "setPosicion" =>
        /\ Len(p.ps) >= 1
        /\ p.ps[1] = "CORTA" => Len(p.ps) >= 2 /\ p.ps[2] = "absluta"

LEMMA SegundoParametro ==
    ASSUME NEW S, "CORTA" \in S, NEW ps \in Seq(S), Len(ps) >= 1,
           NEW x \in Revisa("setPosicion", ps), x.res = "OK"
    PROVE  /\ x.ps[1] = ps[1]
           /\ Len(ps) >= 2 => Leido(x.ps, 2) = ps[2]
<1> DEFINE c == comandos["setPosicion"]
<1>1. c.fila[1] = "CORTA" /\ c.num_param = 3
  BY DEF comandos, comando
<1>2. x.ps \in Completos(c, ps)
  BY DEF Revisa, OK, KO, Muere
<1>3. Completos(c, ps) = {ps} \cup {ps \o [i \in 1 .. n |-> Hallado] :
                              n \in 1 .. IF ps = <<>> THEN 0 ELSE c.num_param - Len(ps)}
  <2> DEFINE uno == IF ps = <<>> /\ c.num_param > 0 /\ c.fila[1] \notin Marcas
                    THEN <<c.fila[1]>> ELSE ps
  <2>1. Completos(c, ps) = {uno} \cup {uno \o [i \in 1 .. n |-> Hallado] :
                               n \in 1 .. IF uno = <<>> THEN 0 ELSE c.num_param - Len(uno)}
    BY DEF Completos
  <2>2. uno = ps
    <3>1. ps # <<>>
      OBVIOUS
    <3> QED
      BY <3>1
  <2> HIDE DEF uno
  <2> QED
    BY <2>1, <2>2
<1>4. CASE x.ps = ps
  BY <1>4 DEF Leido
<1>5. ASSUME NEW n \in Nat, x.ps = ps \o [i \in 1 .. n |-> Hallado]
      PROVE  /\ x.ps[1] = ps[1]
             /\ Len(ps) >= 2 => Leido(x.ps, 2) = ps[2]
  <2>1. Len(x.ps) = Len(ps) + n /\ Len(ps) \in Nat
    BY <1>5
  <2>2. x.ps[1] = ps[1] /\ (Len(ps) >= 2 => x.ps[2] = ps[2])
    BY <1>5
  <2> QED
    BY <2>1, <2>2 DEF Leido
<1>6. CASE x.ps # ps
  <2>1. PICK n \in 1 .. IF ps = <<>> THEN 0 ELSE c.num_param - Len(ps) :
            x.ps = ps \o [i \in 1 .. n |-> Hallado]
    BY <1>2, <1>3, <1>6
  <2>2. n \in Nat
    BY <1>1, <2>1
  <2> QED
    BY <1>5, <2>1, <2>2
<1> QED
  BY <1>4, <1>6

LEMMA TomaCoherente ==
    ASSUME SinCortaPedida, TypeOK, Coherencia, NEW p \in Recibidas, Toma(p)
    PROVE  Coherencia'
<1>1. CASE UNCHANGED vars
  BY <1>1, CoherenciaAjena
<1>2. ASSUME NEW x \in Revisa(p.orden, p.ps), x.res = "OK", Trata(p.orden, x.ps)
      PROVE  Coherencia'
  <2> DEFINE S == {p.ps[n] : n \in DOMAIN p.ps} \cup {"CW", "CORTA"}
             o == p.orden
             ps == x.ps
  <2>0. p.ps \in Seq(S)
    <3>1. p.ps \in Seq({p.ps[n] : n \in DOMAIN p.ps})
      BY RecibidasAssumption
    <3>2. DOMAIN p.ps = 1 .. Len(p.ps) /\ Len(p.ps) \in Nat
      BY <3>1
    <3> QED
      BY <3>1, <3>2
  <2> HIDE DEF S
  <2>1. CASE SetPosicion(o, ps)
    <3>1. PICK tp \in TiposLeidos(Leido(ps, 2)) :
              OrdenAngulo(ps[1], tp, IF Len(ps) = 3 THEN stoi[ps[3]] ELSE 0)
      BY <2>1 DEF SetPosicion
    <3> DEFINE g == IF Len(ps) = 3 THEN stoi[ps[3]] ELSE 0
    <3>2. g \in Int
      BY <2>1 DEF SetPosicion, GradosValidos
    <3>3. o = "setPosicion" /\ tp \in tipoPosicion
      BY <2>1 DEF SetPosicion, TiposLeidos, tipoPosicion
    <3>4. ps[1] \in Sentidos /\ "CORTA" \in S
      BY <1>2, <2>0, <3>3, PrimerParametro DEF S
    <3>5. ~(ps[1] = "CORTA" /\ tp = "relativa")
      <4>1. Len(p.ps) >= 1 /\ (p.ps[1] = "CORTA" => Len(p.ps) >= 2 /\ p.ps[2] = "absluta")
        BY <3>3 DEF SinCortaPedida
      <4>2. ps[1] = p.ps[1] /\ (Len(p.ps) >= 2 => Leido(ps, 2) = p.ps[2])
        BY <1>2, <2>0, <3>3, <3>4, <4>1, SegundoParametro
      <4>3. ps[1] = "CORTA" => TiposLeidos(Leido(ps, 2)) = {"absoluta"}
        BY <4>1, <4>2 DEF TiposLeidos
      <4> QED
        BY <4>3
    <3>6. OrdenAngulo(ps[1], tp, g)
      BY <3>1
    <3> HIDE DEF g
    <3>7. ps[1] \in sentidoMovimiento
      BY <3>4 DEF Sentidos, sentidoMovimiento
    <3> QED
      BY <3>2, <3>3, <3>5, <3>6, <3>7, OrdenPosicionCoherente
  <2>2. CASE Calibrar(o, ps)
    <3>1. PICK re, adah : OrdenCalibrar(re, adah)
      BY <2>2 DEF Calibrar
    <3> QED
      BY <3>1, OrdenCalibrarCoherente
  <2>3. CASE Mover(o, ps)
    <3>1. ps[1] \in {"CW", "CCW"} /\ OrdenMover(ps[1])
      BY <1>2, <2>0, <2>3, PrimerParametro DEF Mover, S
    <3> QED
      BY <3>1, OrdenMoverCoherente
  <2>4. CASE OrdenMover("PARADO")
    BY <2>4, OrdenMoverCoherente
  <2>5. CASE OrdenPosicion("CORTA", "dah", 0)
    <3>1. "CORTA" \in sentidoMovimiento /\ "dah" \in tipoPosicion /\ 0 \in Int
      BY DEF sentidoMovimiento, tipoPosicion
    <3> QED
      BY <2>5, <3>1, OrdenPosicionCoherente
  <2>6. CASE OrdenDAH(TRUE)
    BY <2>6, OrdenDAHCoherente
  <2> QED
    BY <1>1, <1>2, <2>1, <2>2, <2>3, <2>4, <2>5, <2>6
       DEF Trata, Parar, SetDomeAtHome, ConectarMovil, Aparte
<1> QED
  BY <1>1, <1>2 DEF Toma

LEMMA ProgramaCoherente == SinCortaPedida => (Programa => []Coherencia)
<1> SUFFICES ASSUME SinCortaPedida PROVE Programa => []Coherencia
  OBVIOUS
<1>1. TypeOK /\ Coherencia /\ [Siguiente]_Variables => Coherencia'
  <2> SUFFICES ASSUME TypeOK, Coherencia, [Siguiente]_Variables PROVE Coherencia'
    OBVIOUS
  <2>1. ASSUME NEW p \in Recibidas, Toma(p) PROVE Coherencia'
    BY <2>1, TomaCoherente
  <2>2. CASE Sigue
    BY <2>2, CoherenciaSigue
  <2>3. ASSUME NEW h \in Hilos, Parador(h) PROVE Coherencia'
    BY <2>3, CoherenciaParador
  <2>4. CASE Encoder \/ Cupula \/ UNCHANGED vars
    BY <2>4, CoherenciaAjena
  <2>5. ASSUME NEW h \in Hilos, PasoDivide(h) PROVE Coherencia'
    <3>1. h \in Vivos
      BY <2>5 DEF PasoDivide, Divide, Vivos
    <3> QED
      BY <2>5, <3>1, DivideCoherente DEF PasoDivide, Divide, Coherencia
  <2> QED
    BY <2>1, <2>2, <2>3, <2>4, <2>5
       DEF Siguiente, PasoMain, PasoParador, PasoEncoder, PasoCupula, Variables,
           Vuelve, Responde, MiraDAH, MiraCorriente, Mira, Duerme, Conecta
<1>2. Arranque => Coherencia
  BY CoherenciaInicial DEF Arranque
<1> QED
  BY <1>1, <1>2, TipoDeLaCupula, PTL DEF Programa

(* From the moment it is taken until it is answered, parar is the only     *)
(* thing that main does.                                                   *)
Parando ==
    atendida = "parar" =>
        /\ tr = "cf" =>
              /\ pc \in {"join", "pin1", "pin2", "fijar", "libre"}
              /\ IF pc = "libre" THEN sentido = "PARADO"
                 ELSE marco.sm = "PARADO" /\ marco.tp = "manual" /\ marco.sig = "libre"
        /\ tr = "responde" /\ respuesta = "OK" => pc = "libre" /\ sentido = "PARADO"
        /\ tr \in {"cf", "responde", "muerto"}

LEMMA ParandoPaso ==
    ASSUME TypeOK, Coherencia, Ocupado, Parando, [Siguiente]_Variables
    PROVE  Parando'
<1>1. ASSUME NEW p \in Recibidas, Toma(p) PROVE Parando'
  <2>1. CASE p.orden # "parar"
    BY <1>1, <2>1 DEF Toma, Parando
  <2>2. CASE p.orden = "parar" /\ (Deja("KO") \/ Muerte)
    BY <2>2 DEF Deja, Muerte, Parando
  <2>3. CASE p.orden = "parar" /\ OrdenMover("PARADO") /\ Llama
    <3>1. /\ pc' \in {"pin1", "join"} /\ tr' = "cf"
          /\ marco' = [marco EXCEPT !.sm = "PARADO", !.tp = "manual", !.sig = "libre"]
      BY <2>3 DEF OrdenMover, mover, Llama, VaA
    <3>2. marco'.sm = "PARADO" /\ marco'.tp = "manual" /\ marco'.sig = "libre"
      BY <3>1 DEF TypeOK, Marcos
    <3> QED
      BY <3>1, <3>2 DEF Parando
  <2>4. ASSUME NEW x, p.orden = "parar", Trata(p.orden, x)
        PROVE  OrdenMover("PARADO") /\ Llama
    BY <2>4 DEF Trata, SetPosicion, Calibrar, Mover, Parar, SetDomeAtHome, ConectarMovil,
                Aparte, Consulta, Niega, Lanza, PideMovil, DeLaMovil
  <2> QED
    BY <1>1, <2>1, <2>2, <2>3, <2>4 DEF Toma
<1>2. CASE tr # "muerto" /\ Sigue /\ UNCHANGED tratamiento
  <2>1. CASE atendida # "parar"
    BY <1>2, <2>1 DEF Parando, tratamiento
  <2>2. CASE atendida = "parar"
    <3>1. /\ tr = "cf" /\ pc \in {"join", "pin1", "pin2", "fijar"}
          /\ marco.sm = "PARADO" /\ marco.tp = "manual" /\ marco.sig = "libre"
      BY <1>2, <2>2, SigueOcupado DEF Ocupado, Parando
    <3>2. CASE Join \/ Pin1 \/ Pin2
      BY <1>2, <3>1, <3>2 DEF Join, Pin1, Pin2, Parando, tratamiento
    <3>3. CASE Fijar
      BY <1>2, <3>1, <3>3 DEF Fijar, Parando, tratamiento
    <3> QED
      BY <1>2, <3>1, <3>2, <3>3
         DEF Sigue, Lanzar, DespuesDeDAH, CalCorto, CalArranque, CalParada, CalDah1,
             CalSale, CalDah2, CalFin, CalMide, FinStop, FinEnc
  <2> QED
    BY <2>1, <2>2
<1>3. CASE Vuelve \/ Responde \/ MiraDAH \/ MiraCorriente \/ Duerme \/ Conecta
  BY <1>3 DEF Vuelve, Responde, MiraDAH, MiraCorriente, Mira, Duerme, Conecta, Deja, Muerte,
              Parando, vars, orden, mando
<1>4. CASE UNCHANGED orden /\ UNCHANGED tratamiento /\ sentido' \in {sentido, "PARADO"}
  BY <1>4 DEF Parando, orden, tratamiento
<1>5. (\E h \in Hilos : Parador(h)) \/ Encoder \/ Cupula \/ UNCHANGED vars
      => sentido' \in {sentido, "PARADO"}
  BY DEF Parador, Arranca, Vigila, Para1, Para2, Para3, Para, Encoder, EncInicio, EncLee,
         EncMira, EncCuenta, EncDah, EncCorriente, EncFin, Cupula, Gira, mando, vars
<1>6. ASSUME NEW h \in Hilos, PasoDivide(h) PROVE Parando'
  BY <1>6 DEF PasoDivide, Muerte, Parando
<1> QED
  BY <1>1, <1>2, <1>3, <1>4, <1>5, <1>6, OtrosNoMandan
     DEF Siguiente, PasoMain, PasoParador, PasoEncoder, PasoCupula, Variables, vars

LEMMA EnReposoSinHilos ==
    ASSUME Coherencia, pc = "libre", sentido = "PARADO"
    PROVE  Vivos = {} /\ pin = EnReposo
<1>1. Vivos = {}
  BY DEF Coherencia
<1>2. pin = Reles("PARADO")
  BY <1>1 DEF Coherencia, MandoCoherente
<1> QED
  BY <1>1, <1>2 DEF Reles, Activa, EnReposo, Pines

(* What a client that is answered OK to parar can rely on: whatever was    *)
(* asked for before, and however the threads interleave, the relays are at *)
(* rest, no thread is left and sentido says so (ParaDeVerdad).  A relative *)
(* movement by the short way is excluded because its orphan threads        *)
(* outlive the answer.                                                     *)
THEOREM ParaSiempre == SinCortaPedida => (Programa => []ParaDeVerdad)
<1> SUFFICES ASSUME SinCortaPedida PROVE Programa => []ParaDeVerdad
  OBVIOUS
<1>1. Arranque => Parando
  BY DEF Arranque, Parando
<1>2. TypeOK /\ Coherencia /\ Ocupado /\ Parando /\ [Siguiente]_Variables => Parando'
  BY ParandoPaso
<1>3. Coherencia /\ Parando => ParaDeVerdad
  BY EnReposoSinHilos DEF Parando, ParaDeVerdad
<1>4. Programa => []TypeOK /\ []Coherencia /\ []Ocupado
  BY TipoDeLaCupula, ProgramaCoherente, OcupadoSiempre
<1> QED
  BY <1>1, <1>2, <1>3, <1>4, PTL DEF Programa

(***************************************************************************)
(* conectarMovil, with a dome that was at rest.  Once it is at the DAH the *)
(* dome stays there, since it is at rest or the thread that watches it has *)
(* to stop it before it can go on; and in the simulation, where the DAH is *)
(* known from the counters, no pulse is on its way that could move them.   *)
(***************************************************************************)
Conectando ==
    /\ tr \in {"miraDAH", "duermeDAH", "miraCorriente", "duermeCorriente", "conecta"}
    /\ quieta

EnCamino ==
    /\ pc \in {"libre", "pin1", "pin2", "fijar", "lanzar"}
    /\ pc # "libre" => tr = "miraDAH" /\ marco.tp = "dah" /\ marco.sig = "libre"
    /\ pc = "libre" /\ sentido # "PARADO" => \E h \in Vivos : hilo[h].tp = "dah"

(* An edge that the encoder thread has still to look at the relays for.    *)
Pendiente == enc.pc = "mira" \/ (enc.pc = "lee" /\ PinEncoder # enc.ant)

EnElDAH ==
    /\ Simulacion /\ getDAH =>
          /\ enc.pc # "cuenta"
          /\ ~Pendiente \/ (pc = "libre" /\ sentido = "PARADO")
    /\ tr \in {"miraCorriente", "duermeCorriente", "conecta"} => getDAH

(* With a dome that is slow and relays that obey.                          *)
Obediente ==
    /\ pc # "muerto" => /\ enc.pc \in {"mira", "cuenta"} => PinEncoder # enc.ant
                        /\ enc.pc \in {"dah", "corriente"} => PinEncoder = enc.ant
    /\ ~Simulacion => linea = pin
    /\ tension = corriente

Conexion == Obediente /\ (Conectando => EnCamino /\ EnElDAH)

LEMMA EscribeObediente ==
    ASSUME Simulacion \/ MaxFallos = 0, TypeOK, ~Simulacion => linea = pin,
           NEW p, NEW v, Escribe(p, v)
    PROVE  ~Simulacion => linea' = pin'
BY DEF Escribe, TypeOK

LEMMA ObedientePaso ==
    ASSUME Puntual, Simulacion \/ MaxFallos = 0, TypeOK, Obediente, [Next]_vars
    PROVE  Obediente'
<1> USE DEF Obediente
<1>0. pc' # "muerto" => pc # "muerto"
  BY MuertoQueda
<1>1. ASSUME UNCHANGED <<enc, giro, pin, linea, tension, corriente>> PROVE Obediente'
  BY <1>0, <1>1 DEF PinEncoder
<1>2. ASSUME NEW p, NEW v, Escribe(p, v), UNCHANGED <<enc, giro, tension, corriente>>
      PROVE  Obediente'
  BY <1>0, <1>2, EscribeObediente DEF PinEncoder
<1>3. CASE Sigue
  <2>1. CASE Pin1 \/ Pin2
    BY <1>2, <2>1 DEF Pin1, Pin2
  <2> QED
    BY <1>1, <1>3, <2>1
       DEF Sigue, Join, Fijar, Lanzar, DespuesDeDAH, CalCorto, CalArranque, CalParada,
           CalDah1, CalSale, CalDah2, CalFin, CalMide, FinStop, FinEnc, mando
<1>4. CASE Orden
  BY <1>1, <1>4 DEF Orden, OrdenMover, OrdenPosicion, OrdenAngulo, OrdenDAH,
                    OrdenCalibrar, OrdenFinalizar, mando
<1>5. ASSUME NEW h \in Hilos, Parador(h) \/ Divide(h) PROVE Obediente'
  <2>1. CASE Para1(h) \/ Para2(h)
    BY <1>2, <2>1 DEF Para1, Para2, Para
  <2> QED
    BY <1>1, <1>5, <2>1 DEF Parador, Arranca, Vigila, Para3, Divide, mando
<1>6. CASE Encoder
  <2>0. pc # "muerto" /\ PinEncoder \in BOOLEAN /\ enc.ant \in BOOLEAN /\ PinEncoder' = PinEncoder
    BY <1>6 DEF Encoder, EncInicio, EncLee, EncMira, EncCuenta, EncDah, EncCorriente, EncFin,
                PinEncoder, TypeOK
  <2>1. (~Simulacion => linea' = pin') /\ tension' = corriente'
    <3>1. CASE EncCorriente
      <4>1. ~(~Simulacion /\ fallos < MaxFallos)
        BY DEF TypeOK
      <4> QED
        BY <3>1, <4>1 DEF EncCorriente
    <3>2. CASE ~EncCorriente
      BY <1>6, <3>2 DEF Encoder, EncInicio, EncLee, EncMira, EncCuenta, EncDah, EncFin, mando
    <3> QED
      BY <3>1, <3>2
  <2>2. /\ enc'.pc \in {"mira", "cuenta"} => PinEncoder # enc'.ant
        /\ enc'.pc \in {"dah", "corriente"} => PinEncoder = enc'.ant
    <3>1. CASE EncCuenta \/ (EncMira /\ Pulso = 0)
      <4>1. PinEncoder # enc.ant
        BY <2>0, <3>1 DEF EncCuenta, EncMira
      <4>2. enc'.pc = "dah" /\ enc'.ant = ~enc.ant
        BY <3>1 DEF EncCuenta, EncMira, TypeOK
      <4> QED
        BY <2>0, <4>1, <4>2
    <3>2. CASE EncLee \/ (EncMira /\ Pulso # 0)
      BY <2>0, <3>2 DEF EncLee, EncMira, TypeOK
    <3>3. CASE EncDah
      BY <2>0, <3>3 DEF EncDah, TypeOK
    <3>4. CASE EncInicio \/ EncCorriente \/ EncFin
      BY <3>4 DEF EncInicio, EncCorriente, EncFin, TypeOK
    <3> QED
      BY <1>6, <3>1, <3>2, <3>3, <3>4 DEF Encoder
  <2> QED
    BY <2>0, <2>1, <2>2
<1>7. CASE Cupula
  BY <1>0, <1>7 DEF Cupula, Gira, AlDia, mando, orden
<1>8. CASE UNCHANGED vars
  BY <1>1, <1>8 DEF vars, mando
<1> QED
  BY <1>3, <1>4, <1>5, <1>6, <1>7, <1>8 DEF Next

(* The DAH and what is pending only change with the counters and the dome. *)
LEMMA MismoDAH == UNCHANGED <<cuenta, giro>> => (getDAH' <=> getDAH)
BY DEF getDAH, cuenta

LEMMA MismoPendiente == UNCHANGED <<enc, giro>> => (Pendiente' <=> Pendiente)
BY DEF Pendiente, PinEncoder

(* The movement to the DAH, given to a dome at rest, is always accepted.   *)
LEMMA AlDAHAceptado ==
    ASSUME TypeOK, sentido = "PARADO", NEW sm \in {"CW", "CORTA"},
           setPosicion(sm, "dah", 0, "libre"), pc' # "muerto"
    PROVE  pc' \in {"pin1", "lanzar"} /\ marco'.tp = "dah" /\ marco'.sig = "libre"
<1>1. ~Rechaza(sm, "dah")
  BY DEF Rechaza
<1>2. /\ pc' \in {"pin1", "lanzar"}
      /\ marco' = [marco EXCEPT !.sm = SentidoFinal(sm, "dah", 0), !.tp = "dah",
                                !.sig = "libre", !.ini = posicionRelativa]
  BY <1>1 DEF setPosicion, Acepta, DivideEntreCero
<1> QED
  BY <1>2 DEF TypeOK, Marcos

LEMMA TomaConexion ==
    ASSUME TypeOK, Ocupado, NEW p \in Recibidas, Toma(p), Conectando'
    PROVE  (EnCamino /\ EnElDAH)'
<1>1. pc = "libre" /\ tr = "fuera"
  BY DEF Toma, Ocupado
<1>2. ConectarMovil(p.orden)
  BY DEF Toma, Conectando, Deja, Muerte, Trata, SetPosicion, Calibrar, Mover, Parar,
         SetDomeAtHome, Aparte, Consulta, Niega, Lanza, PideMovil, Llama, VaA
<1>3. tr' = "miraDAH" /\ pc' # "muerto" /\ sentido = "PARADO" /\ enc.pc # "cuenta"
  <2>1. p.orden = "conectarMovil"
    BY <1>2 DEF ConectarMovil
  <2>2. tr' # "muerto" /\ quieta'
    BY DEF Conectando
  <2> QED
    BY <1>2, <2>1, <2>2 DEF ConectarMovil, VaA, Toma
<1>4. CASE UNCHANGED vars
  BY <1>1, <1>3, <1>4 DEF EnCamino, EnElDAH, vars, orden, mando
<1>5. CASE ~getDAH /\ (OrdenPosicion("CORTA", "dah", 0) \/ OrdenDAH(TRUE))
  <2>1. PICK sm \in {"CW", "CORTA"} : setPosicion(sm, "dah", 0, "libre")
    BY <1>5 DEF OrdenPosicion, OrdenDAH, setDAH, VeADAH
  <2>2. pc' \in {"pin1", "lanzar"} /\ marco'.tp = "dah" /\ marco'.sig = "libre"
    BY <1>3, <2>1, AlDAHAceptado
  <2>3. ~getDAH'
    BY <1>5, MismoDAH DEF OrdenPosicion, OrdenDAH
  <2> QED
    BY <1>3, <2>2, <2>3 DEF EnCamino, EnElDAH
<1> QED
  BY <1>2, <1>4, <1>5 DEF ConectarMovil

LEMMA SigueConexion ==
    ASSUME TypeOK, Sigue, UNCHANGED tratamiento, Conectando, EnCamino, EnElDAH
    PROVE  (EnCamino /\ EnElDAH)'
<1>1. /\ pc \in {"pin1", "pin2", "fijar", "lanzar"} /\ tr = "miraDAH"
      /\ marco.tp = "dah" /\ marco.sig = "libre"
  BY SigueOcupado DEF EnCamino
<1>2. Pin1 \/ Pin2 \/ Fijar \/ Lanzar
  BY <1>1 DEF Sigue, Join, DespuesDeDAH, CalCorto, CalArranque, CalParada, CalDah1, CalSale,
              CalDah2, CalFin, CalMide, FinStop, FinEnc
<1>3. UNCHANGED <<cuenta, giro, enc, tr>>
  BY <1>2 DEF Pin1, Pin2, Fijar, Lanzar, tratamiento
<1>4. EnElDAH'
  <2>1. (getDAH' <=> getDAH) /\ (Pendiente' <=> Pendiente)
    BY <1>3, MismoDAH, MismoPendiente
  <2>2. Simulacion /\ getDAH => ~Pendiente
    BY <1>1 DEF EnElDAH
  <2> QED
    BY <1>1, <1>3, <2>1, <2>2 DEF EnElDAH
<1>5. EnCamino'
  <2>1. CASE Pin1 \/ Pin2 \/ Fijar
    BY <1>1, <1>3, <2>1 DEF Pin1, Pin2, Fijar, EnCamino
  <2>2. CASE Lanzar
    <3>1. PICK h \in Hilos :
              hilo' = [hilo EXCEPT ![h] = [pc |-> "arranca", tp |-> marco.tp,
                                           ref |-> marco.ini]]
      BY <2>2 DEF Lanzar
    <3>2. hilo'[h].pc = "arranca" /\ hilo'[h].tp = "dah"
      BY <1>1, <3>1 DEF TypeOK
    <3>3. pc' = "libre"
      BY <1>1, <2>2 DEF Lanzar
    <3> QED
      BY <3>2, <3>3 DEF EnCamino, Vivos
  <2> QED
    BY <1>2, <2>1, <2>2
<1> QED
  BY <1>4, <1>5

LEMMA ParadorConexion ==
    ASSUME TypeOK, Coherencia, NEW h \in Hilos, Parador(h), UNCHANGED tratamiento,
           EnCamino, EnElDAH
    PROVE  (EnCamino /\ EnElDAH)'
<1>1. h \in Vivos
  BY DEF Parador, Arranca, Vigila, Para1, Para2, Para3, Para, Espera, Vivos
<1>2. sentido # "PARADO" /\ Vivos = {h} /\ pc \notin {"pin1", "pin2", "fijar", "lanzar"}
  BY <1>1 DEF Coherencia
<1>3. pc = "libre" /\ hilo[h].tp = "dah"
  BY <1>2 DEF EnCamino
<1>4. UNCHANGED <<cuenta, giro, enc, pc, tr>>
  BY DEF Parador, Arranca, Vigila, Para1, Para2, Para3, Para, orden, tratamiento
<1>5. EnElDAH'
  <2>1. (getDAH' <=> getDAH) /\ (Pendiente' <=> Pendiente)
    BY <1>4, MismoDAH, MismoPendiente
  <2>2. Simulacion /\ getDAH => ~Pendiente
    BY <1>2 DEF EnElDAH
  <2> QED
    BY <1>4, <2>1, <2>2 DEF EnElDAH
<1>6. \/ sentido' = "PARADO"
      \/ hilo'[h].pc # "fin" /\ hilo'[h].tp = "dah"
  <2>1. CASE Para3(h)
    BY <2>1 DEF Para3
  <2>2. CASE Arranca(h)
    BY <1>3, <2>2 DEF Arranca, Camino, TypeOK
  <2>3. CASE Vigila(h) \/ Para1(h) \/ Para2(h)
    <3>1. PICK a : a # "fin" /\ hilo' = [hilo EXCEPT ![h].pc = a]
      BY <2>3 DEF Vigila, Para1, Para2, Para
    <3> QED
      BY <1>3, <3>1 DEF TypeOK
  <2> QED
    BY <2>1, <2>2, <2>3 DEF Parador
<1> QED
  BY <1>3, <1>4, <1>5, <1>6 DEF EnCamino, Vivos

LEMMA EncoderConexion ==
    ASSUME TypeOK, Coherencia, Obediente, Encoder, UNCHANGED tratamiento,
           EnCamino, EnElDAH
    PROVE  (EnCamino /\ EnElDAH)'
<1>1. UNCHANGED <<pc, marco, sentido, hilo, giro, tr>> /\ pc # "muerto"
      /\ PinEncoder' = PinEncoder /\ PinEncoder \in BOOLEAN /\ enc.ant \in BOOLEAN
  BY DEF Encoder, EncInicio, EncLee, EncMira, EncCuenta, EncDah, EncCorriente, EncFin,
         tratamiento, paradas, orden, mando, PinEncoder, TypeOK
<1>2. EnCamino'
  BY <1>1 DEF EnCamino, Vivos
<1>3. CASE EncCuenta
  <2>1. enc'.pc = "dah"
    BY <1>3 DEF EncCuenta, TypeOK
  <2>2. ASSUME tr \in {"miraCorriente", "duermeCorriente", "conecta"} PROVE getDAH'
    <3>1. getDAH /\ ~Simulacion
      BY <1>3, <2>2 DEF EnElDAH, EncCuenta
    <3> QED
      BY <1>1, <3>1 DEF getDAH
  <2> QED
    BY <1>1, <1>2, <2>1, <2>2 DEF EnElDAH, Pendiente
<1>4. CASE EncMira
  <2>1. getDAH' <=> getDAH
    BY <1>1, <1>4, MismoDAH DEF EncMira
  <2>2. ASSUME Simulacion, getDAH PROVE enc'.pc = "dah"
    <3>1. pc = "libre" /\ sentido = "PARADO"
      BY <1>4, <2>2 DEF EncMira, EnElDAH, Pendiente
    <3>2. pin["cw"] /\ pin["ccw"]
      BY <3>1, EnReposoSinHilos DEF EnReposo, Pines
    <3> QED
      BY <1>4, <3>2 DEF EncMira, Pulso, TypeOK
  <2> QED
    BY <1>1, <1>2, <2>1, <2>2 DEF EnElDAH, Pendiente
<1>5. CASE ~EncCuenta /\ ~EncMira
  <2>1. UNCHANGED cuenta
    BY <1>5 DEF Encoder, EncInicio, EncLee, EncDah, EncCorriente, EncFin
  <2>2. getDAH' <=> getDAH
    BY <1>1, <2>1, MismoDAH
  <2>3. (Pendiente' => Pendiente) /\ enc'.pc # "cuenta"
    <3>1. CASE EncInicio
      BY <1>1, <3>1 DEF EncInicio, Pendiente
    <3>2. CASE EncLee \/ EncFin
      BY <1>1, <3>2 DEF EncLee, EncFin, Pendiente, TypeOK
    <3>3. CASE EncDah \/ EncCorriente
      <4>1. PinEncoder = enc.ant /\ enc'.ant = enc.ant /\ enc'.pc \in {"lee", "corriente"}
        BY <1>1, <3>3 DEF EncDah, EncCorriente, Obediente, TypeOK
      <4> QED
        BY <1>1, <4>1 DEF Pendiente
    <3> QED
      BY <1>5, <3>1, <3>2, <3>3 DEF Encoder
  <2> QED
    BY <1>1, <1>2, <2>2, <2>3 DEF EnElDAH
<1> QED
  BY <1>3, <1>4, <1>5

(* A slow dome waits for the thread that has to stop it at the DAH.        *)
LEMMA CupulaConexion ==
    ASSUME Puntual, TypeOK, Coherencia, Obediente, Cupula, UNCHANGED tratamiento,
           EnCamino, EnElDAH
    PROVE  (EnCamino /\ EnElDAH)'
<1>1. PICK d \in {1, -1} : Gira(d)
  BY DEF Cupula
<1>2. AlDia /\ Empuja(d) /\ UNCHANGED <<orden, mando, cuenta, hilo, enc, tr>>
  BY <1>1 DEF Gira, paradas, tratamiento
<1>3. pc = "libre" /\ enc.pc # "cuenta"
  BY <1>2 DEF EnCamino, AlDia, MainAlDia
<1>4. EnCamino'
  BY <1>2 DEF EnCamino, Vivos, orden, mando
<1>5. sentido # "PARADO" => ~getDAH
  <2> SUFFICES ASSUME sentido # "PARADO" PROVE ~getDAH
    OBVIOUS
  <2>1. PICK h \in Vivos : hilo[h].tp = "dah"
    BY <1>3 DEF EnCamino
  <2>2. ~SePasa(h)
    BY <1>2, <1>3 DEF AlDia
  <2> QED
    BY <2>1, <2>2 DEF SePasa
<1>6. CASE Simulacion
  <2>1. getDAH' <=> getDAH
    BY <1>2, <1>6 DEF getDAH, cuenta
  <2> QED
    BY <1>2, <1>3, <1>4, <1>5, <2>1 DEF EnElDAH, orden, mando
<1>7. CASE ~Simulacion
  <2>1. sentido # "PARADO"
    <3>1. ASSUME sentido = "PARADO" PROVE FALSE
      <4>1. linea = EnReposo
        BY <1>3, <1>7, <3>1, EnReposoSinHilos DEF Obediente
      <4>2. Motor = EnReposo
        BY <1>7, <4>1 DEF Motor
      <4>3. (IF d = 1 THEN "cw" ELSE "ccw") \in Pines
        BY DEF Pines
      <4> QED
        BY <1>2, <4>2, <4>3 DEF Empuja, EnReposo
    <3> QED
      BY <3>1
  <2> QED
    BY <1>2, <1>4, <1>5, <1>7, <2>1 DEF EnElDAH
<1> QED
  BY <1>6, <1>7

LEMMA ConexionPaso ==
    ASSUME Puntual, Simulacion \/ MaxFallos = 0, TypeOK, Coherencia, Ocupado,
           Conexion, [Siguiente]_Variables
    PROVE  Conexion'
<1>1. Obediente'
  BY ObedientePaso, PasoDeLaCupula DEF Conexion
<1>2. ASSUME Conectando' PROVE (EnCamino /\ EnElDAH)'
  <2>1. ASSUME NEW p \in Recibidas, Toma(p) PROVE (EnCamino /\ EnElDAH)'
    BY <1>2, <2>1, TomaConexion
  <2>2. CASE UNCHANGED tratamiento
    <3>1. Obediente /\ Conectando /\ EnCamino /\ EnElDAH
      BY <1>2, <2>2 DEF Conectando, Conexion, tratamiento
    <3>2. CASE UNCHANGED vars
      BY <2>2, <3>1, <3>2
         DEF EnCamino, EnElDAH, Pendiente, PinEncoder, getDAH, Vivos, vars, orden, mando,
             cuenta, paradas, tratamiento
    <3>3. CASE Sigue
      BY <2>2, <3>1, <3>3, SigueConexion
    <3>4. ASSUME NEW h \in Hilos, Parador(h) PROVE (EnCamino /\ EnElDAH)'
      BY <2>2, <3>1, <3>4, ParadorConexion
    <3>5. CASE Encoder
      BY <2>2, <3>1, <3>5, EncoderConexion
    <3>6. CASE Cupula
      BY <2>2, <3>1, <3>6, CupulaConexion
    <3>7. ~(\E h \in Hilos : PasoDivide(h))
      BY <1>2 DEF PasoDivide, Muerte, Conectando
    <3> QED
      BY <2>1, <3>2, <3>3, <3>4, <3>5, <3>6, <3>7
         DEF Siguiente, PasoMain, PasoParador, PasoEncoder, PasoCupula, Variables,
             Vuelve, Responde, MiraDAH, MiraCorriente, Mira, Duerme, Conecta
  <2>3. CASE Vuelve \/ Responde \/ Conecta \/ \E h \in Hilos : PasoDivide(h)
    BY <1>2, <2>3 DEF Vuelve, PasoDivide, Responde, Conecta, Deja, Muerte, Conectando
  <2>4. CASE MiraDAH \/ MiraCorriente \/ Duerme
    <3>1. /\ UNCHANGED vars /\ UNCHANGED quieta
          /\ tr \in {"miraDAH", "duermeDAH", "miraCorriente", "duermeCorriente"}
          /\ tr = "miraDAH" => pc = "libre"
          /\ tr' = "miraCorriente" =>
                getDAH \/ tr \in {"duermeCorriente", "miraCorriente"}
          /\ tr' \in {"duermeCorriente", "conecta"} => tr = "miraCorriente"
      BY <1>2, <2>4 DEF MiraDAH, MiraCorriente, Mira, Duerme, Deja, Conectando
    <3>2. EnCamino /\ EnElDAH
      BY <1>2, <3>1 DEF Conexion, Conectando
    <3>3. (getDAH' <=> getDAH) /\ (Pendiente' <=> Pendiente)
      BY <3>1, MismoDAH, MismoPendiente DEF vars
    <3>4. EnElDAH'
      BY <3>1, <3>2, <3>3 DEF EnElDAH, vars, orden, mando
    <3>5. EnCamino'
      BY <3>1, <3>2 DEF EnCamino, Vivos, vars, orden, mando, paradas
    <3> QED
      BY <3>4, <3>5
  <2> QED
    BY <2>1, <2>2, <2>3, <2>4
       DEF Siguiente, PasoMain, PasoParador, PasoEncoder, PasoCupula, Variables
<1> QED
  BY <1>1, <1>2 DEF Conexion

(* A conectarMovil that finds the dome at rest opens the line to the       *)
(* mobile part with the dome at the DAH and the power on (ConectaEnDAH).   *)
(* The dome has to be slow, as it is in the configuration, and the relays  *)
(* have to obey: one that does not leaves the dome turning.                *)
THEOREM ConectaSegura ==
    SinCortaPedida /\ Puntual /\ (Simulacion \/ MaxFallos = 0)
    => (Programa => ConectaEnDAH)
<1> SUFFICES ASSUME SinCortaPedida, Puntual, Simulacion \/ MaxFallos = 0
             PROVE  Programa => ConectaEnDAH
  OBVIOUS
<1>1. Arranque => Conexion
  BY DEF Arranque, Init, Conexion, Conectando, Obediente
<1>2. TypeOK /\ Coherencia /\ Ocupado /\ Conexion /\ [Siguiente]_Variables => Conexion'
  BY ConexionPaso
<1>3. Conexion /\ [Siguiente]_Variables =>
        [puerto' = "abierto" /\ puerto # "abierto" /\ quieta =>
            corriente /\ getDAH]_Variables
  <2> SUFFICES ASSUME Conexion, [Siguiente]_Variables, quieta,
                      puerto' = "abierto", puerto # "abierto"
               PROVE  corriente /\ getDAH
    OBVIOUS
  <2>1. Conecta
    BY DEF Siguiente, Toma, PasoMain, PasoParador, PasoDivide, PasoEncoder, PasoCupula,
           Variables, Vuelve, Responde, MiraDAH, MiraCorriente, Mira, Duerme, tratamiento
  <2>2. tension /\ tr = "conecta"
    BY <2>1 DEF Conecta
  <2> QED
    BY <2>2 DEF Conexion, Obediente, Conectando, EnElDAH
<1>4. Programa => []TypeOK /\ []Coherencia /\ []Ocupado
  BY TipoDeLaCupula, ProgramaCoherente, OcupadoSiempre
<1> QED
  BY <1>1, <1>2, <1>3, <1>4, PTL DEF Programa, ConectaEnDAH
(***************************************************************************)
(* What else is proved of the fixed part, of the whole program.            *)
(***************************************************************************)
(* parar and finalizarThreads always reach the thread that is running:     *)
(* whatever was requested, there is never more than one (UnSoloParador).   *)
THEOREM UnParadorPrograma == SinCortaPedida => (Programa => []UnSoloParador)
<1>1. Coherencia => UnSoloParador
  BY DEF Coherencia, UnSoloParador
<1> QED
  BY <1>1, ProgramaCoherente, PTL

(* The requests that are refused while the dome moves are refused by what  *)
(* sentido says, and it says what the relays are commanded to do, whatever *)
(* was requested before (MandoCoherente).                                  *)
THEOREM MandoPrograma == SinCortaPedida => (Programa => []MandoCoherente)
<1>1. Coherencia => MandoCoherente
  BY DEF Coherencia
<1> QED
  BY <1>1, ProgramaCoherente, PTL

(* The whole program, seen from the motors, implements the safety part of  *)
(* Maniobras: a monitored movement starts with the motor engaged, and its  *)
(* thread does not end before the motor is released (mover, runStop).      *)
THEOREM ManiobrasPrograma == SinCortaPedida => (Programa => M!Seguro)
<1> SUFFICES ASSUME SinCortaPedida PROVE Programa => M!Seguro
  OBVIOUS
<1>1. Arranque => M!Init
  BY ManiobrasInicial DEF Arranque
<1>2. TypeOK /\ InterbloqueoActuadores /\ Coherencia /\ [Siguiente]_Variables
      => [M!Next]_(M!vars)
  BY ManiobrasPaso, PasoDeLaCupula
<1>3. Programa => []TypeOK /\ []InterbloqueoActuadores /\ []Coherencia
  BY TipoDeLaCupula, InterbloqueoPrograma, ProgramaCoherente
<1> QED
  BY <1>1, <1>2, <1>3, PTL DEF Programa, M!Seguro

(* In simulation no request makes the encoder see anything in the relays   *)
(* but what sentido says (runEncoder).                                     *)
THEOREM MiraPrograma ==
    Simulacion /\ SinCortaPedida => (Programa => MiraSegunSentido)
<1> SUFFICES ASSUME Simulacion, SinCortaPedida PROVE Programa => MiraSegunSentido
  OBVIOUS
<1>1. TypeOK /\ Coherencia /\ [Siguiente]_Variables =>
        [enc.pc = "mira" /\ enc'.pc = "cuenta" => MiraBien]_vars
  BY MiraPaso, PasoDeLaCupula
<1>2. Programa => []TypeOK /\ []Coherencia
  BY TipoDeLaCupula, ProgramaCoherente
<1>3. [enc.pc = "mira" /\ enc'.pc = "cuenta" => MiraBien]_vars =>
      [enc.pc = "mira" /\ enc'.pc = "cuenta" =>
         CASE sentido = "CW"  -> Pulso = 1
           [] sentido = "CCW" -> Pulso = -1
           [] OTHER           -> pc \in {"pin1", "pin2", "fijar"}]_vars
  BY DEF MiraBien
<1> QED
  BY <1>1, <1>2, <1>3, PTL DEF Programa, MiraSegunSentido

(* With the real switch and a slow dome, no request, conectarMovil and     *)
(* those that the check should have refused included, leaves the mobile    *)
(* part with power away from the DAH, unless the write that takes it away  *)
(* fails (CorrienteEnDAH).                                                 *)
THEOREM CorrientePrograma ==
    ~Simulacion /\ Puntual => (Programa => []CorrienteEnDAH)
<1> SUFFICES ASSUME ~Simulacion, Puntual PROVE Programa => []CorrienteEnDAH
  OBVIOUS
<1>1. Arranque => Corriente
  BY DEF Arranque, Init, Corriente
<1>2. TypeOK /\ TypeOK' /\ Corriente /\ [Siguiente]_Variables => Corriente'
  BY CorrientePaso, PasoDeLaCupula
<1>3. Corriente => CorrienteEnDAH
  BY DEF Corriente, CorrienteEnDAH
<1> QED
  BY <1>1, <1>2, <1>3, TipoDeLaCupula, PTL DEF Programa
=============================================================================
