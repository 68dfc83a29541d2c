---------------------------- MODULE Tratamiento ----------------------------
(***************************************************************************)
(* tratamientoMensaje: main takes a request, checks it against the table   *)
(* of orders, carries it out and only then answers it.  It is the client   *)
(* that CupulaFija leaves open: the orders it gives to the fixed part, the *)
(* threads and the dome are those of that module.  conectarMovil is        *)
(* carried out here: it drives the dome to the DAH, where the mobile part  *)
(* gets its power, and opens the serial line.                              *)
(*                                                                         *)
(* How requests reach main is Mensajes, and what an order to the mobile    *)
(* part does with an open line is Ventana: it is answered or main dies.    *)
(***************************************************************************)
EXTENDS CupulaFija, Comandos

CONSTANTS
    Recibidas,          \* the requests of the clients
    EsperasDAH,         \* 120, the seconds that conectarMovil gives the dome
    EsperasCorriente    \* 30, those it gives the power

Sentidos == {"CW", "CCW", "CORTA"}
Grados == {0} \cup {stoi[w] : w \in {x \in DOMAIN stoi : stoi[x] \in -360 .. 360}}

(* What a treatment can ask of the fixed part.                             *)
ASSUME TratamientoAssumption ==
    /\ OrdenesMover = {"PARADO", "CW", "CCW"}
    /\ OrdenesPosicion = {<<"CORTA", "dah", 0>>}
    /\ OrdenesAngulo = Sentidos \X tipoPosicion \X Grados
    /\ OrdenesDAH = {TRUE}
    /\ OrdenesCalibrar = BOOLEAN \X BOOLEAN

ASSUME RecibidasAssumption ==
    \A p \in Recibidas : p.ps \in Seq({p.ps[n] : n \in DOMAIN p.ps})
ASSUME EsperasAssumption == EsperasDAH \in Nat \ {0} /\ EsperasCorriente \in Nat \ {0}

VARIABLES
    tr,          \* where tratamientoMensaje is; "fuera" between requests
    atendida,      \* the order in hand
    respuesta,   \* OK or KO
    segundos,    \* the counter of the two waits of conectarMovil
    puerto,      \* p_puerto_serie; "fallido" is not null and never opened
    quieta       \* what conectarMovil found, read only by a property: FALSE
                 \* if the dome was moving or a pulse was about to be counted

tratamiento == <<tr, atendida, respuesta, segundos, puerto, quieta>>
Variables == <<vars, tratamiento>>

Deja(r) == tr' = "responde" /\ respuesta' = r

(* An exception, that main does not catch, or a read of what is not there. *)
Muerte == tr' = "muerto" /\ UNCHANGED respuesta

(* A call of the fixed part, which may divide by a size of 0.              *)
VaA(donde) ==
    tr' = (IF pc' = "muerto" THEN "muerto" ELSE donde) /\ UNCHANGED respuesta
Llama == VaA("cf")

(***************************************************************************)
(* The branches of the orders that act on the fixed part.  ps has the      *)
(* parameters as the check leaves them.                                    *)
(***************************************************************************)
Leido(ps, n) == IF n <= Len(ps) THEN ps[n] ELSE Hallado

(* With any other word, "absoluta" too, tp is never initialised.           *)
TiposLeidos(palabra) == CASE palabra = "absluta"  -> {"absoluta"}
                          [] palabra = "relativa" -> {"relativa"}
                          [] OTHER                -> tipoPosicion

Convierte(palabra) == palabra \in DOMAIN stoi

GradosValidos_todos(ps) == Len(ps) = 3 => Convierte(ps[3])

GradosValidos(ps) == Len(ps) = 3 => Convierte(ps[3]) /\ stoi[ps[3]] \in -360 .. 360

SetPosicion(o, ps) ==
    /\ o = "setPosicion" /\ GradosValidos(ps)
    /\ \E tp \in TiposLeidos(Leido(ps, 2)) :
          OrdenAngulo(ps[1], tp, IF Len(ps) = 3 THEN stoi[ps[3]] ELSE 0)
    /\ Llama

Calibrar(o, ps) ==
    /\ o = "calibrar"
    /\ \E adah \in IF Leido(ps, 2) = Hallado THEN BOOLEAN ELSE {ps[2] = "si"} :
          OrdenCalibrar(ps[1] = "si", adah)
    /\ Llama

Mover(o, ps) == o = "mover" /\ OrdenMover(ps[1]) /\ Llama

Parar(o) == o = "parar" /\ OrdenMover("PARADO") /\ Llama

SetDomeAtHome(o) == o = "setDomeAtHome" /\ OrdenPosicion("CORTA", "dah", 0) /\ Llama

ConectarMovil(o) ==
    /\ o = "conectarMovil"
    /\ \/ getDAH /\ UNCHANGED vars
       \/ ~getDAH /\ estadoCalibrado = "CALIBRADO" /\ OrdenPosicion("CORTA", "dah", 0)
       \/ ~getDAH /\ estadoCalibrado # "CALIBRADO" /\ OrdenDAH(TRUE)
    /\ VaA("miraDAH")

(***************************************************************************)
(* Those that do not.  getPosicion divides by the size of the dome.  The   *)
(* branch for pararShutter is that of "paraShutter" and setLogging knows   *)
(* none of the words that the table has for setLog.                        *)
(***************************************************************************)
Consulta(o, ps) ==
    /\ \/ o \in {"salir", "getDomeAtHome", "getPosicion", "estadoCalibrado"}
       \/ o = "getFirmwareVersion" /\ ps[1] = "fija"
    /\ Deja("OK") \/ (o = "getPosicion" /\ maxPos = 0 /\ Muerte)

(* A window that has not been calibrated has nothing to PUT.               *)
Niega(o, ps) ==
    /\ \/ o \in {"pararShutter", "setLog"}
       \/ o = "calibrarMovil" /\ ps[1] = "PUT"
       \/ o = "setPosicion" /\ Len(ps) = 3 /\ Convierte(ps[3]) /\ ~GradosValidos(ps)
    /\ Deja("KO")

(* A parameter that is not there, or that is not the number it should be.  *)
Lanza(o, ps) ==
    /\ \/ o \in {"setPosicion", "calibrar", "moverShutter"} /\ Len(ps) < 2
       \/ o = "setPosicion" /\ Len(ps) = 3 /\ ~Convierte(ps[3])
       \/ o = "moverShutter" /\ ~Convierte(Leido(ps, 2))
       \/ o = "setEmergencyShutterTimeout" /\ ps = <<>>
    /\ Muerte

DeLaMovil == {"getFirmwareVersion", "getLuz", "setLuz", "calibrarMovil",
    "setEmergencyShutterTimeout", "moverShutter", "getEstadoMovimientoShutter",
    "getRelays", "getButtons", "getInputs", "getStatus"}

PideMovil(o, ps) ==
    /\ o \in DeLaMovil
    /\ o = "getFirmwareVersion" => ps[1] = "movil"
    /\ o = "setEmergencyShutterTimeout" => ps # <<>>
    /\ o = "moverShutter" => Convierte(Leido(ps, 2))
    /\ IF puerto = "abierto" THEN tr' = "cm" /\ UNCHANGED respuesta ELSE Muerte

Aparte(o, ps) ==
    /\ Consulta(o, ps) \/ Niega(o, ps) \/ Lanza(o, ps) \/ PideMovil(o, ps)
    /\ UNCHANGED vars

Trata(o, ps) ==
    \/ SetPosicion(o, ps) \/ Calibrar(o, ps) \/ Mover(o, ps) \/ Parar(o)
    \/ SetDomeAtHome(o) \/ ConectarMovil(o) \/ Aparte(o, ps)

(***************************************************************************)
(* A request, from the check to the answer.                                *)
(***************************************************************************)
Toma(p) ==
    /\ tr = "fuera"
    /\ p.orden = "parar" \/ Cabe
    /\ \E x \in Revisa(p.orden, p.ps) :
          \/ x.res = "OK" /\ Trata(p.orden, x.ps)
          \/ x.res = "KO" /\ Deja("KO") /\ UNCHANGED vars
          \/ x.res = "muere" /\ Muerte /\ UNCHANGED vars
    /\ atendida' = p.orden /\ segundos' = 0
    /\ quieta' = (p.orden = "conectarMovil" => sentido = "PARADO" /\ enc.pc # "cuenta")
    /\ UNCHANGED puerto

Vuelve ==
    /\ \/ tr = "cf" /\ pc = "libre" /\ Deja("OK")
       \/ tr = "cm" /\ (Deja("OK") \/ Deja("KO") \/ Muerte)
    /\ UNCHANGED <<vars, atendida, segundos, puerto, quieta>>

Responde ==
    /\ tr = "responde" /\ tr' = "fuera"
    /\ atendida' = "" /\ respuesta' = "" /\ segundos' = 0 /\ quieta' = TRUE
    /\ UNCHANGED <<vars, puerto>>

(***************************************************************************)
(* conectarMovil.  A wait that ends after its last second has failed, even *)
(* if what it waited for has come.                                         *)
(***************************************************************************)
Mira_unaDeMas(donde, visto, esperas, duerme, sigue) ==
    /\ tr = donde /\ pc = "libre"
    /\ \/ ~visto /\ segundos <= esperas /\ tr' = duerme /\ UNCHANGED <<segundos, respuesta>>
       \/ visto /\ segundos <= esperas /\ tr' = sigue /\ segundos' = 0 /\ UNCHANGED respuesta
       \/ segundos > esperas /\ Deja("KO") /\ UNCHANGED segundos
    /\ UNCHANGED <<vars, atendida, puerto, quieta>>

Mira_plazoAlFinal(donde, visto, esperas, duerme, sigue) ==
    /\ tr = donde /\ pc = "libre"
    /\ \/ ~visto /\ segundos < esperas /\ tr' = duerme /\ UNCHANGED <<segundos, respuesta>>
       \/ /\ visto \/ segundos = esperas
          /\ tr' = sigue /\ segundos' = 0 /\ UNCHANGED respuesta
       \/ segundos > esperas /\ Deja("KO") /\ UNCHANGED segundos
    /\ UNCHANGED <<vars, atendida, puerto, quieta>>

Mira(donde, visto, esperas, duerme, sigue) ==
    /\ tr = donde /\ pc = "libre"
    /\ \/ ~visto /\ segundos < esperas /\ tr' = duerme /\ UNCHANGED <<segundos, respuesta>>
       \/ visto /\ segundos < esperas /\ tr' = sigue /\ segundos' = 0 /\ UNCHANGED respuesta
       \/ segundos >= esperas /\ Deja("KO") /\ UNCHANGED segundos
    /\ UNCHANGED <<vars, atendida, puerto, quieta>>

MiraDAH == Mira("miraDAH", getDAH, EsperasDAH, "duermeDAH", "miraCorriente")
MiraCorriente ==
    Mira("miraCorriente", corriente, EsperasCorriente, "duermeCorriente", "conecta")

Duerme_sinContar ==
    /\ \/ tr = "duermeDAH" /\ tr' = "miraDAH"
       \/ tr = "duermeCorriente" /\ tr' = "miraCorriente"
    /\ UNCHANGED segundos
    /\ UNCHANGED <<vars, atendida, respuesta, puerto, quieta>>

Duerme ==
    /\ \/ tr = "duermeDAH" /\ tr' = "miraDAH"
       \/ tr = "duermeCorriente" /\ tr' = "miraCorriente"
    /\ segundos' = segundos + 1
    /\ UNCHANGED <<vars, atendida, respuesta, puerto, quieta>>

(* A null pointer is not null any more, whether Open succeeds or not.  It  *)
(* can only if the mobile part is powered.                                 *)
Conecta ==
    /\ tr = "conecta"
    /\ \/ puerto # "nulo" /\ Deja("KO") /\ UNCHANGED puerto
       \/ puerto = "nulo" /\ Deja("KO") /\ puerto' = "fallido"
       \/ puerto = "nulo" /\ tension /\ Deja("OK") /\ puerto' = "abierto"
    /\ UNCHANGED <<vars, atendida, segundos, quieta>>

(***************************************************************************)
(* The program: main, with its calls of the fixed part, the threads of the *)
(* fixed part, which die with it, and the dome.                            *)
(***************************************************************************)
TratamientoAlDia ==
    \/ tr \in {"fuera", "duermeDAH", "duermeCorriente", "cm", "muerto"}
    \/ pc # "libre"

Arranque ==
    /\ Init
    /\ tr = "fuera" /\ atendida = "" /\ respuesta = "" /\ segundos = 0
    /\ puerto = "nulo" /\ quieta = TRUE

PasoMain ==
    \/ tr # "muerto" /\ Sigue /\ UNCHANGED tratamiento
    \/ Vuelve \/ Responde \/ MiraDAH \/ MiraCorriente \/ Duerme \/ Conecta
PasoDivide(h) == Divide(h) /\ Muerte /\ UNCHANGED <<atendida, segundos, puerto, quieta>>
PasoParador(h) == /\ tr # "muerto"
                  /\ (Parador(h) /\ UNCHANGED tratamiento) \/ PasoDivide(h)
PasoEncoder == tr # "muerto" /\ Encoder /\ UNCHANGED tratamiento
(* The threads die with main, a real dome that turns does not stop: of it   *)
(* nothing is said beyond its next half pulse, since nobody looks any more. *)
PasoCupula == /\ Simulacion => tr # "muerto"
              /\ Puntual => TratamientoAlDia
              /\ Cupula /\ UNCHANGED tratamiento

Siguiente ==
    \/ \E p \in Recibidas : Toma(p)
    \/ PasoMain \/ PasoEncoder \/ PasoCupula
    \/ \E h \in Hilos : PasoParador(h)

(* Nobody has to send a request.                                           *)
Justicia == /\ WF_Variables(PasoMain) /\ WF_Variables(PasoEncoder)
            /\ WF_Variables(PasoCupula)
            /\ \A h \in Hilos : WF_Variables(PasoParador(h))

Programa == Arranque /\ [][Siguiente]_Variables /\ Justicia

(***************************************************************************)
(* Properties.                                                             *)
(***************************************************************************)

(* The values of the variables of tratamientoMensaje; those of the fixed   *)
(* part are the subject of ImplementaCupula.                               *)
TypeTratamiento ==
    /\ tr \in {"fuera", "cf", "cm", "miraDAH", "duermeDAH", "miraCorriente",
               "duermeCorriente", "conecta", "responde", "muerto"}
    /\ atendida \in {p.orden : p \in Recibidas} \cup {""}
    /\ respuesta \in {"", "OK", "KO"}
    /\ segundos \in Nat
    /\ tr \in {"miraDAH", "duermeDAH"} => segundos <= EsperasDAH
    /\ tr \in {"miraCorriente", "duermeCorriente"} => segundos <= EsperasCorriente
    /\ puerto \in {"nulo", "abierto", "fallido"}
    /\ quieta \in BOOLEAN

(* Whatever requests come, in whatever order, the fixed part is used as    *)
(* CupulaFija says it is: one order at a time, each of those that it has   *)
(* been checked for.                                                       *)
ImplementaCupula == Init /\ [][Next]_vars

(* When parar is answered the dome is at rest, it is not watched by        *)
(* anybody and the next movement will be accepted, whatever movement it    *)
(* was that parar stopped.                                                 *)
ParaDeVerdad ==
    tr = "responde" /\ atendida = "parar" /\ respuesta = "OK" =>
        pin = EnReposo /\ sentido = "PARADO" /\ Vivos = {}

(* If the dome is at rest when conectarMovil begins, the serial line is    *)
(* opened with the dome at the DAH and the mobile part powered: neither    *)
(* has been lost between the waits.  (A dome that was moving may be only   *)
(* passing: the movement to the DAH is then refused, and the refusal is    *)
(* not noticed.  One just stopped may have its last pulse counted later,   *)
(* by an encoder thread that had already looked at the relays.)            *)
ConectaEnDAH ==
    [][puerto' = "abierto" /\ puerto # "abierto" /\ quieta =>
          corriente /\ getDAH]_Variables

(* Only an order with two parameters or more, or one for the mobile part,  *)
(* takes the program down, unless the dome has been measured with nobody   *)
(* to count its pulses: a size of 0 can do it at any order for an angle.   *)
MuereConCausa ==
    tr = "muerto" => \/ maxPos = 0
                     \/ /\ getComando(atendida)
                        /\ comandos[atendida].num_param > 1 \/ atendida \in DeLaMovil

(* Every request is answered, or takes the program down.                   *)
AtiendeSiempre == (tr # "fuera") ~> (tr \in {"fuera", "muerto"})
=============================================================================
