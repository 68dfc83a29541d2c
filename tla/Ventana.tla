------------------------------ MODULE Ventana ------------------------------
(***************************************************************************)
(* The window: what main does with the orders for the mobile part, with    *)
(* the configuration behind them.  calibrarMovil=GET stores the times that *)
(* the firmware has measured, and calibrarMovil=PUT gives them back to a   *)
(* firmware that has been without power.  The program can be killed at any *)
(* moment, in the middle of save too, and started again.                   *)
(***************************************************************************)
EXTENDS CupulaMovil, Config

CONSTANTS
    Pedidos,       \* the methods that clients ask for
    Giros,         \* the sizes that calibrations of the dome measure
    MaxPedidas,    \* bound: no call begins with so many requests written
    MaxLinea,      \* bound: nor does calibrateSincrono go on polling
    MaxArranques   \* bound: restarts

ASSUME VentanaAssumption ==
    /\ Pedidos \subseteq Metodos /\ Giros \subseteq Nat
    /\ {MaxPedidas, MaxLinea, MaxArranques} \subseteq Nat

VARIABLE arranques

vars == <<movil, config, arranques>>

Libre == pcm = "libre" /\ guardando = "no"

Conecta == Libre /\ conectar /\ UNCHANGED <<config, arranques>>

(* The struct dc of calibrarMovil is filled only for PUT, and PUT is for a *)
(* window that has been calibrated.                                        *)
Llama(m) ==
    /\ Libre /\ pedidas < MaxPedidas
    /\ m = "PUT" => parametros.estado = 1
    /\ Pide(m, IF m = "PUT" THEN [fin |-> TRUE, t |-> parametros.tiempos] ELSE DcVacio)
    /\ UNCHANGED <<config, arranques>>

Sondea ==
    /\ pcm = "duerme" /\ pedidas < MaxLinea
    /\ Pide("sondeo", dc)
    /\ UNCHANGED <<config, arranques>>

Guarda_sinFinalizado(m, x) == m = "GET" /\ x.vive /\ x.ok
Guarda(m, x) == m = "GET" /\ x.vive /\ x.ok /\ x.dc.fin

Recibe ==
    /\ pcm = "espera" /\ entrada # <<>>
    /\ \E x \in Lecturas(llamada, Head(entrada).r) :
          /\ Lee(x)
          /\ IF Guarda(llamada, x) THEN put_ventana_calibrado(x.dc.t)
                                   ELSE UNCHANGED config
    /\ UNCHANGED arranques

NoContesta == Vence /\ UNCHANGED <<config, arranques>>

(* The end of a complete calibration of the dome.                          *)
CalibraCupula(v) ==
    /\ Libre
    /\ put_cupula_max_posiciones(v)
    /\ UNCHANGED <<movil, arranques>>

save ==
    /\ pcm # "muerto"
    /\ AbreFichero \/ EscribeFichero
    /\ UNCHANGED <<movil, arranques>>

(* A signal, an order to the fixed part that throws, the end of main.      *)
Mata ==
    /\ pcm # "muerto" /\ Cae
    /\ UNCHANGED <<cartas, firmware, config, arranques>>

ArrancaMovil ==
    /\ pcm = "muerto" /\ pcm' = "libre"
    /\ plazos' = 0
    /\ UNCHANGED <<puerto, llamada, dc, pedidas, leida, tarde, sinTiempos, linea, firmware>>

Arranca ==
    /\ ArrancaMovil /\ load
    /\ arranques < MaxArranques /\ arranques' = arranques + 1

Mundo == (Contesta \/ TerminaMedida \/ Corta \/ Repone) /\ UNCHANGED <<config, arranques>>

Init == InitMovil /\ InitConfig /\ arranques = 0

Sigue == Recibe \/ NoContesta \/ Sondea \/ save

Next ==
    \/ Sigue \/ Conecta \/ (\E m \in Pedidos : Llama(m))
    \/ (\E v \in Giros : CalibraCupula(v)) \/ Mata \/ Arranca \/ Mundo

(* main goes on with what it has begun; the firmware answers while it has  *)
(* power, and the window reaches its end.                                  *)
Fairness == /\ WF_vars(Sigue)
            /\ WF_vars(Contesta /\ UNCHANGED <<config, arranques>>)
            /\ WF_vars(TerminaMedida /\ UNCHANGED <<config, arranques>>)

Spec == Init /\ [][Next]_vars /\ Fairness

(***************************************************************************)
(* Properties.                                                             *)
(***************************************************************************)

(* The values of the variables of the two components.                      *)
TypeOK == TypeMovil /\ TypeConfig /\ arranques \in Nat

(* What the program works with is what a restart would read, whenever it   *)
(* is not in the middle of saving it, after any number of calibrations of  *)
(* the dome and of the window, and of restarts.                            *)
FicheroAlDia == pcm # "muerto" /\ guardando = "no" => Vale(fichero) = parametros

(* While no answer has been taken for another, the times that are kept as  *)
(* the calibration of the window, and those that are given back to the     *)
(* firmware, have been measured.  One answer alone brings in those of an   *)
(* unfilled struct: the answer to a GET that says that the calibration has *)
(* ended, in a state that is not NINGUNO.  calibrate reads no times in it, *)
(* and main, which looks at finalizado alone, stores what there was.       *)
TiemposPosibles == (1 .. medidas) \cup {t \in {Basura} : sinTiempos}

TiemposMedidos ==
    ~tarde => /\ parametros.estado = 1 => parametros.tiempos \in TiemposPosibles
              /\ fw.cal = "medido" => fw.t \in TiemposPosibles

(* Reading an answer takes the program down only if it is the answer to    *)
(* another request, or the call is getStatus, which looks for 15           *)
(* parameters in an answer of two.                                         *)
LeerNoMata ==
    [][pcm = "espera" /\ leida' # leida /\ pcm' = "muerto" =>
         leida' # pedidas \/ llamada = "getStatus"]_vars

(* calibrateSincrono, which polls with no limit of its own, returns, if    *)
(* the firmware keeps its power and no answer is late.                     *)
SincronoTermina ==
    llamada \in {"calibrateSincrono", "sondeo"} ~>
        (llamada \notin {"calibrateSincrono", "sondeo"} \/ cortes > 0 \/ tarde)

(* The line implements Dialogo: every call comes back, answers keep their  *)
(* order, and an answer is at most as late as calls have timed out.        *)
D == INSTANCE Dialogo WITH esperando <- pcm = "espera", vivo <- pcm # "muerto"
ImplementaDialogo == D!Spec
=============================================================================
