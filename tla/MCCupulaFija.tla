---------------------------- MODULE MCCupulaFija ----------------------------
(***************************************************************************)
(* The orders that the runs of CupulaFija choose from.                     *)
(***************************************************************************)
EXTENDS Trayecto, TLC

Nada == {}
SinCalibrar == -1
Simetria == Permutations(Hilos)

(* Orders that interrupt each other, as a careless client gives them.      *)
PosInterrumpidas == {<<"CW", "relativa", 1>>, <<"CORTA", "absoluta", 1>>,
                     <<"CORTA", "dah", 0>>}
CalibrarCorto == {<<FALSE, FALSE>>, <<FALSE, TRUE>>}

(* With no origin a dome of two pulses is half a turn from the angle 0.    *)
AngulosReales == {<<"CORTA", "relativa", 0>>}

(* Orders for a client that waits until each movement ends.                *)
PosDestino == ({"CW", "CCW", "CORTA"} \X {"absoluta"} \X (0 .. N - 1))
              \cup ({"CW", "CCW"} \X {"relativa"} \X {-2, -1, 1, 3})
              \cup {<<"CW", "vuelta", 0>>, <<"CORTA", "dah", 0>>}
AngulosDestino == {<<"CORTA", "absoluta", 90>>, <<"CW", "absoluta", 270>>}
CalibrarOrigen == {<<FALSE, FALSE>>}
CalibrarTodo == {<<TRUE, FALSE>>}

(* Orders of the runs that end in a violation.                             *)
UnaRelativa == {<<"CW", "relativa", 1>>}
UnaAbsoluta == {<<"CW", "absoluta", 1>>}
=============================================================================
