----------------------------- MODULE Geometria -----------------------------
(***************************************************************************)
(* The arithmetic of CCupulaFijo: encoder positions, degrees, the shortest *)
(* way between two positions and the modular step of the absolute counter. *)
(* A dome of max positions is at absolute position posAbs, -1 when it has  *)
(* no origin; max is -1 while the dome has never been calibrated.          *)
(***************************************************************************)
EXTENDS Integers

(* global.h:11-26, the two enumerations the whole program speaks in.       *)
sentidoMovimiento == {"PARADO", "CW", "CCW", "CORTA"}
tipoPosicion == {"absoluta", "relativa", "dah", "manual", "vuelta"}

abs(i) == IF i < 0 THEN -i ELSE i

(* The int division of C, which truncates towards zero, of a positive b.   *)
(* With b = 0 it is undefined: it gives 0 where the processor does not     *)
(* trap it, and where it does the program is killed (DivideEntreCero).     *)
DivC(a, b) == CASE b <= 0          -> 0
                [] b > 0 /\ a >= 0 -> a \div b
                [] OTHER           -> -((-a) \div b)

getPosicion(angulo, max, posAbs) ==
    CASE max = -1               -> -1
      [] max # -1 /\ angulo = -1 -> posAbs
      [] OTHER                  -> DivC(angulo * max, 360)

getAngulo(posicion, max, posAbs) ==
    CASE max = -1                  -> -1
      [] max # -1 /\ posicion = -1 -> DivC(posAbs * 360, max)
      [] OTHER                     -> DivC(posicion * 360, max)

(* Wrong on purpose, see CupulaFija: the way through the origin is ignored.*)
sentidoMasCorto_sinDarLaVuelta(pos, max, posAbs) ==
    IF getAngulo(pos, max, posAbs) - getAngulo(-1, max, posAbs) > 0 THEN "CW" ELSE "CCW"

sentidoMasCorto(pos, max, posAbs) ==
    LET angulo1 == getAngulo(pos, max, posAbs) - getAngulo(-1, max, posAbs)
        angulo2 == 360 - abs(angulo1)
    IN  IF (abs(angulo1) < angulo2) = (angulo1 > 0) THEN "CW" ELSE "CCW"

(* Wrong on purpose, see CupulaFija: the counter is never brought to 0.    *)
operarPosicionAbsoluta_sinCero(posAbs, valor, max) ==
    CASE posAbs = -1                            -> -1
      [] posAbs # -1 /\ posAbs + valor < 0      -> max - 1
      [] OTHER                                  -> posAbs + valor

(* One step of the absolute counter; it stays at -1 without an origin.     *)
operarPosicionAbsoluta(posAbs, valor, max) ==
    CASE posAbs = -1                             -> -1
      [] posAbs # -1 /\ posAbs + valor = max     -> 0
      [] posAbs # -1 /\ posAbs + valor # max
                     /\ posAbs + valor < 0       -> max - 1
      [] OTHER                                   -> posAbs + valor

(* setAngulo folds a relative angle into [0, 360) once, not modulo.        *)
Plegado(angulo) ==
    LET menos == IF angulo > 359 THEN angulo - 360 ELSE angulo
    IN  IF menos < 0 THEN menos + 360 ELSE menos

(* The position setAngulo asks setPosicion for.                            *)
PosicionPedida(tp, angulo, max, posAbs) ==
    IF tp = "relativa"
    THEN getPosicion(Plegado(getAngulo(-1, max, posAbs) + angulo), max, posAbs)
    ELSE getPosicion(angulo, max, posAbs)
=============================================================================
