----------------------------- MODULE Maniobras -----------------------------
(***************************************************************************)
(* What CCupulaFijo promises about its movements, whatever its threads do: *)
(* the motor is started only from rest and only when nobody is left of the *)
(* movement before, a movement has at most one watcher, the watcher lets   *)
(* go only of a motor at rest, and a motor at rest is let go of.           *)
(***************************************************************************)
VARIABLES motor,      \* the motor that runs
          vigilada    \* somebody is watching for the end of the movement

vars == <<motor, vigilada>>

TypeOK == motor \in {"PARADO", "CW", "CCW"} /\ vigilada \in BOOLEAN

Init == motor = "PARADO" /\ ~vigilada

Arrancar(s) == motor = "PARADO" /\ ~vigilada /\ motor' = s /\ UNCHANGED vigilada

Vigilar == motor # "PARADO" /\ ~vigilada /\ vigilada' = TRUE /\ UNCHANGED motor

Frenar == motor # "PARADO" /\ motor' = "PARADO" /\ UNCHANGED vigilada

Soltar == vigilada /\ motor = "PARADO" /\ vigilada' = FALSE /\ UNCHANGED motor

Next == (\E s \in {"CW", "CCW"} : Arrancar(s)) \/ Vigilar \/ Frenar \/ Soltar

Seguro == Init /\ [][Next]_vars
Spec == Seguro /\ WF_vars(Soltar)
=============================================================================
