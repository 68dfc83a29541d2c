------------------------------ MODULE Dialogo ------------------------------
(***************************************************************************)
(* What the serial line promises to whoever calls comunicar: the call      *)
(* comes back; the answers come in the order of the requests and none      *)
(* twice; and the answer a call comes back with is at most as many         *)
(* requests old as calls have timed out since the program started.         *)
(***************************************************************************)
EXTENDS Integers

VARIABLES pedidas,    \* requests written to the line so far
          leida,      \* the request that the last answer read belongs to
          plazos,     \* calls that have timed out since the program started
          esperando,  \* a call is waiting
          vivo        \* the program is

vars == <<pedidas, leida, plazos, esperando, vivo>>

Init == pedidas = 0 /\ leida = 0 /\ plazos = 0 /\ ~esperando /\ vivo = TRUE

Pedir ==
    /\ vivo /\ ~esperando /\ esperando' = TRUE
    /\ pedidas' = pedidas + 1
    /\ UNCHANGED <<leida, plazos, vivo>>

(* What is read may be the end of the program.                             *)
Responder(k) ==
    /\ esperando /\ esperando' = FALSE
    /\ leida < k /\ pedidas - plazos <= k
    /\ leida' = k
    /\ vivo' \in BOOLEAN
    /\ UNCHANGED <<pedidas, plazos>>

Vencer ==
    /\ esperando /\ esperando' = FALSE
    /\ plazos' = plazos + 1
    /\ UNCHANGED <<pedidas, leida, vivo>>

Morir ==
    /\ vivo /\ vivo' = FALSE /\ esperando' = FALSE
    /\ UNCHANGED <<pedidas, leida, plazos>>

(* Nothing of what the last program waited for reaches the next one.       *)
Arrancar ==
    /\ ~vivo /\ vivo' = TRUE
    /\ plazos' = 0
    /\ UNCHANGED <<pedidas, leida, esperando>>

Vuelve == \/ \E k \in 1 .. pedidas : Responder(k)
          \/ Vencer
          \/ esperando /\ Morir

Next == Pedir \/ Vuelve \/ Morir \/ Arrancar

Seguro == Init /\ [][Next]_vars
Spec == Seguro /\ WF_vars(Vuelve)
=============================================================================
