----------------------------- MODULE Peticiones -----------------------------
(***************************************************************************)
(* What the message queue of main.cpp promises to its clients: while the   *)
(* program lives, each request is carried out exactly once, one at a time, *)
(* and its client gets the answer to that request and to no other.         *)
(***************************************************************************)
CONSTANTS Sesiones,  \* the connections there can be at once
          Textos,    \* what a client can ask for
          Ninguno    \* no request, or no answer

VARIABLES fase,      \* where the request of each client is
          peticion,  \* what it asked for
          respuesta, \* the request its answer is the answer to
          mano,      \* the client whose request is being carried out
          vivo       \* the program has not died

vars == <<fase, peticion, respuesta, mano, vivo>>

Init ==
    /\ fase = [s \in Sesiones |-> "fuera"]
    /\ peticion = [s \in Sesiones |-> Ninguno]
    /\ respuesta = [s \in Sesiones |-> Ninguno]
    /\ mano = Ninguno
    /\ vivo = TRUE

Pasa(s, de, a) == vivo /\ fase[s] = de /\ fase' = [fase EXCEPT ![s] = a]

Conectar(s) ==
    Pasa(s, "fuera", "libre") /\ UNCHANGED <<peticion, respuesta, mano, vivo>>
Cortar(s) ==
    Pasa(s, "libre", "fuera") /\ UNCHANGED <<peticion, respuesta, mano, vivo>>

Pedir(s, p) ==
    /\ Pasa(s, "libre", "pedida")
    /\ peticion' = [peticion EXCEPT ![s] = p]
    /\ UNCHANGED <<respuesta, mano, vivo>>

Tomar(s) ==
    /\ vivo /\ mano = Ninguno /\ fase[s] = "pedida"
    /\ mano' = s
    /\ UNCHANGED <<fase, peticion, respuesta, vivo>>

Atender(s) ==
    /\ mano = s /\ Pasa(s, "pedida", "atendida")
    /\ mano' = Ninguno
    /\ UNCHANGED <<peticion, respuesta, vivo>>

Contestar(s) ==
    /\ Pasa(s, "atendida", "contestada")
    /\ respuesta' = [respuesta EXCEPT ![s] = peticion[s]]
    /\ UNCHANGED <<peticion, mano, vivo>>

Entregar(s) ==
    /\ Pasa(s, "contestada", "libre") \/ Pasa(s, "contestada", "fuera")
    /\ peticion' = [peticion EXCEPT ![s] = Ninguno]
    /\ respuesta' = [respuesta EXCEPT ![s] = Ninguno]
    /\ UNCHANGED <<mano, vivo>>

Morir == vivo /\ vivo' = FALSE /\ mano' = Ninguno /\ UNCHANGED <<fase, peticion, respuesta>>

Next ==
    \/ \E s \in Sesiones :
          \/ Conectar(s) \/ Cortar(s) \/ Tomar(s) \/ Atender(s)
          \/ Contestar(s) \/ Entregar(s)
          \/ \E p \in Textos : Pedir(s, p)
    \/ Morir

Seguro == Init /\ [][Next]_vars

(* While the program lives a request is taken up, carried out and answered.*)
Spec == Seguro /\ \A s \in Sesiones : /\ SF_vars(Tomar(s)) /\ WF_vars(Atender(s))
                                      /\ WF_vars(Contestar(s))
=============================================================================
