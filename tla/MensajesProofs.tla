--------------------------- MODULE MensajesProofs ---------------------------
(***************************************************************************)
(* Theorems about Mensajes, for any number of sessions and any requests.   *)
(* TypeOK alone is not inductive, what a session reads depends on what     *)
(* main has written: it is proved together with Coherencia.                *)
(***************************************************************************)
EXTENDS Mensajes, TLAPS

Inv == TypeOK /\ Coherencia

LEMMA Inicial == Init => Inv
  BY DEF Init, Inv, TypeOK, EstadosSesion, EnCerrojo, Iterando, Coherencia,
         CerrojoCoherente, MainCoherente, SesionCoherente

(* A key of the map, and a session that is filling its object, have one.   *)
LEMMA TieneObjeto ==
    ASSUME Inv, NEW s \in Sesiones, s \in mensajes \/ pc[s] = "escribe"
    PROVE  objeto[s] \in Objetos
  BY DEF Inv, TypeOK, Coherencia, SesionCoherente

(* The writes to an object keep it an object.                              *)
LEMMA EscribeObjeto ==
    ASSUME TypeOK, NEW s \in Sesiones, NEW o \in Objetos,
           objeto' = [objeto EXCEPT ![s] = o],
           mensajes' \subseteq mensajes \cup {s}
    PROVE  /\ objeto' \in [Sesiones -> Objetos \cup {Ninguno}]
           /\ mensajes' \subseteq {t \in Sesiones : objeto'[t] # Ninguno}
  BY ObjetosAssumption DEF TypeOK

LEMMA TipoSesion ==
    ASSUME Inv, NEW s \in Sesiones,
           Acepta(s) \/ Sesion(s) \/ Cerrojos(s) \/ \E p \in Textos : Lee(s, p)
    PROVE  TypeOK'
<1> USE DEF EstadosSesion, EnCerrojo
<1>0. TypeOK
  BY DEF Inv
<1>1. CASE Acepta(s) \/ Cerrojos(s) \/ \E p \in Textos : Lee(s, p)
  <2>1. CASE Acepta(s)
    BY <1>0, <2>1 DEF TypeOK, Acepta, Pone, cola, bucle
  <2>2. CASE Cerrojos(s)
    BY <1>0, <2>2 DEF TypeOK, Cerrojos, Cerrojo, Pone, TestAndSet, cola, bucle
  <2>3. CASE \E p \in Textos : Lee(s, p)
    BY <1>0, <2>3 DEF TypeOK, Lee, Pone, cola, bucle
  <2> QED
    BY <1>1, <2>1, <2>2, <2>3
<1>2. CASE Encola(s)
  <2> DEFINE o == IF s \in mensajes
                  THEN [objeto[s] EXCEPT !.estado = "PETICION"]
                  ELSE [estado |-> "PETICION", peticion |-> Ninguno,
                        respuesta |-> Ninguno]
  <2>1. o \in Objetos
    BY TieneObjeto DEF Objetos
  <2>2. objeto' = [objeto EXCEPT ![s] = o] /\ mensajes' = mensajes
    BY <1>2 DEF Encola
  <2> HIDE DEF o
  <2>3. /\ objeto' \in [Sesiones -> Objetos \cup {Ninguno}]
        /\ mensajes' \subseteq {t \in Sesiones : objeto'[t] # Ninguno}
    BY <1>0, <2>1, <2>2, EscribeObjeto
  <2> QED
    BY <1>0, <1>2, <2>3 DEF Encola, TypeOK, Pone, bucle
<1>3. CASE Escribe(s)
  <2> DEFINE o == [objeto[s] EXCEPT !.peticion = s_pide[s]]
  <2>1. o \in Objetos
    BY <1>0, <1>3, TieneObjeto DEF Objetos, TypeOK, Escribe
  <2>2. objeto' = [objeto EXCEPT ![s] = o] /\ mensajes' = mensajes \cup {s}
    BY <1>3 DEF Escribe
  <2> HIDE DEF o
  <2>3. /\ objeto' \in [Sesiones -> Objetos \cup {Ninguno}]
        /\ mensajes' \subseteq {t \in Sesiones : objeto'[t] # Ninguno}
    BY <1>0, <2>1, <2>2, EscribeObjeto
  <2> QED
    BY <1>0, <1>3, <2>3 DEF Escribe, TypeOK, Pone, bucle
<1>4. CASE Espera(s) \/ Publica(s) \/ Responde(s) \/ Corta(s)
  BY <1>0, <1>4 DEF TypeOK, Espera, Publica, Responde, Corta, Pone, Clear, cola, bucle
<1>5. CASE Recoge(s)
  <2>1. objeto[s].respuesta \in Textos \cup {Ninguno}
    BY <1>5, TieneObjeto DEF Inv, Coherencia, SesionCoherente, Recoge, Objetos
  <2> QED
    BY <1>0, <1>5, <2>1 DEF TypeOK, Recoge, Pone, Clear, bucle
<1>6. CASE Borra(s)
  BY <1>0, <1>6 DEF TypeOK, Borra, Pone, Clear, bucle
<1> QED
  BY <1>1, <1>2, <1>3, <1>4, <1>5, <1>6 DEF Sesion

LEMMA TipoMain == ASSUME Inv, Main \/ MainCerrojo \/ ListenerMuere PROVE TypeOK'
<1> USE DEF Iterando
<1>0. TypeOK
  BY DEF Inv
<1>1. CASE MainTrata \/ MainMarca
  <2>1. actual \in Sesiones /\ objeto[actual] \in Objetos
    BY <1>1, TieneObjeto
       DEF MainTrata, MainMarca, Inv, Coherencia, MainCoherente, TypeOK
  <2>2. PICK o \in Objetos : objeto' = [objeto EXCEPT ![actual] = o]
    BY <1>1, <2>1 DEF MainTrata, MainMarca, Objetos
  <2>3. /\ objeto' \in [Sesiones -> Objetos \cup {Ninguno}]
        /\ mensajes' \subseteq {t \in Sesiones : objeto'[t] # Ninguno}
    BY <1>0, <1>1, <2>1, <2>2, EscribeObjeto DEF MainTrata, MainMarca
  <2> QED
    BY <1>0, <1>1, <2>3 DEF TypeOK, MainTrata, MainMarca
<1>2. CASE MainBucle \/ MainCerrojo \/ MainSuelta \/ MainAborta \/ ListenerMuere
  BY <1>0, <1>2 DEF TypeOK, MainBucle, MainCerrojo, MainSuelta, MainAborta,
                    ListenerMuere, TestAndSet, Clear, cola, bucle
<1>3. ASSUME NEW s \in Sesiones, MainMira(s) PROVE TypeOK'
  BY <1>0, <1>3 DEF TypeOK, MainMira, cola
<1> QED
  BY <1>1, <1>2, <1>3 DEF Main

(***************************************************************************)
(* The lock.                                                               *)
(***************************************************************************)
LEMMA CerrojoSesion ==
    ASSUME Inv, NEW s \in Sesiones,
           Acepta(s) \/ Sesion(s) \/ Cerrojos(s) \/ \E p \in Textos : Lee(s, p)
    PROVE  CerrojoCoherente'
<1> USE DEF Inv, TypeOK, Coherencia, CerrojoCoherente, EnCerrojo, Iterando
<1>1. UNCHANGED pcMain
  BY DEF Acepta, Lee, Cerrojos, Cerrojo, Sesion, Encola, Escribe, Espera, Publica,
         Recoge, Borra, Responde, Corta, cola, bucle
<1>2. CASE Cerrojos(s)
  BY <1>1, <1>2 DEF Cerrojos, Cerrojo, Pone, TestAndSet
<1>3. CASE Publica(s) \/ Recoge(s) \/ Borra(s)
  BY <1>1, <1>3 DEF Publica, Recoge, Borra, Pone, Clear
<1>4. CASE Acepta(s) \/ (\E p \in Textos : Lee(s, p)) \/ Encola(s) \/ Escribe(s)
           \/ Espera(s) \/ Responde(s) \/ Corta(s)
  BY <1>1, <1>4 DEF Acepta, Lee, Encola, Escribe, Espera, Responde, Corta, Pone, cola
<1> QED
  BY <1>2, <1>3, <1>4 DEF Sesion

LEMMA CerrojoMain ==
    ASSUME Inv, Main \/ MainCerrojo \/ ListenerMuere PROVE CerrojoCoherente'
<1> USE DEF Inv, Coherencia, CerrojoCoherente, EnCerrojo, Iterando
<1>1. CASE MainCerrojo
  BY <1>1 DEF MainCerrojo, TestAndSet
<1>2. CASE MainSuelta
  BY <1>2 DEF MainSuelta, Clear
<1>3. CASE MainBucle \/ MainTrata \/ MainMarca \/ MainAborta \/ ListenerMuere
  BY <1>3 DEF MainBucle, MainTrata, MainMarca, MainAborta, ListenerMuere, cola, bucle
<1>4. ASSUME NEW s \in Sesiones, MainMira(s) PROVE CerrojoCoherente'
  BY <1>4 DEF MainMira, cola
<1> QED
  BY <1>1, <1>2, <1>3, <1>4 DEF Main

(***************************************************************************)
(* What a session and main know of the objects.                            *)
(***************************************************************************)
LEMMA SesionSesion ==
    ASSUME Inv, NEW s \in Sesiones,
           Acepta(s) \/ Sesion(s) \/ Cerrojos(s) \/ (\E p \in Textos : Lee(s, p)),
           NEW t \in Sesiones
    PROVE  SesionCoherente(t)'
<1> USE DEF SesionCoherente
<1>0. TypeOK /\ SesionCoherente(t) /\ SesionCoherente(s)
  BY DEF Inv, Coherencia
<1>1. CASE Acepta(s) \/ Cerrojos(s) \/ (\E p \in Textos : Lee(s, p))
           \/ Publica(s) \/ Espera(s) \/ Responde(s) \/ Corta(s)
  BY <1>0, <1>1 DEF TypeOK, Acepta, Cerrojos, Cerrojo, Lee, Publica, Espera, Responde,
                    Corta, Pone, cola
<1>2. CASE Encola(s) \/ Escribe(s) \/ Recoge(s) \/ Borra(s)
  <2>1. CASE t # s
    BY <1>0, <1>2, <2>1 DEF TypeOK, Encola, Escribe, Recoge, Borra, Pone
  <2>2. CASE t = s /\ Encola(s)
    <3>1. objeto'[s].estado = "PETICION" /\ objeto'[s] # Ninguno
      BY <1>0, <2>2, TieneObjeto, ObjetosAssumption DEF TypeOK, Encola, Objetos
    <3> QED
      BY <1>0, <2>2, <3>1 DEF TypeOK, Encola, Pone
  <2>3. CASE t = s /\ Escribe(s)
    <3>1. objeto[s] \in Objetos
      BY <2>3, TieneObjeto DEF Escribe
    <3>2. /\ objeto'[s].estado = "PETICION" /\ objeto'[s].peticion = s_pide[s]
          /\ s \in mensajes'
      BY <1>0, <2>3, <3>1 DEF TypeOK, Escribe, Objetos
    <3> QED
      BY <1>0, <2>3, <3>2 DEF TypeOK, Escribe, Pone
  <2>4. CASE t = s /\ Recoge(s)
    BY <1>0, <2>4 DEF TypeOK, Recoge, Pone
  <2>5. CASE t = s /\ Borra(s)
    BY <1>0, <2>5 DEF TypeOK, Borra, Pone
  <2> QED
    BY <1>2, <2>1, <2>2, <2>3, <2>4, <2>5
<1> QED
  BY <1>1, <1>2 DEF Sesion

LEMMA MainSesion ==
    ASSUME Inv, NEW s \in Sesiones,
           Acepta(s) \/ Sesion(s) \/ Cerrojos(s) \/ (\E p \in Textos : Lee(s, p))
    PROVE  MainCoherente'
<1> USE DEF MainCoherente
<1>0. TypeOK /\ MainCoherente /\ CerrojoCoherente
  BY DEF Inv, Coherencia
<1>1. UNCHANGED bucle
  BY DEF Acepta, Lee, Cerrojos, Cerrojo, Sesion, Encola, Escribe, Espera, Publica,
         Recoge, Borra, Responde, Corta
<1>2. CASE pcMain \notin Iterando
  BY <1>1, <1>2 DEF bucle, Iterando
<1>3. CASE pcMain \in Iterando
  <2>1. ~(Encola(s) \/ Escribe(s) \/ Publica(s) \/ Recoge(s) \/ Borra(s))
    BY <1>0, <1>3 DEF CerrojoCoherente, EnCerrojo, Encola, Escribe, Publica, Recoge, Borra
  <2>2. UNCHANGED <<mensajes, objeto>>
    BY <2>1 DEF Acepta, Lee, Cerrojos, Cerrojo, Sesion, Espera, Responde, Corta, cola
  <2>3. pcMain \in {"trata", "marca"} => actual # s \/ pc'[s] = pc[s]
    <3>1. ASSUME pcMain \in {"trata", "marca"}, actual = s PROVE FALSE
      BY <1>0, <2>1, <3>1
         DEF Acepta, Lee, Cerrojos, Cerrojo, Sesion, Espera, Responde, Corta
    <3> QED
      BY <3>1
  <2>4. \A t \in Sesiones : t # s => pc'[t] = pc[t]
    BY <1>0, <2>1 DEF TypeOK, Acepta, Lee, Cerrojos, Cerrojo, Sesion, Espera, Responde,
                      Corta, Pone
  <2> QED
    BY <1>0, <1>1, <2>2, <2>3, <2>4 DEF bucle, TypeOK
<1> QED
  BY <1>2, <1>3

LEMMA SesionMain ==
    ASSUME Inv, Main \/ MainCerrojo \/ ListenerMuere, NEW t \in Sesiones
    PROVE  SesionCoherente(t)'
<1> USE DEF SesionCoherente
<1>0. TypeOK /\ SesionCoherente(t) /\ MainCoherente
  BY DEF Inv, Coherencia
<1>1. CASE MainTrata \/ MainMarca
  <2>1. /\ actual \in Sesiones /\ objeto[actual] \in Objetos
        /\ actual \in mensajes /\ pc[actual] = "espera"
        /\ objeto[actual].peticion = s_pide[actual]
    BY <1>0, <1>1, TieneObjeto
       DEF MainTrata, MainMarca, MainCoherente, TypeOK, Inv, Coherencia
  <2>2. CASE t # actual
    BY <1>0, <1>1, <2>1, <2>2 DEF MainTrata, MainMarca, TypeOK
  <2>3. CASE t = actual /\ MainTrata
    BY <1>0, <2>1, <2>3 DEF MainTrata, MainCoherente, TypeOK, Objetos
  <2>4. CASE t = actual /\ MainMarca
    BY <1>0, <2>1, <2>4 DEF MainMarca, MainCoherente, TypeOK, Objetos
  <2> QED
    BY <1>1, <2>2, <2>3, <2>4
<1>2. CASE MainBucle \/ MainCerrojo \/ MainSuelta \/ MainAborta \/ ListenerMuere
  BY <1>0, <1>2 DEF MainBucle, MainCerrojo, MainSuelta, MainAborta, ListenerMuere, cola
<1>3. ASSUME NEW s \in Sesiones, MainMira(s) PROVE SesionCoherente(t)'
  BY <1>0, <1>3 DEF MainMira, cola
<1> QED
  BY <1>1, <1>2, <1>3 DEF Main

LEMMA MainMain ==
    ASSUME Inv, Main \/ MainCerrojo \/ ListenerMuere PROVE MainCoherente'
<1> USE DEF MainCoherente, Iterando
<1>0. TypeOK /\ MainCoherente
  BY DEF Inv, Coherencia
<1>1. CASE MainTrata
  <2>1. actual \in Sesiones /\ objeto[actual] \in Objetos
    BY <1>0, <1>1, TieneObjeto DEF MainTrata, TypeOK
  <2> QED
    BY <1>0, <1>1, <2>1 DEF MainTrata, TypeOK, Objetos
<1>2. CASE MainMarca \/ MainBucle \/ MainCerrojo \/ MainSuelta \/ MainAborta
           \/ ListenerMuere
  BY <1>0, <1>2 DEF MainMarca, MainBucle, MainCerrojo, MainSuelta, MainAborta,
                    ListenerMuere, cola, bucle
<1>3. ASSUME NEW s \in Sesiones, MainMira(s) PROVE MainCoherente'
  <2>1. s \in mensajes /\ SesionCoherente(s)
    BY <1>0, <1>3 DEF MainMira, Inv, Coherencia
  <2>2. objeto[s].estado = "PETICION" => pc[s] = "espera"
    BY <1>3, <2>1 DEF SesionCoherente, MainMira, Inv, Coherencia, CerrojoCoherente,
                      EnCerrojo
  <2> QED
    BY <1>0, <1>3, <2>1, <2>2 DEF MainMira, cola
<1> QED
  BY <1>1, <1>2, <1>3 DEF Main

LEMMA InvPaso == Inv /\ [Next]_vars => Inv'
<1> SUFFICES ASSUME Inv, [Next]_vars PROVE Inv'
  OBVIOUS
<1>1. ASSUME NEW s \in Sesiones,
             Acepta(s) \/ Sesion(s) \/ Cerrojos(s) \/ (\E p \in Textos : Lee(s, p))
      PROVE  Inv'
  BY <1>1, TipoSesion, CerrojoSesion, SesionSesion, MainSesion DEF Inv, Coherencia
<1>2. CASE Main \/ MainCerrojo \/ ListenerMuere
  BY <1>2, TipoMain, CerrojoMain, SesionMain, MainMain DEF Inv, Coherencia
<1>3. CASE UNCHANGED vars
  BY <1>3 DEF vars, cola, bucle, Inv, TypeOK, Coherencia, CerrojoCoherente,
              MainCoherente, SesionCoherente
<1> QED
  BY <1>1, <1>2, <1>3 DEF Next, Listener

(* The program never leaves the values of its types, and what each thread  *)
(* knows of the objects while it holds, or waits for, the lock is true.    *)
THEOREM Correcto == Spec => [](TypeOK /\ Coherencia)
<1>1. Spec => []Inv
  BY Inicial, InvPaso, PTL DEF Spec
<1>2. Inv => TypeOK /\ Coherencia
  BY DEF Inv
<1> QED
  BY <1>1, <1>2, PTL

(* The objects, the queue and the map only ever hold what their types say, *)
(* sessions that are cut at any point included.                            *)
THEOREM TipoCorrecto == Spec => []TypeOK
BY Correcto, PTL

(* Never two threads between a test_and_set and its clear.                 *)
THEOREM ExclusionMutua == Spec => []Exclusion
<1>1. Coherencia => Exclusion
  BY SesionesAssumption DEF Coherencia, CerrojoCoherente, Exclusion, EnSeccion
<1> QED
  BY <1>1, Correcto, PTL

(* Each answer a session sends is the answer to its last request.          *)
THEOREM Respuesta == Spec => []RespuestaPropia
<1>1. Coherencia => RespuestaPropia
  BY DEF Coherencia, SesionCoherente, RespuestaPropia
<1> QED
  BY <1>1, Correcto, PTL

(* The map does not change under the iterator of main.                     *)
THEOREM Iterador == Spec => MapaQuieto
<1>1. Inv /\ [Next]_vars /\ pcMain \in Iterando => mensajes' = mensajes
  <2> SUFFICES ASSUME Inv, [Next]_vars, pcMain \in Iterando
               PROVE  mensajes' = mensajes
    OBVIOUS
  <2>1. ASSUME NEW s \in Sesiones, Sesion(s) PROVE mensajes' = mensajes
    <3>1. ~Escribe(s) /\ ~Borra(s)
      BY DEF Inv, Coherencia, CerrojoCoherente, EnCerrojo, Escribe, Borra
    <3> QED
      BY <2>1, <3>1 DEF Sesion, Encola, Publica, Espera, Recoge, Responde, Corta, cola
  <2>2. CASE Main \/ MainCerrojo
    BY <2>2 DEF Main, MainBucle, MainMira, MainTrata, MainMarca, MainSuelta, MainAborta,
                MainCerrojo, cola
  <2>3. ASSUME NEW s \in Sesiones,
               Acepta(s) \/ Cerrojos(s) \/ (\E p \in Textos : Lee(s, p))
        PROVE  mensajes' = mensajes
    BY <2>3 DEF Acepta, Cerrojos, Cerrojo, Lee, cola
  <2>4. CASE ListenerMuere \/ UNCHANGED vars
    BY <2>4 DEF ListenerMuere, vars, cola
  <2> QED
    BY <2>1, <2>2, <2>3, <2>4 DEF Next, Listener
<1>2. Inv <=> TypeOK /\ Coherencia
  BY DEF Inv
<1> QED
  BY <1>1, <1>2, Correcto, PTL DEF Spec, MapaQuieto

(***************************************************************************)
(* The refinement: what each step is in Peticiones.                        *)
(***************************************************************************)
Fases == [x \in Sesiones |-> Fase(x)]
Mano == IF pcMain = "trata" THEN actual ELSE Ninguno

(* A step of one session leaves the requests of the others where they are. *)
LEMMA FaseDeOtros ==
    ASSUME TypeOK, NEW s \in Sesiones, NEW a, Pone(s, a), UNCHANGED bucle,
           \A t \in Sesiones : t # s => objeto'[t] = objeto[t]
    PROVE  Fases' = [Fases EXCEPT ![s] = Fase(s)']
<1>1. ASSUME NEW t \in Sesiones, t # s PROVE Fase(t)' = Fase(t)
  BY <1>1 DEF Fase, Pone, bucle, TypeOK
<1> QED
  BY <1>1 DEF Fases

LEMMA SesionRefina ==
    ASSUME Inv, NEW s \in Sesiones,
           Acepta(s) \/ Sesion(s) \/ Cerrojos(s) \/ (\E p \in Textos : Lee(s, p))
    PROVE  [P!Next]_(P!vars)
<1> USE DEF P!vars, P!Next, P!Pasa
<1>0. TypeOK /\ SesionCoherente(s) /\ MainCoherente
  BY DEF Inv, Coherencia
<1>1. UNCHANGED bucle /\ Vive /\ Vive'
  BY DEF Acepta, Lee, Cerrojos, Cerrojo, Sesion, Encola, Escribe, Espera, Publica,
         Recoge, Borra, Responde, Corta, Vive, bucle
<1>2. \A t \in Sesiones : t # s => objeto'[t] = objeto[t]
  BY <1>0 DEF Acepta, Lee, Cerrojos, Cerrojo, Sesion, Encola, Escribe, Espera, Publica,
              Recoge, Borra, Responde, Corta, cola, TypeOK
<1>3. PICK a : Pone(s, a)
  BY DEF Acepta, Lee, Cerrojos, Cerrojo, Sesion, Encola, Escribe, Espera, Publica,
         Recoge, Borra, Responde, Corta
<1>4. Fases' = [Fases EXCEPT ![s] = Fase(s)'] /\ Fases[s] = Fase(s)
  BY <1>0, <1>1, <1>2, <1>3, FaseDeOtros DEF Fases
<1>5. pc'[s] = a /\ Mano' = Mano
  BY <1>0, <1>1, <1>3 DEF Pone, TypeOK, Mano, bucle
<1>6. ASSUME Fase(s)' = Fase(s), UNCHANGED <<s_pide, s_resp>>
      PROVE  UNCHANGED <<Fases, s_pide, s_resp, Mano, Vive>>
  BY <1>1, <1>4, <1>5, <1>6 DEF Fases
<1>a. CASE Acepta(s)
  <2>1. Fase(s) = "fuera" /\ Fase(s)' = "libre"
    BY <1>0, <1>a DEF Acepta, Fase, Pone, TypeOK
  <2>2. P!Conectar(s)
    BY <1>a, <1>1, <1>4, <1>5, <2>1 DEF P!Conectar, Acepta, Fases, Mano
  <2> QED
    BY <2>2
<1>b. ASSUME NEW p \in Textos, Lee(s, p) PROVE P!Pedir(s, p)
  <2>1. Fase(s) = "libre" /\ Fase(s)' = "pedida"
    BY <1>0, <1>b DEF Lee, Fase, Pone, TypeOK
  <2> QED
    BY <1>b, <1>1, <1>4, <1>5, <2>1 DEF P!Pedir, Lee, Fases, Mano
<1>c. CASE Corta(s)
  <2>1. CASE pc[s] = "lee"
    <3>1. Fase(s) = "libre" /\ Fase(s)' = "fuera"
      BY <1>0, <1>c, <2>1 DEF Corta, Fase, Pone, TypeOK
    <3>2. UNCHANGED <<s_pide, s_resp>>
      BY <1>0, <1>c, <2>1 DEF Corta, SesionCoherente, TypeOK
    <3>3. P!Cortar(s)
      BY <1>1, <1>4, <1>5, <3>1, <3>2 DEF P!Cortar, Fases, Mano
    <3> QED
      BY <3>3
  <2>2. CASE pc[s] = "responde"
    <3>1. Fase(s) = "contestada" /\ Fase(s)' = "fuera"
      BY <1>0, <1>c, <2>2 DEF Corta, Fase, Pone, TypeOK
    <3>2. P!Entregar(s)
      BY <1>c, <1>1, <1>4, <1>5, <3>1 DEF P!Entregar, Corta, Fases, Mano
    <3> QED
      BY <3>2
  <2> QED
    BY <1>c, <2>1, <2>2 DEF Corta
<1>d. CASE Responde(s)
  <2>1. Fase(s) = "contestada" /\ Fase(s)' \in {"libre", "fuera"}
    BY <1>0, <1>d DEF Responde, Fase, Pone, TypeOK
  <2>2. P!Entregar(s)
    BY <1>d, <1>1, <1>4, <1>5, <2>1 DEF P!Entregar, Responde, Fases, Mano
  <2> QED
    BY <2>2
<1>e. CASE Recoge(s)
  <2>1. Fase(s) = "atendida" /\ Fase(s)' = "contestada"
    BY <1>0, <1>e DEF Recoge, Fase, Pone, TypeOK
  <2>2. s_resp' = [s_resp EXCEPT ![s] = s_pide[s]]
    BY <1>0, <1>e DEF Recoge, SesionCoherente
  <2>3. P!Contestar(s)
    BY <1>e, <1>1, <1>4, <1>5, <2>1, <2>2 DEF P!Contestar, Recoge, Fases, Mano
  <2> QED
    BY <2>3
<1>f. CASE Cerrojos(s) \/ Encola(s) \/ Escribe(s) \/ Borra(s)
  <2>1. Fase(s)' = Fase(s) /\ UNCHANGED <<s_pide, s_resp>>
    BY <1>0, <1>f DEF Cerrojos, Cerrojo, Encola, Escribe, Borra, Fase, Pone, TypeOK
  <2> QED
    BY <1>6, <2>1 DEF Fases, Mano
<1>g. CASE Publica(s) \/ Espera(s)
  <2>1. Publica(s) => objeto[s].estado = "PETICION" /\ ~(pcMain = "marca" /\ actual = s)
    BY <1>0 DEF Publica, SesionCoherente, MainCoherente
  <2>2. Fase(s)' = Fase(s) /\ UNCHANGED <<s_pide, s_resp>>
    BY <1>0, <1>1, <1>g, <2>1 DEF Publica, Espera, Fase, Pone, TypeOK, cola, bucle
  <2> QED
    BY <1>6, <2>2 DEF Fases, Mano
<1> QED
  BY <1>a, <1>b, <1>c, <1>d, <1>e, <1>f, <1>g DEF Sesion

LEMMA MainRefina ==
    ASSUME Inv, Main \/ MainCerrojo \/ ListenerMuere PROVE [P!Next]_(P!vars)
<1> USE DEF P!vars, P!Next, P!Pasa
<1>0. TypeOK /\ MainCoherente
  BY DEF Inv, Coherencia
<1>1. UNCHANGED <<s_pide, s_resp, pc>>
  BY DEF Main, MainBucle, MainMira, MainTrata, MainMarca, MainSuelta, MainAborta,
         MainCerrojo, ListenerMuere
<1>2. CASE MainBucle \/ MainCerrojo \/ MainSuelta \/ ListenerMuere
  <2>1. \A t \in Sesiones : Fase(t)' = Fase(t)
    BY <1>1, <1>2 DEF Fase, MainBucle, MainCerrojo, MainSuelta, ListenerMuere, cola, bucle
  <2>2. UNCHANGED <<Fases, s_pide, s_resp, Mano, Vive>>
    BY <1>1, <1>2, <2>1 DEF Fases, Mano, Vive, MainBucle, MainCerrojo, MainSuelta,
                            ListenerMuere, bucle
  <2> QED
    BY <2>2 DEF Fases, Mano
<1>3. ASSUME NEW s \in Sesiones, MainMira(s) PROVE [P!Next]_(P!vars)
  <2>1. \A t \in Sesiones : Fase(t)' = Fase(t)
    BY <1>1, <1>3 DEF Fase, MainMira, cola
  <2>2. CASE objeto[s].estado = "PETICION"
    <3>1. s \in mensajes /\ SesionCoherente(s) /\ CerrojoCoherente
      BY <1>0, <1>3 DEF MainMira, MainCoherente, Iterando, Inv, Coherencia
    <3>2. Fase(s) = "pedida"
      BY <1>3, <2>2, <3>1 DEF SesionCoherente, CerrojoCoherente, EnCerrojo, Iterando,
                              MainMira, Fase
    <3>3. Mano = Ninguno /\ Mano' = s /\ Vive /\ Vive'
      BY <1>3, <2>2 DEF MainMira, Mano, Vive
    <3>4. P!Tomar(s)
      BY <1>1, <2>1, <3>2, <3>3 DEF P!Tomar, Mano
    <3> QED
      BY <3>4
  <2>3. CASE objeto[s].estado # "PETICION"
    <3>1. UNCHANGED <<Fases, s_pide, s_resp, Mano, Vive>>
      BY <1>1, <1>3, <2>1, <2>3 DEF Fases, Mano, Vive, MainMira
    <3> QED
      BY <3>1 DEF Fases, Mano
  <2> QED
    BY <2>2, <2>3
<1>4. CASE MainTrata
  <2>1. actual \in Sesiones /\ objeto[actual] \in Objetos
    BY <1>0, <1>4, TieneObjeto DEF MainTrata, MainCoherente, TypeOK
  <2>2. \A t \in Sesiones : t # actual => Fase(t)' = Fase(t)
    BY <1>0, <1>1, <1>4, <2>1 DEF MainTrata, Fase, TypeOK
  <2>3. Fase(actual) = "pedida" /\ Fase(actual)' = "atendida"
    BY <1>0, <1>1, <1>4, <2>1 DEF MainTrata, MainCoherente, Fase, TypeOK
  <2>4. Fases' = [Fases EXCEPT ![actual] = "atendida"] /\ Fases[actual] = "pedida"
    BY <1>4, <2>1, <2>2, <2>3 DEF Fases, MainTrata
  <2>5. Mano = actual /\ Mano' = Ninguno /\ Vive /\ Vive'
    BY <1>4 DEF MainTrata, Mano, Vive
  <2>6. P!Atender(actual)
    BY <1>1, <2>4, <2>5 DEF P!Atender, Fases, Mano
  <2> QED
    BY <2>1, <2>6
<1>5. CASE MainMarca
  <2>1. actual \in Sesiones /\ objeto[actual] \in Objetos /\ pc[actual] = "espera"
    BY <1>0, <1>5, TieneObjeto DEF MainMarca, MainCoherente, TypeOK
  <2>2. objeto'[actual].estado = "RESPUESTA"
    BY <1>0, <1>5, <2>1 DEF MainMarca, TypeOK, Objetos
  <2>3. \A t \in Sesiones : Fase(t)' = Fase(t)
    BY <1>0, <1>1, <1>5, <2>1, <2>2 DEF MainMarca, Fase, TypeOK
  <2>4. UNCHANGED <<Fases, s_pide, s_resp, Mano, Vive>>
    BY <1>1, <1>5, <2>3 DEF Fases, Mano, Vive, MainMarca
  <2> QED
    BY <2>4 DEF Fases, Mano
<1>6. CASE MainAborta
  <2>1. \A t \in Sesiones : Fase(t)' = Fase(t)
    BY <1>1, <1>6 DEF Fase, MainAborta, cola
  <2>2. Fases' = Fases /\ Vive /\ ~Vive' /\ Mano' = Ninguno
    BY <1>6, <2>1 DEF Fases, Vive, Mano, MainAborta
  <2>3. P!Morir
    BY <1>1, <2>2 DEF P!Morir, Fases, Mano
  <2> QED
    BY <2>3
<1> QED
  BY <1>2, <1>3, <1>4, <1>5, <1>6 DEF Main

(* The queue gives its clients what Peticiones promises: each request is   *)
(* carried out once, alone, and its answer goes to the client that made it.*)
THEOREM Implementa == Spec => P!Seguro
<1>1. Init => P!Init
  BY DEF Init, P!Init, Fase, Vive
<1>2. Inv /\ [Next]_vars => [P!Next]_(P!vars)
  <2> SUFFICES ASSUME Inv, [Next]_vars PROVE [P!Next]_(P!vars)
    OBVIOUS
  <2>1. CASE UNCHANGED vars
    <3>1. \A t \in Sesiones : Fase(t)' = Fase(t)
      BY <2>1 DEF vars, cola, bucle, Fase
    <3> QED
      BY <2>1, <3>1 DEF vars, cola, bucle, P!vars, Vive
  <2> QED
    BY <2>1, SesionRefina, MainRefina DEF Next, Listener
<1>3. Inv <=> TypeOK /\ Coherencia
  BY DEF Inv
<1> QED
  BY <1>1, <1>2, <1>3, Correcto, PTL DEF Spec, P!Seguro
=============================================================================
