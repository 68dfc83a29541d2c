------------------------------ MODULE Mensajes ------------------------------
(***************************************************************************)
(* The queue of messages of main.cpp.  A listener thread accepts           *)
(* connections and starts a session thread for each; a session puts the    *)
(* request of its client in the map mensajes and waits, in a loop, until   *)
(* main has carried it out.  A spin lock, afMensajes, guards the map; main *)
(* holds it while it carries requests out.                                 *)
(*                                                                         *)
(* An answer is identified with the request it answers.  A thread id is    *)
(* reused when its session has ended.  main dies of an exception in a      *)
(* request, which nobody catches, or when it deletes the std::thread of    *)
(* the listener, which is still joinable: either takes every thread along. *)
(* tratamientoMensaje always returns EXIT_SUCCESS, so the branch of main   *)
(* for a failure is never taken and has no action here.                    *)
(*                                                                         *)
(* As in CupulaFija, a definition whose name says what it lacks is wrong   *)
(* on purpose.                                                             *)
(***************************************************************************)
EXTENDS FiniteSets

CONSTANTS Sesiones,   \* the threads there can be at once for do_session
          Textos,     \* the texts of the requests
          Salir,      \* the one that ends its session
          Fatales,    \* those whose treatment throws
          Principal,  \* the main thread
          Ninguno     \* no thread, no text, no object

ASSUME SesionesAssumption == Principal \notin Sesiones /\ Ninguno \notin Sesiones
ASSUME TextosAssumption ==
    Salir \in Textos /\ Fatales \subseteq Textos /\ Ninguno \notin Textos

(* stMensaje; the estado a new object has is overwritten at once.          *)
Objetos == [estado : {"PETICION", "RESPUESTA"},
            peticion : Textos \cup {Ninguno}, respuesta : Textos \cup {Ninguno}]

ASSUME ObjetosAssumption == Ninguno \notin Objetos

VARIABLES
    afMensajes,     \* the spin lock
    mensajes,       \* the keys of the map
    objeto,         \* the stMensaje of each session, or Ninguno
    conexionVivo,
    pcMain, porVer, actual,   \* main: the entries still to visit, the present one
    pc, s_pide, s_resp        \* do_session: its locals s and r

cola  == <<afMensajes, mensajes, objeto>>
bucle == <<pcMain, porVer, actual>>
vars  == <<cola, conexionVivo, bucle, pc, s_pide, s_resp>>

Vive == pcMain # "abortado"
Pone(s, a) == pc' = [pc EXCEPT ![s] = a]

(* while (afMensajes.test_and_set()) {}                                    *)
TestAndSet_sinMirar == afMensajes' = TRUE
TestAndSet == ~afMensajes /\ afMensajes' = TRUE
Clear == afMensajes' = FALSE

(***************************************************************************)
(* do_conexion.                                                            *)
(***************************************************************************)
Acepta(s) ==
    /\ Vive /\ conexionVivo
    /\ pc[s] = "nadie" /\ Pone(s, "lee")
    /\ UNCHANGED <<cola, conexionVivo, bucle, s_pide, s_resp>>

ListenerMuere ==
    /\ Vive /\ conexionVivo /\ conexionVivo' = FALSE
    /\ UNCHANGED <<cola, bucle, pc, s_pide, s_resp>>

(***************************************************************************)
(* do_session.                                                             *)
(***************************************************************************)
Lee(s, p) ==
    /\ Vive
    /\ pc[s] = "lee" /\ Pone(s, "pide")
    /\ s_pide' = [s_pide EXCEPT ![s] = p]
    /\ UNCHANGED <<cola, conexionVivo, bucle, s_resp>>

(* The handshake, a read or a write throws.                                *)
Corta(s) ==
    /\ Vive
    /\ pc[s] \in {"lee", "responde"} /\ Pone(s, "cierra")
    /\ s_pide' = [s_pide EXCEPT ![s] = Ninguno]
    /\ s_resp' = [s_resp EXCEPT ![s] = Ninguno]
    /\ UNCHANGED <<cola, conexionVivo, bucle>>

Cerrojo(s, de, a) ==
    /\ Vive
    /\ pc[s] = de /\ TestAndSet /\ Pone(s, a)
    /\ UNCHANGED <<mensajes, objeto, conexionVivo, bucle, s_pide, s_resp>>

Cerrojos(s) == \/ Cerrojo(s, "pide", "encola")
               \/ Cerrojo(s, "vuelve", "recoge")
               \/ Cerrojo(s, "cierra", "borra")

(* A session has an object from its first request to its end; its estado   *)
(* is set before its peticion.                                             *)
Encola_estadoViejo(s) ==
    /\ Vive
    /\ pc[s] = "encola" /\ Pone(s, "escribe")
    /\ objeto' = [objeto EXCEPT ![s] =
                    IF s \in mensajes THEN @
                    ELSE [estado |-> "PETICION", peticion |-> Ninguno,
                          respuesta |-> Ninguno]]
    /\ UNCHANGED <<afMensajes, mensajes, conexionVivo, bucle, s_pide, s_resp>>

Encola(s) ==
    /\ Vive
    /\ pc[s] = "encola" /\ Pone(s, "escribe")
    /\ objeto' = [objeto EXCEPT ![s] =
                    IF s \in mensajes
                    THEN [@ EXCEPT !.estado = "PETICION"]
                    ELSE [estado |-> "PETICION", peticion |-> Ninguno,
                          respuesta |-> Ninguno]]
    /\ UNCHANGED <<afMensajes, mensajes, conexionVivo, bucle, s_pide, s_resp>>

Escribe(s) ==
    /\ Vive
    /\ pc[s] = "escribe" /\ Pone(s, "publica")
    /\ objeto' = [objeto EXCEPT ![s].peticion = s_pide[s]]
    /\ mensajes' = mensajes \cup {s}
    /\ UNCHANGED <<afMensajes, conexionVivo, bucle, s_pide, s_resp>>

Publica(s) ==
    /\ Vive
    /\ pc[s] = "publica" /\ Clear /\ Pone(s, "espera")
    /\ UNCHANGED <<mensajes, objeto, conexionVivo, bucle, s_pide, s_resp>>

Espera(s) ==
    /\ Vive
    /\ pc[s] = "espera" /\ objeto[s].estado = "RESPUESTA" /\ Pone(s, "vuelve")
    /\ UNCHANGED <<cola, conexionVivo, bucle, s_pide, s_resp>>

Recoge_sinClear(s) ==
    /\ Vive
    /\ pc[s] = "recoge" /\ Pone(s, "responde")
    /\ s_resp' = [s_resp EXCEPT ![s] = objeto[s].respuesta]
    /\ UNCHANGED <<afMensajes, mensajes, objeto, conexionVivo, bucle, s_pide>>

(* estado == VACIO is an expression: estado stays at RESPUESTA.            *)
Recoge(s) ==
    /\ Vive
    /\ pc[s] = "recoge" /\ Clear /\ Pone(s, "responde")
    /\ s_resp' = [s_resp EXCEPT ![s] = objeto[s].respuesta]
    /\ UNCHANGED <<mensajes, objeto, conexionVivo, bucle, s_pide>>

Responde(s) ==
    /\ Vive
    /\ pc[s] = "responde" /\ Pone(s, IF s_pide[s] = Salir THEN "cierra" ELSE "lee")
    /\ s_pide' = [s_pide EXCEPT ![s] = Ninguno]
    /\ s_resp' = [s_resp EXCEPT ![s] = Ninguno]
    /\ UNCHANGED <<cola, conexionVivo, bucle>>

Borra_sinErase(s) ==
    /\ Vive
    /\ pc[s] = "borra" /\ Clear /\ Pone(s, "nadie")
    /\ objeto' = [objeto EXCEPT ![s] = Ninguno]
    /\ UNCHANGED <<mensajes, conexionVivo, bucle, s_pide, s_resp>>

Borra(s) ==
    /\ Vive
    /\ pc[s] = "borra" /\ Clear /\ Pone(s, "nadie")
    /\ objeto' = [objeto EXCEPT ![s] = Ninguno]
    /\ mensajes' = mensajes \ {s}
    /\ UNCHANGED <<conexionVivo, bucle, s_pide, s_resp>>

(***************************************************************************)
(* The loop of main.                                                       *)
(***************************************************************************)
MainBucle ==
    /\ pcMain = "bucle"
    /\ pcMain' = IF conexionVivo THEN "pide" ELSE "muere"
    /\ UNCHANGED <<cola, conexionVivo, porVer, actual, pc, s_pide, s_resp>>

MainCerrojo ==
    /\ pcMain = "pide" /\ TestAndSet /\ pcMain' = "itera"
    /\ porVer' = mensajes
    /\ UNCHANGED <<mensajes, objeto, conexionVivo, actual, pc, s_pide, s_resp>>

MainMira_sinMirarEstado(s) ==
    /\ pcMain = "itera" /\ s \in porVer
    /\ porVer' = porVer \ {s}
    /\ pcMain' = "trata" /\ actual' = s
    /\ UNCHANGED <<cola, conexionVivo, pc, s_pide, s_resp>>

MainMira_abreCerrojo(s) ==
    /\ pcMain = "itera" /\ s \in porVer
    /\ porVer' = porVer \ {s}
    /\ IF objeto[s].estado = "PETICION"
       THEN pcMain' = "trata" /\ actual' = s /\ Clear
       ELSE UNCHANGED <<pcMain, actual, afMensajes>>
    /\ UNCHANGED <<mensajes, objeto, conexionVivo, pc, s_pide, s_resp>>

(* The map is not ordered: any entry can be the next one.                  *)
MainMira(s) ==
    /\ pcMain = "itera" /\ s \in porVer
    /\ porVer' = porVer \ {s}
    /\ IF objeto[s].estado = "PETICION"
       THEN pcMain' = "trata" /\ actual' = s
       ELSE UNCHANGED <<pcMain, actual>>
    /\ UNCHANGED <<cola, conexionVivo, pc, s_pide, s_resp>>

MainTrata ==
    /\ pcMain = "trata"
    /\ objeto[actual].peticion \notin Fatales
    /\ pcMain' = "marca"
    /\ objeto' = [objeto EXCEPT ![actual].respuesta = objeto[actual].peticion]
    /\ UNCHANGED <<afMensajes, mensajes, conexionVivo, porVer, actual,
                   pc, s_pide, s_resp>>

MainMarca ==
    /\ pcMain = "marca" /\ pcMain' = "itera" /\ actual' = Ninguno
    /\ objeto' = [objeto EXCEPT ![actual].estado = "RESPUESTA"]
    /\ UNCHANGED <<afMensajes, mensajes, conexionVivo, porVer, pc, s_pide, s_resp>>

MainSuelta ==
    /\ pcMain = "itera" /\ porVer = {} /\ Clear /\ pcMain' = "bucle"
    /\ UNCHANGED <<mensajes, objeto, conexionVivo, porVer, actual,
                   pc, s_pide, s_resp>>

(* An uncaught exception, or the destructor of a joinable thread.          *)
MainAborta ==
    /\ \/ pcMain = "trata" /\ objeto[actual].peticion \in Fatales
       \/ pcMain = "muere"
    /\ pcMain' = "abortado"
    /\ UNCHANGED <<cola, conexionVivo, porVer, actual, pc, s_pide, s_resp>>

Init ==
    /\ afMensajes = FALSE /\ mensajes = {}
    /\ objeto = [s \in Sesiones |-> Ninguno]
    /\ conexionVivo = TRUE
    /\ pcMain = "bucle" /\ porVer = {} /\ actual = Ninguno
    /\ pc = [s \in Sesiones |-> "nadie"]
    /\ s_pide = [s \in Sesiones |-> Ninguno]
    /\ s_resp = [s \in Sesiones |-> Ninguno]

Listener == ListenerMuere \/ \E s \in Sesiones : Acepta(s)

Sesion(s) == Encola(s) \/ Escribe(s) \/ Publica(s) \/ Espera(s) \/ Recoge(s)
             \/ Responde(s) \/ Borra(s) \/ Corta(s)

Main == MainBucle \/ (\E s \in Sesiones : MainMira(s)) \/ MainTrata
        \/ MainMarca \/ MainSuelta \/ MainAborta

Next ==
    \/ Listener
    \/ \E s \in Sesiones : Sesion(s) \/ Cerrojos(s) \/ \E p \in Textos : Lee(s, p)
    \/ Main \/ MainCerrojo

(* Every thread that can go on does; a thread that spins on the lock does  *)
(* not lose the race for it for ever.  Nobody has to send a request.       *)
Fairness ==
    /\ WF_vars(Main) /\ SF_vars(MainCerrojo)
    /\ \A s \in Sesiones : WF_vars(Sesion(s) /\ pc[s] # "lee") /\ SF_vars(Cerrojos(s))

Spec == Init /\ [][Next]_vars /\ Fairness

(***************************************************************************)
(* Properties.                                                             *)
(***************************************************************************)
EnCerrojo == {"encola", "escribe", "publica", "recoge", "borra"}
Iterando == {"itera", "trata", "marca"}
EstadosSesion == EnCerrojo \cup {"nadie", "lee", "pide", "espera", "vuelve",
                                 "responde", "cierra"}

(* The values of the variables; a key of the map has an object.            *)
TypeOK ==
    /\ {afMensajes, conexionVivo} \subseteq BOOLEAN
    /\ objeto \in [Sesiones -> Objetos \cup {Ninguno}]
    /\ mensajes \subseteq {s \in Sesiones : objeto[s] # Ninguno}
    /\ pcMain \in Iterando \cup {"bucle", "pide", "muere", "abortado"}
    /\ porVer \subseteq Sesiones
    /\ actual \in Sesiones \cup {Ninguno}
    /\ pc \in [Sesiones -> EstadosSesion]
    /\ s_pide \in [Sesiones -> Textos \cup {Ninguno}]
    /\ s_resp \in [Sesiones -> Textos \cup {Ninguno}]

(* The threads between a test_and_set and its clear.                       *)
EnSeccion == {s \in Sesiones : pc[s] \in EnCerrojo}
             \cup {x \in {Principal} : pcMain \in Iterando}

(* The lock works: nobody touches the map while another thread does.       *)
Exclusion == \A a, b \in EnSeccion : a = b

(* Why it does: the owner of the lock has it, and while a request is in    *)
(* hand, from PETICION to RESPUESTA, its session waits without the lock    *)
(* for the very object main is writing.                                    *)
CerrojoCoherente ==
    /\ pcMain \in Iterando => afMensajes
    /\ \A s \in Sesiones : pc[s] \in EnCerrojo =>
          /\ afMensajes /\ pcMain \notin Iterando
          /\ \A t \in Sesiones : pc[t] \in EnCerrojo => t = s

SesionCoherente(s) ==
    /\ pc[s] = "nadie" => s \notin mensajes
    /\ pc[s] \in {"nadie", "lee", "cierra", "borra"} => s_pide[s] = Ninguno
    /\ pc[s] # "responde" => s_resp[s] = Ninguno
    /\ pc[s] = "responde" => s_resp[s] = s_pide[s]
    /\ pc[s] = "escribe" => objeto[s] # Ninguno /\ objeto[s].estado = "PETICION"
    /\ pc[s] \in {"publica", "espera", "vuelve", "recoge"} =>
          s \in mensajes /\ objeto[s].peticion = s_pide[s]
    /\ pc[s] = "publica" => objeto[s].estado = "PETICION"
    /\ pc[s] \in {"vuelve", "recoge"} => objeto[s].estado = "RESPUESTA"
    /\ pc[s] \in {"espera", "vuelve", "recoge"} /\ objeto[s].estado = "RESPUESTA"
          => objeto[s].respuesta = s_pide[s]
    /\ s \in mensajes /\ objeto[s].estado = "PETICION"
          => pc[s] \in {"escribe", "publica", "espera"}

MainCoherente ==
    /\ pcMain \in Iterando => porVer \subseteq mensajes
    /\ pcMain \in {"trata", "marca"} =>
          /\ actual \in mensajes /\ pc[actual] = "espera"
          /\ objeto[actual].estado = "PETICION"
    /\ pcMain = "marca" => objeto[actual].respuesta = objeto[actual].peticion

Coherencia == /\ CerrojoCoherente /\ MainCoherente
              /\ \A s \in Sesiones : SesionCoherente(s)

(* While main goes round the map no session adds a key to it or takes one  *)
(* away, which would invalidate the iterator, nor frees the object in hand.*)
MapaQuieto == [][(pcMain \in Iterando) => mensajes' = mensajes]_vars

(* The client gets the answer to its last request, although estado never   *)
(* goes back to VACIO and the object is used again for every request.      *)
RespuestaPropia == \A s \in Sesiones : pc[s] = "responde" => s_resp[s] = s_pide[s]

(* A session that has ended leaves the map, however long main keeps the    *)
(* lock, unless the program dies.                                          *)
SinFugas == \A s \in Sesiones :
                pc[s] = "cierra" ~> (s \notin mensajes \/ ~Vive)

(* Sessions and main implement Peticiones.                                 *)
Fase(s) ==
    CASE pc[s] \in {"nadie", "cierra", "borra"}               -> "fuera"
      [] pc[s] = "lee"                                        -> "libre"
      [] pc[s] \in {"pide", "encola", "escribe", "publica"}   -> "pedida"
      [] pc[s] = "espera" ->
            IF objeto[s].estado = "RESPUESTA" \/ (pcMain = "marca" /\ actual = s)
            THEN "atendida" ELSE "pedida"
      [] pc[s] \in {"vuelve", "recoge"}                       -> "atendida"
      [] pc[s] = "responde"                                   -> "contestada"

P == INSTANCE Peticiones WITH fase <- [s \in Sesiones |-> Fase(s)],
        peticion <- s_pide, respuesta <- s_resp, vivo <- Vive,
        mano <- IF pcMain = "trata" THEN actual ELSE Ninguno
ImplementaPeticiones == P!Spec
=============================================================================
