--------------------------- MODULE MCTratamiento ---------------------------
(***************************************************************************)
(* The requests that the run of Tratamiento chooses from.                  *)
(***************************************************************************)
EXTENDS Tratamiento, TLC

P(nombre, parametros) == [orden |-> nombre, ps |-> parametros]

Conversiones == "180" :> 180 @@ "900" :> 900

PeticionesFija ==
    {P("mover", <<"CW">>), P("parar", <<>>), P("setDomeAtHome", <<>>),
     P("calibrar", <<"no", "no">>), P("calibrar", <<"no", "si">>),
     P("getFirmwareVersion", <<"fija">>),
     P("setPosicion", <<"CORTA", "absluta", "180">>),
     P("setPosicion", <<"CCW", "relativa", "900">>)}
PeticionesMovil ==
    {P("conectarMovil", <<>>), P("getFirmwareVersion", <<"movil">>),
     P("setEmergencyShutterTimeout", <<>>)}
PeticionesErroneas ==
    {P("mover", <<"CCW", "180">>)}
Peticiones == PeticionesFija \cup PeticionesMovil \cup PeticionesErroneas

SoloDAH == {<<"CORTA", "dah", 0>>}
Angulos == Sentidos \X tipoPosicion \X Grados
SiNo == BOOLEAN \X BOOLEAN
=============================================================================
