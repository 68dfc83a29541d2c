------------------------------ MODULE Comandos ------------------------------
(***************************************************************************)
(* The table of orders that loadComandos builds, and the check of a        *)
(* request against it at the head of tratamientoMensaje.  A request is an  *)
(* order and the sequence of its parameters, all of them words.            *)
(*                                                                         *)
(* loadComandos gives c.parametros one row and writes to the second and    *)
(* the third one all the same, beyond the end of the vector.  What a       *)
(* request finds there is anything: such a request may be refused, may     *)
(* take the program down, or may pass with what it says, its missing       *)
(* parameters made up or not.                                              *)
(***************************************************************************)
EXTENDS Integers, Sequences

CONSTANT stoi        \* what the words that are numbers convert to

Marcas == {"_int_", "_long_", "_ulong_", "_uint_"}
Hallado == "hallado"          \* what is found beyond the table

ASSUME StoiAssumption ==
    /\ stoi \in [DOMAIN stoi -> Int]
    /\ DOMAIN stoi \cap (Marcas \cup {Hallado}) = {}

(* num_param, and the first row: the default of the first parameter and    *)
(* the values it can have.                                                 *)
comando(num, fila) == [num_param |-> num, fila |-> fila]
SinParametros == comando(0, <<>>)

comandos ==
    [salir |-> SinParametros,
     getFirmwareVersion |-> comando(1, <<"fija", "fija", "movil">>),
     getDomeAtHome |-> SinParametros, setDomeAtHome |-> SinParametros,
     getPosicion |-> SinParametros,
     setPosicion |-> comando(3, <<"CORTA", "CORTA", "CW", "CCW">>),
     calibrar |-> comando(2, <<"no", "no", "si">>),
     estadoCalibrado |-> SinParametros,
     mover |-> comando(1, <<"CW", "CW", "CCW">>),
     parar |-> SinParametros, conectarMovil |-> SinParametros,
     getLuz |-> SinParametros,
     setLuz |-> comando(1, <<"OFF", "ON", "OFF">>),
     setLog |-> comando(2, <<"fija", "fija", "movil">>),
     calibrarMovil |-> comando(1, <<"CALIBRATE", "CALIBRATE", "GET", "PUT">>),
     setEmergencyShutterTimeout |-> comando(1, <<"_uint_">>),
     moverShutter |-> comando(2, <<"CLOSE", "OPEN", "CLOSE">>),
     getEstadoMovimientoShutter |-> SinParametros,
     pararShutter |-> SinParametros,
     getRelays |-> SinParametros, getButtons |-> SinParametros,
     getInputs |-> SinParametros, getStatus |-> SinParametros]

getComando(orden) == orden \in DOMAIN comandos

(* A number is converted, and then compared with the mark all the same.    *)
Vale(p, fila) == \E j \in DOMAIN fila : fila[j] = p /\ p \notin Marcas

(* The parameters that were not given.  A mark has no value to give.       *)
Completos(c, ps) ==
    LET uno == IF ps = <<>> /\ c.num_param > 0 /\ c.fila[1] \notin Marcas
               THEN <<c.fila[1]>> ELSE ps
    IN  {uno} \cup {uno \o [i \in 1 .. n |-> Hallado] :
                       n \in 1 .. IF uno = <<>> THEN 0 ELSE c.num_param - Len(uno)}

OK(ps) == [res |-> "OK", ps |-> ps]
KO == [res |-> "KO", ps |-> <<>>]
Muere == [res |-> "muere", ps |-> <<>>]

Revisa_sinContar(orden, ps) ==
    IF ~getComando(orden) THEN {KO}
    ELSE LET c == comandos[orden]
         IN  IF Len(ps) >= 1 /\ ~Vale(ps[1], c.fila) THEN {KO}
             ELSE {OK(qs) : qs \in Completos(c, ps)}
                  \cup {x \in {Muere} : c.num_param > 1 \/ Len(ps) > 1}
                  \cup {x \in {KO} : Len(ps) > 1}

(* The outcomes of the check of a request.                                 *)
Revisa(orden, ps) ==
    IF ~getComando(orden) THEN {KO}
    ELSE LET c == comandos[orden]
         IN  IF \/ c.num_param < Len(ps)
                \/ Len(ps) >= 1 /\ ~Vale(ps[1], c.fila)
             THEN {KO}
             ELSE {OK(qs) : qs \in Completos(c, ps)}
                  \cup {x \in {Muere} : c.num_param > 1}
                  \cup {x \in {KO} : Len(ps) > 1}
=============================================================================
