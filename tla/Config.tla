------------------------------- MODULE Config -------------------------------
(***************************************************************************)
(* The parameters that the program itself writes, class CConfig: the size  *)
(* of the dome and the calibration of the window.  They live three times:  *)
(* in the members of the object, in its XML tree and in the file, which    *)
(* load reads once and save rewrites in place.                             *)
(*                                                                         *)
(* A section of the file has a field for each parameter.  tiempo_abrir and *)
(* tiempo_cerrar are written and read together and are one value here: the *)
(* number of the measurement they come from, 0 for those of the file as    *)
(* delivered.  An absent field is what tree.get is told to return for it.  *)
(***************************************************************************)
EXTENDS Integers

CONSTANTS MODO,       \* the section of this build: "desarrollo" or "produccion"
          Pulsos      \* max_posiciones of the section desarrollo as delivered

ASSUME ModoBuild == MODO \in {"desarrollo", "produccion"}
ASSUME PulsosAssumption == Pulsos \in Nat

VARIABLES
    parametros,   \* the members cupula_max_posiciones and ventana_...
    tree,         \* the XML tree
    fichero,      \* what is on the disk
    guardando     \* where save is

config == <<parametros, tree, fichero, guardando>>

Ausente == [max |-> -2, estado |-> -1, tiempos |-> -1]
Secciones == {"comun", "desarrollo", "produccion", "poduccion"}

Entregado ==
    [comun      |-> [max |-> -1, estado |-> 0, tiempos |-> 0],
     desarrollo |-> [max |-> Pulsos, estado |-> 0, tiempos |-> 0],
     produccion |-> [max |-> -1, estado |-> 0, tiempos |-> 0],
     poduccion  |-> Ausente]

Ilegible == [s \in Secciones |-> Ausente]

(* A field of the section of this build hides that of the section comun.   *)
Vale(arbol) == [campo \in DOMAIN Ausente |->
                   IF arbol[MODO][campo] # Ausente[campo]
                   THEN arbol[MODO][campo] ELSE arbol["comun"][campo]]

InitConfig ==
    /\ tree = Entregado /\ fichero = Entregado
    /\ parametros = Vale(Entregado)
    /\ guardando = "no"

(* Without a file that read_xml understands the program does not start.    *)
load ==
    /\ fichero # Ilegible
    /\ tree' = fichero
    /\ parametros' = Vale(fichero)
    /\ guardando' = "no"
    /\ UNCHANGED fichero

put_cupula_max_posiciones(valor) ==
    /\ guardando = "no" /\ guardando' = "abre"
    /\ tree' = [tree EXCEPT ![MODO].max = valor]
    /\ parametros' = [parametros EXCEPT !.max = valor]
    /\ UNCHANGED fichero

(* The estado of the section produccion is put under another name.         *)
SeccionEstado == IF MODO = "desarrollo" THEN "desarrollo" ELSE "poduccion"

put_ventana_calibrado_sinArbol(tiempos) ==
    /\ guardando = "no" /\ guardando' = "abre"
    /\ tree' = [tree EXCEPT ![SeccionEstado].estado = 1]
    /\ parametros' = [parametros EXCEPT !.estado = 1, !.tiempos = tiempos]
    /\ UNCHANGED fichero

put_ventana_calibrado(tiempos) ==
    /\ guardando = "no" /\ guardando' = "abre"
    /\ tree' = [tree EXCEPT ![SeccionEstado].estado = 1, ![MODO].tiempos = tiempos]
    /\ parametros' = [parametros EXCEPT !.estado = 1, !.tiempos = tiempos]
    /\ UNCHANGED fichero

(* save: write_xml opens the file, which empties it, and then writes it.   *)
AbreFichero ==
    /\ guardando = "abre" /\ guardando' = "escribe"
    /\ fichero' = Ilegible
    /\ UNCHANGED <<parametros, tree>>

EscribeFichero ==
    /\ guardando = "escribe" /\ guardando' = "no"
    /\ fichero' = tree
    /\ UNCHANGED <<parametros, tree>>

Campos == [max : Int, estado : {-1, 0, 1}, tiempos : Int]
Arboles == [Secciones -> Campos]
TypeConfig ==
    /\ parametros \in Campos
    /\ tree \in Arboles /\ fichero \in Arboles
    /\ guardando \in {"no", "abre", "escribe"}
=============================================================================
