# Verification of robocup-cxx

`robocup-cxx` drives the dome of an observatory. The *fixed part* turns the
dome with two motors, counts the pulses of an encoder and finds the home
position (DAH) with a switch; the *mobile part*, which rides on the dome and is
powered only at the DAH, moves the shutter and is reached over a Bluetooth
serial line. Clients send orders over websockets.

This directory holds TLA+ models of the program, the TLC configurations that
check them, and theorems about them that TLAPS proves. `PROJECT.json` lists the
components, the runs, the wrong variants of definitions that show that each
property can fail (its `mutants`), the lines of source each definition models,
the findings, the hazards and the theorems.

## 1. Inventory

| Part | State | Operations | Interacts with |
|---|---|---|---|
| `CCupulaFijo` (CCupulaFijo.cpp) | the statics `sentido`, `mapaPines`, the two counters and their targets; `pStop`, `pEncoder`, `pEncoderSimulator`; `estadoCalibrado` | `mover`, `setPosicion`, `setAngulo`, `setDAH`, `calibrate`, `finalizarThreads`; threads `runEncoder`, `runEncoderSimulator`, `runStop` | `CConfig::cupula_max_posiciones`; pigpio; no lock protects the statics |
| Sessions and queue (main.cpp) | map `mensajes`, spin lock `afMensajes`, `conexionVivo` | `do_conexion`, `do_session` (one thread per client), the loop of `main` | sessions put requests in the map, `main` carries them out holding the lock |
| Dispatcher (`tratamientoMensaje`) | none of its own | parse, check against the table, defaults, execute | calls `CCupulaFijo`, `CCupulaMovil`, `CConfig` |
| `CCupulaMovil` | the serial port, connected or not | connect, disconnect, one method per order, `calibrateSincrono` | the firmware of the mobile part, Bluetooth |
| `CConfig` | parameters and their XML tree; order table | `load`, `put_cupula_max_posiciones`, `put_ventana_calibrado`, `save`, `getComando` | the XML file |
| prueba.cpp, test_movil.cpp | none | driver programs | the two dome classes |

What is hard: four kinds of threads share the state of `CCupulaFijo` with no
lock; movements are ended by a thread that watches a counter another thread
writes; calls return when a movement *starts*; flags are set and not cleared;
`main` holds the lock of the queue for as long as a request takes; either dome
part can fail to answer. What makes each part correct:

* `CCupulaFijo`: the two motors are never commanded together; the relays agree
  with `sentido`; one stop thread at most; counters agree with the dome; a
  movement reaches its target in at most one turn and ends; a calibration ends
  and measures the dome; the mobile part has power only at the DAH (but for a
  relay that did not obey: section 5).
* Queue: mutual exclusion; the iterator of `main` stays valid; each request is
  carried out once and answered to its client; sessions leave nothing behind.
* Dispatcher: the dome parts get orders they can carry out; `parar` has stopped
  the dome when it is answered; `conectarMovil` ends and connects only with
  power; no request takes the program down (some do: section 5).
* `CCupulaMovil`: a call comes back; answers keep the order of their requests;
  what is taken for a measured time is one (with one exception: section 5).
  `CConfig`: a restart reads what the last calibration wrote.

## 2. Modules

| Module | Models | Composes |
|---|---|---|
| `Geometria` | the arithmetic of `CCupulaFijo` (positions, degrees, shortest way, counter step) | |
| `CupulaFija` | `CCupulaFijo`, its threads and the dome | extends `Geometria` |
| `Maniobras` | what movements promise (abstract) | implemented by `CupulaFija` |
| `Trayecto` | where the dome is and what is left of its movement: inductive invariants, and the short way | extends `CupulaFija` |
| `MCCupulaFija` | sets of orders for TLC | extends `Trayecto` |
| `CupulaFijaProofs` | theorems about relays and threads | extends `CupulaFija` |
| `EncoderProofs` | theorems about the counters, the power and the calibration | extends `CupulaFijaProofs`, `Trayecto` |
| `DestinoProofs` | theorems about where movements end | extends `EncoderProofs` |
| `Mensajes` | `do_conexion`, `do_session`, the loop of `main` | |
| `Peticiones` | what the queue promises its clients (abstract) | implemented by `Mensajes` |
| `MensajesProofs` | theorems | extends `Mensajes` |
| `Comandos` | the order table and the check of a request | |
| `Tratamiento` | `tratamientoMensaje`, with the fixed part behind it | extends `CupulaFija`, `Comandos` |
| `MCTratamiento` | the requests for TLC | extends `Tratamiento` |
| `TratamientoProofs` | theorems | extends `Tratamiento`, `EncoderProofs` |
| `Config` | the parameters the program writes, and their file | |
| `CupulaMovil` | `CCupulaMovil`, the serial line and the firmware | |
| `Ventana` | calls to the mobile part and the calibration they bring, kills and restarts | extends `CupulaMovil`, `Config` |
| `Dialogo` | what the serial line promises a caller (abstract) | implemented by `Ventana` |
| `VentanaProofs` | theorems | extends `Ventana` |

The three programs of actions, `Mensajes`, `Tratamiento` and `Ventana`, meet at
the call of `tratamientoMensaje`. `Mensajes` knows only that a treatment ends or
throws; `Tratamiento` says which end and which throw; a call of the mobile part
is, for `Tratamiento`, a step that answers OK or KO or kills the program, and
`Ventana` opens it.

### CupulaFija

`pc` and `marco` are where `main` is inside the calls of `CCupulaFijo` and the
locals it needs there; an order is an action `Orden...` that runs up to the
first wait or write to a relay, and the actions in `Sigue` carry it on. The
steps are as fine as the shared state requires: each write to a relay (`Pin1`,
`Pin2`, `Para1`, `Para2`), the write of `sentido` (`Fijar`, `Para3`), each
`join`, the creation of a stop thread and each wait of `calibrate` is a step.

`hilo[h]` is a stop thread. The value it waits for, and which way, is settled
when it starts (`Arranca`); after that its `pc` is the loop it is in. Each loop
of `runStop` ends when a flag is set or a counter passes a value, `SePasa`.
There are two slots: the second one is for the orphans that `setPosicion`
leaves behind when it overwrites `pStop`.

`enc` is the encoder thread. It reads the pin (`EncLee`), looks at the relays
(`EncMira`) and counts (`EncCuenta`); then it looks at the DAH (`EncDah`), and
switches the power of the mobile part (`EncCorriente`) if `mapaPines` does not
say already what it should. Each is a step of its own, since nothing keeps main
from writing the relays, or sentido, between two of them. The look is up to four
reads of two relays; they are one step, because the relays are never both
engaged nor exchanged by one write, so that what four reads make out is what one
look at both would have seen at some moment between the first and the last. The
update of the two counters is one step. An iteration without an edge goes from
"lee" straight to the DAH, and one that changes nothing is left out.

`corriente` is what `mapaPines` says of the power of the mobile part, `tension`
what its relay does. `setCorrienteCupulaMovil` writes the first, and then the
second with a `gpio_write` whose result it ignores, and does nothing while the
first is as it should be: a write that fails is never repeated.

A size of 0 (`maxPos`) is what a complete calibration stores when nobody counts.
`getAngulo` and `runStop` divide by the size, and with 0 that is undefined: the
program dies (`DivideEntreCero`, `Divide`, with `pc = "muerto"`), or, where the
processor does not trap it, goes on with a 0 (`DivC`). In the real branch the
models also start with a size of 0 in the file.

`giro` is the dome, in half pulses. In the simulated mode it moves only while
the simulator thread runs and according to `mapaPines`; in the real mode
according to `linea`, the relays themselves, which differ from `mapaPines`
after a failed `gpio_write`. The three relays share the bound on failures
(`MaxFallos`).

Left to the reader of the source: `getDAH` also writes the pin of the DAH in
`mapaPines`, which nobody reads; the simulator goes through ten samples per
pulse, here two half pulses; the states `EN_DAH_PLUS` and `EN_DAH` of
`estadoCalibrado`, overwritten in the next statements; errors of `gpio_read`; the
inertia of the dome; the final assignments of `calibrate`, after the dome has
stopped, are one step.

### Mensajes

`pc[s]` is where the session `s` is between its reads, `pcMain` where `main`
is in its loop. `objeto[s]` is the `stMensaje` of `s` and `mensajes` the keys
of the map: a new object exists before its key does. The lock is the flag
`afMensajes` and nothing else; who holds it is read off the program counters,
and that they exclude each other is a property. `estado` and `peticion`, and
`respuesta` and `estado`, are written in separate steps, in the order of the
source. An answer is identified by the request it answers. A client can break
its connection while the session is reading or writing; the session itself
cannot end while it waits for `main`.

The program ends by an abort: an exception of `tratamientoMensaje` (the
requests in `Fatales`) leaves `main`, or `main` deletes the `std::thread` of the
listener, which is joinable whether or not it still runs. The branch of `main`
for a failed `tratamientoMensaje` (main.cpp:130-138) is never taken, since the
function returns `EXIT_SUCCESS` on every path, and is not modelled.

### Comandos and Tratamiento

A request is an order and a sequence of words. `Revisa` is the check at the
head of `tratamientoMensaje`: unknown orders, too many parameters, values that
are not in the row of the table, defaults. The table is the one `loadComandos`
really builds: it gives every order one row of values and fills the others
beyond the end of the vector, so that for a second and a third parameter the
check reads memory that is not its own. There the outcome is a choice: the
request is refused, passes, passes with a parameter that nobody wrote
(`Hallado`), or the program dies.

`tr` is where the treatment is. `Toma` takes a request, checks it and carries
out its branch up to the first wait; an order to the fixed part is the action
`Orden...` of `CupulaFija` with the parameters the branch passes on, and `tr` is
"cf" until that module is at rest again. `conectarMovil` goes through `Mira` and
`Duerme` for each of its waits: a second is one turn of the loop, and the
condition after the loop looks at the counter alone. The type of position that
`setPosicion` leaves uninitialised is any of those that exist. `quieta` is a
history variable, for `ConectaEnDAH`: when `conectarMovil` was taken the dome was
not moving and no pulse was about to be counted. `Cabe`, of `CupulaFija`, keeps
the dome within its bounds; `parar` is never kept waiting for it. An order that
divides by a size of 0 may take the program down where it is carried out
(`VaA`, `Consulta`) or in its stop thread (`PasoDivide`). Once main has died the
threads are gone, and a real dome that was turning goes on: of that nothing is
said beyond its next half pulse.

### CupulaMovil, Config and Ventana

A method of `CCupulaMovil` is one message out (`Pide`), a wait, and one line in
(`Lee`) or a timeout (`Vence`); `pcm` is where it is, `llamada` which. Methods
differ in the message they write (`Mensaje`), in how many parameters of the
answer they read (`Usa`), and in what they do next, and are one action each for
the rest. `salida` and `entrada` are the two directions of the line. An answer
carries, for the properties only, the number `de` of its request: the program
does not see it and takes whatever comes first. With no port, or one that
failed to open, `Write` throws and the program ends. The firmware answers what
the class expects of it, measures, and forgets when the power goes. Its answer
to GET (`RespuestasGET`) is any of those that `calibrate` and test_movil.cpp tell
apart: not ended, ended in the state NINGUNO, which brings the times, and
ended in another state, which does not. `sinTiempos` remembers that a GET has
read one of the last kind, from which main stores the times of a struct that
nobody has filled (`Basura`).

`Config` holds the written parameters three times, in memory, in the XML tree
and in the file. `save` is two steps, since `write_xml` empties the file before
it writes it. The two builds differ in `MODO`. (The code compares it with a
literal by address, which the compiler merges.) `Ventana` puts the calls of main
and the `put_` functions together, with `Mata` at any point and `Arranca`, which
needs a file that can be read.

## 3. Runs

Each run lists its properties in `PROJECT.json`. All are exhaustive.

| Run | Shows | Bounds |
|---|---|---|
| `sim_interrupciones` | simulated dome, careless client: the relays are never commanded together, only one stop thread lives, relays and `sentido` agree, the encoder makes out of the relays what `sentido` says (`MiraSegunSentido`); `Coherencia` is the inductive invariant of the proofs | N = 2, two slots, manual, relative, absolute and DAH orders, short calibrations, `finalizarThreads`; symmetry in the slots |
| `sim_join` | no join of `main` waits for ever; the dome implements `Maniobras` with its fairness | N = 2, dome within one pulse, no symmetry |
| `sim_destino` | every movement of a patient client ends at its target in at most one turn, the counters agree with the dome, and a client that asks for the short way gets it (`CaminoCorto`); `Viaje` is the inductive invariant of the proofs | N = 4, 12 pulses of travel, orders given within 3 pulses of the origin |
| `sim_calibrado` | a complete calibration ends and measures the dome; `ConteoFiel` is the inductive invariant of the proofs | N = 4, 20 pulses of travel |
| `real_interrupciones` | real branch: the interlock of the motor relays as commanded, and the power of the mobile part only at the DAH, with a write that fails to any of the three relays, with no encoder thread at all, and with a size of 0 | N = 2, dome within one pulse, one failure, manual orders both ways, relative ones by an angle |
| `mensajes` | the queue: exclusion, valid iterator, right answers, no leak, `Peticiones` with its fairness | two sessions, three texts |
| `tratamiento` | main as client of the fixed part: the orders it gives are those the other runs check (`ImplementaCupula`), `parar` is answered when the dome is at rest, `conectarMovil` connects with power and gives up in time, each request is answered or has a reason to take the program down | twelve requests, N = 2, one stop thread, the two waits of 2 instead of 120 and 30 |
| `ventana` | answers keep their order and are at most as late as there were timeouts (`Dialogo`, with its fairness), the times that are stored or sent back were measured or come from the one answer that has none, reading an answer kills the program only when it is another's, `calibrateSincrono` ends, the file agrees with the program | six methods, four requests and seven with the polling, one calibration, one power cut, one restart |
| `v_...` | one property each, violated: section 5 | |

Why the bounds are enough. The conflicts over the relays are between `main`,
one movement and at most one leftover thread: two slots hold all the threads
the code can have alive under the orders of the passing runs (`UnSoloParador`
says that one is enough). With N = 2 the counter wraps after two pulses; N = 4
is the smallest dome with a short and a long way of different length, an
intermediate position on both, and a half-turn tie. `Recorrido` bounds how far
the dome travels from the origin of its counter and `Margen` how far from it an
order may be given; 12 and 20 are more than the turn that a movement and the
three turns that a calibration can take from there, so the dome is never held
by the bound before a movement ends. `Puntual` makes half a pulse last until
every thread has looked at it: the configuration reads the encoder every 50 ms
and the simulator takes 1 s per pulse, ten readings per half pulse. It is used
where the property is about counting, and not where it is about interleaving.
`Paciente` is the client of prueba.cpp:60-78, which waits for `sentido` to be
`PARADO` after each order.

Two sessions are enough to race with each other and with `main` for the lock,
and to have one entry of the map in hand while the other is added or removed.

In `tratamiento` the waits of 2 are the least that sleep, look again and end by
the counter; what depends on their length is `AtiendeSiempre`, which holds of any
length, and `TypeTratamiento`, which is proved for all. The requests have every
branch that acts on the fixed part except the complete calibration, which is
the subject of `sim_calibrado`, and a request that fails the check. A request
for setPosicion passes the check, is refused or kills the program, as the memory
beyond the table has it. Unknown orders, a parameter that is missing and made
up, a type of position that stays uninitialised, and a size of 0, are not in the
run; they are in the theorems. The death of a stop thread that divides by a size
of 0 (`Divide`) happens in `real_interrupciones`. There is one slot for stop threads: no
request of the run asks for a relative movement by the short way, the only one
that leaves an orphan, so the `UnSoloParador` theorem says one is enough. In
`ventana` `Giros`, `MaxMedidas` and `Pulsos` tell three values of each parameter
apart; four requests (`MaxPedidas`) are enough for one timeout, an answer that
is late, and a call that reads it, then a call that reads the next; `MaxLinea`
leaves `calibrateSincrono` room to poll; `MaxSondeos`, `MaxCortes` and
`MaxArranques` of one let each of these events happen once at every place. The
times are as many as measurements, which numbers them.

Deadlock is checked in `sim_destino`. Elsewhere the system may stop: after
`finalizarThreads(todos)` in `sim_interrupciones`, `sim_join` and
`real_interrupciones`, at the bound of the travel under a manual movement, in
`sim_calibrado` because a second complete calibration can wait for ever (the
stop flag is set by the first), in `mensajes` when the program has aborted, in
`tratamiento` when it has died, in `ventana` when it has died and the restarts
are used up or the file cannot be read.

Fairness. Each thread is scheduled (`WF` for each stop thread, the encoder, and
`main` while it is inside a call) and a powered motor turns the dome. Nobody has
to give an order. In `Mensajes` a thread that can go on does (`WF`), a client
need not send anything, and a thread that spins on `afMensajes` gets it if it is
free infinitely often (`SF`). An `atomic_flag` does not promise the last one; a
preemptive scheduler gives it with probability one, and without it a client
could wait for ever while others take turns. In `Tratamiento` main, the threads
and the dome go on (`WF`), and nobody has to send a request. In `Ventana` main
goes on with what it has begun, a wait included, which ends after a minute if
nothing else ends it; the firmware answers while it has power and the window
reaches its end. Nobody has to kill the program, start it, cut or restore the power.

## 4. Proofs

The six modules of proofs prove, for every value of the constants, all the
safety properties and action properties that the passing runs check, and the
safety part of the three refinements.

**Relays and threads** (`CupulaFijaProofs`)

* `TipoCorrecto`: type correctness of `CupulaFija`, with lemmas that the
  arithmetic of `Geometria` stays in the integers.
* `Interbloqueo`: the relays are never commanded together. Its invariant is
  that `main` has released the other relay whenever it is about to engage one
  (`pc = "pin2"`); stop threads only release.
* `Coherente`, `UnParador`, `Mando`: a live stop thread, `sentido` and the
  position of `main` inside `mover` constrain each other. None of the three
  properties is inductive alone: that the relays agree with `sentido` needs
  that nobody else is writing them, which needs that a live thread is the one
  `pStop` points to and that `mover` has joined it, which needs that no thread
  is created without a movement. `Coherencia` says all of it. It is false if a
  client asks for a relative movement by the short way (section 5), so these
  theorems assume `SinCortaRelativa`; `Interbloqueo` does not.
* `Implementa`: the safety part of `Maniobras` under the same assumption.
* `MiraCorrecto`: in the simulated branch the encoder decides to count the way
  `sentido` says at that moment, and decides nothing while `sentido` is `PARADO`
  but between the writes of `mover`. It says nothing of the count itself, which
  comes a step later (section 5). In the real branch it decides the other way.

**Counters, power and calibration** (`EncoderProofs`)

* `CorrienteSegura`: in the real branch the mobile part has power only within
  half a pulse of the zone of the DAH sensor, for any orders, a zone of any
  width, and writes that fail, with one exception: `mapaPines` says that there
  is no power, and a write has failed. A failed write of the motor relays, or
  one that should have given power, does no harm. What it needs is `Puntual`
  alone: that the dome does not begin another half pulse before the encoder
  thread has looked. The invariant `Corriente` says where the dome can be while
  the reading of the sensor and the switch of the power are two steps.
* `ConteoCoherente`, `PosicionCorrecta`: both counters agree with the dome,
  modulo a turn, whenever the thread has caught up. `PosicionFiel` is far from
  inductive: a pulse the dome has given and the thread has not counted
  (`Atrasado`) must be known and counted the right way, so the relays must not
  change meanwhile, so everybody else must be waiting (`Espectadores`), which is
  what a slow dome and a patient client give. And a calibration writes
  both counters with what it has measured, so the invariant follows it from one
  pass over the DAH to the next (`Medicion`). `ConteoFiel` says all of it.
* `CalibradoCorrecto`: a complete calibration measures the turn exactly. It
  rests on a count between `N` pulses and none that is a multiple of `N`, and on
  `Apagado`: one that begins after the simulator was told to end never finishes.

These three assume `Prudente`: a simulated dome of the size in the
configuration, `Puntual`, `Paciente`, no relative movement by the short way, no
`finalizarThreads` of the stop thread, and no origin set while the dome moves
(`calibrar=no:si`). Each of them is a way in which the code does lose the
position (section 5), or one of the modes of the program.

**Where movements end** (`DestinoProofs`)

* `ViajeCorrecto`: the target of a live stop thread is ahead of the dome, in the
  direction it turns and at most a turn away. For an absolute target this goes
  through the wrap of the counter: before it, the counter is on the wrong side
  of the target, and the thread is in the loop that waits for it to come round
  (`FaltaCW`, `FaltaCCW`). For the DAH it is said in pulses to the next multiple
  of `N`. `SePasa` ends the loop at the first step that reaches the target, so
  that the invariant becomes equality there and not beyond.
* `ComoMuchoUnaVuelta` and `SiempreLlega` follow from it: no movement takes the
  dome further than one turn from where it started (`Partida`, which for "dah"
  and "vuelta" is a turn back from the limit that the thread keeps), and one
  that is ended has ended where it was asked to.
  They assume `Alcanzable`: `Prudente`, no complete calibration (it leaves the
  stop flag set), and targets within a turn; relative targets beyond a turn and
  angles of 360 degrees are not kept by the code (section 5).
* `SiempreCorto`: whoever asks for the short way sends the dome less than half a
  turn and a degree. `sentidoMasCorto` compares two angles that
  have each been rounded down to degrees; the lemma `Atajo` bounds what the two
  roundings can do, on both sides of the wrap. It assumes that the dome has at
  most 360 pulses (`N <= 360`) and that a movement to the DAH is asked with
  position 0 (`DahEsCero`), as every caller does.

**The queue** (`MensajesProofs`)

* `TipoCorrecto`, `Correcto`: types and `Coherencia` of the queue. The types
  alone are not inductive: that a session finds an object, and `main` a request,
  depends on who has the lock.
* `ExclusionMutua`, `Iterador`, `Respuesta`, and `Implementa`: the safety part
  of `Peticiones`, one step of it for each step of the program that a client
  could notice.

**The whole program on the fixed part** (`TratamientoProofs`)

* `UsaLaCupula`: every step of the program is a step of `CupulaFija` or leaves
  its variables alone, for any table of requests, those with made-up parameters
  included. The case that carries it is `setPosicion`: the degrees that get past
  `GradosValidos` are in the range of orders that `CupulaFija` is given.
* `InterbloqueoPrograma` and `CorrientePrograma`: hence the relays are never
  commanded together, and the power stays at the DAH, by any sequence of
  requests (with the exception of `CorrienteSegura`).
* `UnParadorPrograma`, `MandoPrograma`, `ManiobrasPrograma`, `MiraPrograma`:
  the theorems that rest on `Coherencia`, for requests that satisfy
  `SinCortaPedida`: a request to `setPosicion` names the way, or "absluta". The
  theorems of `CupulaFijaProofs` do not give these, since the set of orders that
  `main` may give includes the relative ones by the short way; what excludes them
  is the check of the request, followed to the parameter that comes out of it
  (`SegundoParametro`).
* `ParaSiempre`: a `parar` that was answered OK has left the relays at rest, no
  stop thread and `sentido` in `PARADO`. The invariant is that from the moment
  `main` takes it (`Parando`) nothing else is carried out (`Ocupado`), so that
  no other call of `mover` can undo what this one does.
* `ConectaSegura`: a `conectarMovil` that finds the dome at rest opens the line
  with the dome at the DAH and the power on, although the two are looked at in
  different turns of two loops. Once seen at the DAH, the dome is at rest or the
  thread that watches it has to stop it before it moves again, which takes
  `Puntual`; in the simulation, where the DAH is known from the counters, no
  pulse may be on its way that would move them (`EnElDAH`), which is why
  `quieta` asks for it too: a dome that has just been stopped can have its last
  pulse counted after `conectarMovil` was taken. In the real branch
  it takes relays that obey (`MaxFallos = 0`): one that does not release
  leaves the dome turning.
* `TipoTratamiento`, `SoloConCausa`: the counter of the two waits stays within
  their length and restarts between them; an order dies only by a row the table
  has not, by the mobile part, or by a size of 0. The second needs that
  `tr = "cm"` only with an order for the mobile part in hand, and that whatever
  divides by a size of 0 leaves it 0 (`SinTamano`, `TrataLlama`).

**Mobile part and configuration** (`VentanaProofs`)

* `TipoCorrecto`: types of the line and of the configuration. The times that PUT
  sends come from a file, by way of a restart, so that the types alone are not
  inductive: `TiemposGuardados` says that a restart finds times, and not what
  `load` takes for an absent field.
* `FicheroDesarrollo`: in the development build a restart reads what the program
  works with. `FicheroAlDia` is not inductive: `AlDia` says that the tree
  gives the parameters at every moment, and that the file is the tree whenever
  `save` is not at work. For the production build it is false (section 5).
* `LineaImplementa`: the safety part of `Dialogo`. The invariant `Linea` says
  that what is in the buffer, followed by what is on its way to the firmware, is
  in the order of the requests, later than the last answer read and not later
  than the last request (`EnOrden`, `EnPlazo`), and that there is no more of it,
  nor is anything in it older, than the calls that have timed out and the call
  that waits allow (`Cola`).
  It needs that a program that starts finds the line empty, which `desconectar`
  does.
* `TiemposFieles`, `LeerNoMataNunca`: while no answer has been taken for another
  (`tarde`), the times that are kept and sent back were measured, or are those of
  an unfilled struct and a GET has read that the calibration had ended in a state
  with no times (`sinTiempos`); and reading an answer kills the program only if
  it is another's, `getStatus` excepted. The invariants are about the contents of
  the line and of every place that keeps times: what is in the line for the call
  that waits has the form its method reads (`Propias`), and the parameters, the
  tree, the file, the firmware, each PUT on its way and the answer to the call
  that waits hold such times (`ConMedida`), of which `TiemposMedidos` names only
  some; that the struct of a GET is still unfilled when its answer comes is part
  of it.

The assumptions are the hypotheses named above and the named `ASSUME`s of the
modules: ranges of the parameters, the shape of the orders, that the words that
are numbers are not those of the table, and that a null pointer is no object.
TLC has found each inductive invariant true of small instances, and the
hypotheses of each theorem are those of a run that reaches the states it speaks
of.

Only model-checked: liveness, that is, `JoinTermina`, `MovimientoTermina`,
`CalibraTermina`, `SinFugas`, `AtiendeSiempre`, `SincronoTermina`, and of
`ImplementaManiobras`, `ImplementaPeticiones` and `ImplementaDialogo` the
fairness of the abstract specification, since TLAPS does not handle `ENABLED`.

## 5. What the program does not keep

Each is a run `v_...` that checks one property and ends in a violation; the
quotations are in `PROJECT.json`, `findings`.

* `v_parada_pegajosa`: the stop flag is set to interrupt a movement and never
  cleared. After the first interruption no monitored movement gets anywhere.
* `v_sentido_real`: the real branch of `mover` engages the relay of the other
  direction.
* `v_calibrado_colgado`: on a dome never calibrated and off its DAH `calibrate`
  waits for ever for a movement that has already been stopped.
* `v_poduccion`: the production build stores the state of the window under a
  misspelt section. After a restart the window counts as not calibrated, with
  its two times in the file.

Met while modelling, with no run of their own:

* Fixed part. The encoder thread looks at the relays and counts later: a
  `mover(CW)` given in a manual movement CCW, which has no stop thread to join,
  can be complete between the two, and one pulse is counted down while `sentido`
  is CW (130-144). With no encoder thread (39) a complete calibration stores a
  size of 0, by which `getAngulo` (472) and `runStop` (331) then divide. A write
  to the relay of the mobile part that fails is never tried again (438-445): it
  can leave it with power away from the DAH. After the first calibration of a
  dome that started uncalibrated, absolute positions are not counted until a
  restart at the DAH (CCupulaFijo.cpp:113). The short calibration sets the origin
  while the dome is still on its way to it (833). A relative movement by the
  short way leaves a stop thread without a movement, and the next order a second
  one (772). An absolute angle of 360 degrees is position `max`, which the
  counter never takes. A relative angle is turned into an absolute position and
  then added to the relative one (690-701). On a dome of more than 360 pulses a
  target ahead of the dome in the degree it is in is sought counterclockwise, by
  almost a whole turn (672-678); robocupcxx.xml has 60 and 120. `setDAH(false)`
  gives a second order that is always refused when the dome is off the DAH (799).
  A relay that fails to release does not prevent the other from being engaged
  (519). `finalizarThreads(encoder)` joins a thread that looks at another flag
  (563).
* Dispatcher. `setPosicion` compares with "absluta" (main.cpp:478), and no number
  passes the check (377). "pararShutter" has no branch: it is spelt
  "paraShutter" (684). `setLog` offers words that `setLogging` does not know
  (598). `conectarMovil` does not notice a refused movement, and reports a
  timeout when what it waits for comes in the last second (532-549). An order to
  the mobile part before `conectarMovil` writes through a null pointer.
* Mobile part. `calibrarMovil=GET` looks at `finalizado` alone (main.cpp:637),
  and `calibrate` fills the times only in the state NINGUNO
  (CCupulaMovil.cpp:264), so that an answer that says that the calibration has
  ended in another state stores the times of an uninitialised struct. After one
  timeout each call may read the answer to an earlier one, until a restart. A
  port that failed to open is not null, so that `conectar` never tries again and
  the next order kills the program (CCupulaMovil.cpp:20). `getStatus` reads
  fifteen parameters of an answer with two (519). `calibrateSincrono` can poll
  for ever after a power cut (545).
* Configuration. A program killed in the middle of `save` leaves a file that the
  next start refuses (CConfig.cpp:226).

## 6. Not modelled, and what is left

* Undefined behaviour of `loadComandos` itself: it writes beyond the end of a
  vector at start-up, and the models begin after it has survived. The entry
  "no_existe" that `getComando` adds to the table when an order is not found is
  left out: that order is answered KO before and after.
* Parameters of a method of the mobile part beyond the calibration: the light,
  the levels of the log, the times of the shutter. Their refusals before anything
  is written change no state.
* Start-up of log4cxx and pigpio, the HTTP upgrade of websockets, the wording of
  messages. `prueba.cpp` and `test_movil.cpp` beyond the clients they are.
* The experiments of `pruebasc++`, which the program does not build, and the
  vendored headers of log4cxx and pigpio. These headers are nine tenths of the
  lines of the repository and hold no logic of this program.

Left: a composition of `Mensajes` with `Tratamiento`, for how long `parar` waits
behind other requests, which needs a model of time; the theorems about the
position for a client that is not patient, which would have to say how many
pulses each interrupted movement can lose; and the two counters written by
`calibrate` in the middle of an update of theirs (834), which the models take for
one step.
