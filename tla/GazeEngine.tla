----------------------------- MODULE GazeEngine -----------------------------
(***************************************************************************)
(* The engine that follows the eyes, as EyeGesturesGazeSource wraps it:    *)
(* loaded and started by the calibration page, calibrated, stopped to go   *)
(* on without the camera; and the mouse, which moves the gaze meanwhile.   *)
(***************************************************************************)
EXTENDS Naturals

CONSTANT MaxStarts \* the bound on the times the page asks for the engine
EngineAssumption == MaxStarts \in Nat

VARIABLES
    state,    \* the engine's state, as it is told
    load,     \* dependenciesLoad
    starting, \* the calls of activateEngine that wait for it
    instance, \* the library: not made yet, stopped, running
    flags,    \* alreadyCalibrated, firstFlag and what the library says now
    page,     \* the calibration page and its phase
    driver,   \* who moved the gaze last
    asked     \* how many times the engine was asked for

vars == <<state, load, starting, instance, flags, page, driver, asked>>

\* first is empty or has the first flag.  What the flag of a point means is not known: it starts as one or the other.
Fresh(start) == [already |-> FALSE, first |-> {}, start |-> start, now |-> start]
Begin ==
    /\ state = "idle" /\ load = "no" /\ starting = 0 /\ instance = "none"
    /\ page = "none" /\ driver = "nobody" /\ asked = 0
Init == Begin /\ \E b \in BOOLEAN : flags = Fresh(b)

\* phaseOf, and what a page on screen hears.
phaseOf(s) == IF s = "error" THEN "engine_error" ELSE IF s = "ready" THEN "ready" ELSE "engine_calibrating"
hears(s) ==
    IF page = "none" THEN page
    ELSE IF s = "ready" THEN "ready" ELSE IF s = "error" THEN "engine_error" ELSE page
notifyState(s) == state' = s /\ page' = hears(s)

loadDependencies == load' = IF load = "no" THEN "loading" ELSE load
activateEngine ==
    IF state \in {"calibrating", "ready"}
    THEN UNCHANGED <<state, load, starting, instance, flags>>
    ELSE /\ state' = "calibrating" /\ loadDependencies /\ starting' = starting + 1
         /\ UNCHANGED <<instance, flags>>
recalibrateMutant ==
    /\ state' = "calibrating" /\ instance' = "running"
    /\ flags' = [flags EXCEPT !.first = {}, !.now = flags.start]
    /\ UNCHANGED <<load, starting>>
recalibrate ==
    /\ state' = "calibrating" /\ instance' = "running"
    /\ flags' = [flags EXCEPT !.already = FALSE, !.first = {}, !.now = flags.start]
    /\ UNCHANGED <<load, starting>>
\* On its way to the profiles, or from "Ajustes" with the eyes ready: then
\* they are calibrated again.
CalibrationPage(fromSettings) ==
    /\ page = "none" /\ asked < MaxStarts
    /\ asked' = asked + 1
    /\ IF fromSettings /\ state = "ready"
       THEN recalibrate /\ page' = "engine_calibrating"
       ELSE activateEngine /\ page' = phaseOf(state)
    /\ UNCHANGED driver

\* The script may come without the class it should leave ("empty").
loadScript(outcome) ==
    /\ load = "loading"
    /\ load' = outcome
    /\ UNCHANGED <<state, starting, instance, flags, page, driver, asked>>
\* The library shows its instructions and starts to say where the eyes are.
startEngine ==
    /\ starting > 0 /\ load \in {"loaded", "empty"}
    /\ starting' = starting - 1
    /\ IF load = "loaded"
       THEN instance' = "running" /\ UNCHANGED <<state, page>>
       ELSE notifyState("error") /\ UNCHANGED instance
    /\ UNCHANGED <<load, flags, driver, asked>>
startFails ==
    /\ starting > 0 /\ load = "failed"
    /\ starting' = starting - 1 /\ notifyState("error")
    /\ UNCHANGED <<load, instance, flags, driver, asked>>

\* A point of the library: the calibration is over when its flag changes.
point ==
    /\ instance = "running"
    /\ LET first == IF flags.first = {} THEN {flags.now} ELSE flags.first
           done == flags.already \/ flags.now \notin first
       IN  /\ flags' = [flags EXCEPT !.first = first, !.already = done]
           /\ IF done /\ ~flags.already THEN notifyState("ready") ELSE UNCHANGED <<state, page>>
    /\ driver' = "eyes"
    /\ UNCHANGED <<load, starting, instance, asked>>
\* The kid looked at every circle, at their own pace.
libraryCalibrates ==
    /\ instance = "running" /\ flags.first # {} /\ flags.now = flags.start
    /\ flags' = [flags EXCEPT !.now = ~@]
    /\ UNCHANGED <<state, load, starting, instance, page, driver, asked>>
mouseMoves ==
    /\ state \notin {"ready", "calibrating"}
    /\ driver' = "mouse"
    /\ UNCHANGED <<state, load, starting, instance, flags, page, asked>>

\* 180 s without the engine.
engineWaitTimeout ==
    /\ page = "engine_calibrating"
    /\ page' = "engine_error"
    /\ UNCHANGED <<state, load, starting, instance, flags, driver, asked>>
stopEngine ==
    /\ instance' = IF instance = "none" THEN instance ELSE "stopped"
    /\ state' = "idle"
goOn ==
    /\ page # "none"
    /\ page' = "none"
    /\ IF page = "ready" THEN UNCHANGED <<state, instance>> ELSE stopEngine
    /\ UNCHANGED <<load, starting, flags, driver, asked>>
\* The browser's own back: nothing stops.
away ==
    /\ page # "none"
    /\ page' = "none"
    /\ UNCHANGED <<state, load, starting, instance, flags, driver, asked>>
\* "Intentar de nuevo" loads the whole app again.
reload ==
    /\ page = "engine_error"
    /\ state' = "idle" /\ load' = "no" /\ starting' = 0 /\ instance' = "none"
    /\ flags' = Fresh(flags.start) /\ page' = "none" /\ driver' = "nobody"
    /\ UNCHANGED asked

Next ==
    \/ \E fromSettings \in BOOLEAN : CalibrationPage(fromSettings)
    \/ \E outcome \in {"loaded", "empty", "failed"} : loadScript(outcome)
    \/ startEngine \/ startFails \/ point \/ libraryCalibrates \/ mouseMoves
    \/ engineWaitTimeout \/ goOn \/ away \/ reload

\* Nothing says that the library loads, finds a camera or goes on: no fairness.
Spec == Init /\ [][Next]_vars

-----------------------------------------------------------------------------
(* Properties.                                                             *)

(***************************************************************************)
(* No calibration is left that nobody could end, however the page, the     *)
(* loading script and the library cross: the library is only told to       *)
(* calibrate while its end is still to be noticed, with a start on its way *)
(* or running, and a page never stops eyes that are ready, since it knows  *)
(* of them (a stopped engine that was calibrated would never say so again).*)
(***************************************************************************)
CalibrationCanEnd ==
    /\ flags.already <=> state = "ready"
    /\ state = "calibrating" => starting > 0 \/ instance = "running"
    /\ page # "none" => (page = "ready" <=> state = "ready")

\* GazeSource.ts:101: the mouse moves the gaze only while the camera isn't ready
\* or calibrating, and the eyes only then. The code does not hold it: a library
\* that was asked to stop while it loads starts all the same.
OneSourceAtATime == [][driver' = "eyes" => state \in {"calibrating", "ready"}]_vars
=============================================================================
