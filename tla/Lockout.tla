------------------------------- MODULE Lockout -------------------------------
(***************************************************************************)
(* The locks of identity-service: too many wrong passwords, PINs or codes  *)
(* lock a key for a while, and longer each time.  A key of this module is  *)
(* what RedisAttemptLockout keeps under one attempt key: a counter of      *)
(* failures, a level and the lock itself, three Redis keys that expire.    *)
(*                                                                         *)
(* A form (login, PIN of a kid, change of password or of PIN, code of the  *)
(* portal) asks one or two locks before it verifies what was typed, counts *)
(* a failure on the same ones, and forgets the first after a success.      *)
(* Every Redis command is a step: other handlers, time, and the death of   *)
(* the handler may come between any two.  Redis keys hold the time they    *)
(* have left, which Tick counts down.  A name ending in Mutant is a broken *)
(* variant of the definition after it, which the properties must notice.   *)
(***************************************************************************)
EXTENDS Integers, Sequences

CONSTANTS
    Key,         \* the attempt keys
    Form,        \* the forms, each with the person who uses it
    Request,     \* the handlers that may run at once
    Locks,       \* the attempt keys a form uses: its own, and perhaps a shared one
    Clears,      \* a key a form clears when its change is done, or None
    Closing,     \* the forms of the portal: their second lock closes the session
    MaxFailures, \* how many failures lock a key
    Window,      \* how long its failures are remembered
    Wait,        \* how long a key is locked at each level
    ResetAfter,  \* how long a level is remembered
    Never,       \* the time left of a Redis key without expiry
    None         \* no value

\* The second lock closes the session (CLOSE_SESSION_AT_LOCK_LEVEL).
CloseLevel == 2

ASSUME LockoutAssumption ==
    /\ Locks \in [Form -> Seq(Key)]
    /\ \A f \in Form : Len(Locks[f]) \in 1 .. 2
    /\ Clears \in [Form -> Key \cup {None}]
    /\ Closing \subseteq Form
    /\ \A f \in Closing, g \in Form : \A i \in 1 .. Len(Locks[g]) :
          Locks[g][i] = Locks[f][1] => g = f /\ i = 1
    /\ MaxFailures \in [Key -> Nat \ {0}]
    /\ Window \in [Key -> Nat \ {0}]
    /\ Wait \in [Key -> Seq(Nat \ {0})]
    /\ \A k \in Key : Len(Wait[k]) > 0
    /\ ResetAfter \in Nat \ {0}
    /\ Never \notin Nat
    /\ None \notin Key \cup Form

VARIABLES
    fails,      \* the failures of the current round, 0 when there is no key
    failsLeft,  \* the time they have left
    level,      \* how many times the key was locked lately
    levelLeft,  \* the time the level has left
    until,      \* the time the lock has left, 0 when there is none
    closed,     \* the sessions closed for security
    req         \* the handlers

vars == <<fails, failsLeft, level, levelLeft, until, closed, req>>

\* A handler: its form, which of its locks it is at, what INCR answered, and
\* whether its first lock answered with a wait.
Handler(at, form, i, n, shut) == [at |-> at, form |-> form, i |-> i, n |-> n, shut |-> shut]
Idle == Handler("idle", None, 1, 0, FALSE)

Init ==
    /\ fails = [k \in Key |-> 0] /\ failsLeft = [k \in Key |-> 0]
    /\ level = [k \in Key |-> 0] /\ levelLeft = [k \in Key |-> 0]
    /\ until = [k \in Key |-> 0]
    /\ closed = {}
    /\ req = [r \in Request |-> Idle]

-----------------------------------------------------------------------------
(* Two counters are cut where nothing tells larger values apart: failures  *)
(* after the maximum, and levels that have the last wait and close.         *)

Lower(a, b) == IF a < b THEN a ELSE b

FailsTop(k) == MaxFailures[k] + 1
LevelTop(k) == IF Len(Wait[k]) < CloseLevel THEN CloseLevel ELSE Len(Wait[k])

At(r, phase) == req[r].at = phase
Own(r) == Locks[req[r].form][1]
Here(r) == Locks[req[r].form][req[r].i]
Last(r) == req[r].i = Len(Locks[req[r].form])

\* The wait of a level: the last one repeats.
WaitOf(k, l) == Wait[k][Lower(l, Len(Wait[k]))]

GoTo(r, phase) == req' = [req EXCEPT ![r].at = phase]

\* registrar_fallo answered with a wait, or with 0.  The failure is counted on
\* the next lock, and a portal form that was locked asks for the level.
Counted(r, locked) ==
    LET shut == IF req[r].i = 1 THEN locked ELSE req[r].shut
    IN  req' = [req EXCEPT ![r] =
            IF ~Last(r) THEN Handler("incr", @.form, 2, 0, shut)
            ELSE IF shut /\ @.form \in Closing THEN Handler("nivel", @.form, 1, 0, TRUE)
            ELSE Idle]

\* What registrar_fallo does with the number INCR gave it.
Decide(r, n) ==
    IF n < MaxFailures[Here(r)] THEN Counted(r, FALSE)
    ELSE req' = [req EXCEPT ![r].at = IF n = MaxFailures[Here(r)] THEN "level" ELSE "left",
                            ![r].n = n]

-----------------------------------------------------------------------------
(* A form.                                                                 *)

Start(r, f) ==
    /\ At(r, "idle")
    /\ f \notin closed
    /\ req' = [req EXCEPT ![r] = Handler("ask", f, 1, 0, FALSE)]
    /\ UNCHANGED <<fails, failsLeft, level, levelLeft, until, closed>>

AskLockMutant(r) ==
    /\ At(r, "ask")
    /\ req' = [req EXCEPT ![r] =
            IF Last(r) THEN Handler("verify", @.form, 1, 0, FALSE)
            ELSE Handler("ask", @.form, 2, 0, FALSE)]
    /\ UNCHANGED <<fails, failsLeft, level, levelLeft, until, closed>>

\* segundos_bloqueado of each lock in turn; the first wait refuses the attempt.
AskLock(r) ==
    /\ At(r, "ask")
    /\ req' = [req EXCEPT ![r] =
            IF until[Here(r)] > 0 THEN Idle
            ELSE IF Last(r) THEN Handler("verify", @.form, 1, 0, FALSE)
            ELSE Handler("ask", @.form, 2, 0, FALSE)]
    /\ UNCHANGED <<fails, failsLeft, level, levelLeft, until, closed>>

\* What was typed is right, or wrong.
Verify(r) ==
    /\ At(r, "verify")
    /\ GoTo(r, "forget") \/ GoTo(r, "incr")
    /\ UNCHANGED <<fails, failsLeft, level, levelLeft, until, closed>>

\* Nothing to verify or nothing to change: no such person or kid, no codes set
\* up, or a new PIN that is the old one.
Refuse(r) ==
    /\ At(r, "verify") \/ At(r, "clear")
    /\ req' = [req EXCEPT ![r] = Idle]
    /\ UNCHANGED <<fails, failsLeft, level, levelLeft, until, closed>>

\* registrar_exito: one DEL of the three keys.
DeleteAll(k) ==
    /\ fails' = [fails EXCEPT ![k] = 0] /\ failsLeft' = [failsLeft EXCEPT ![k] = 0]
    /\ level' = [level EXCEPT ![k] = 0] /\ levelLeft' = [levelLeft EXCEPT ![k] = 0]
    /\ until' = [until EXCEPT ![k] = 0]

ForgetMutant(r) ==
    LET k == Locks[req[r].form][Len(Locks[req[r].form])]
    IN  /\ At(r, "forget")
        /\ DeleteAll(k)
        /\ req' = [req EXCEPT ![r] =
                IF Clears[req[r].form] = None THEN Idle ELSE [@ EXCEPT !.at = "clear"]]
        /\ UNCHANGED closed

Forget(r) ==
    /\ At(r, "forget")
    /\ DeleteAll(Own(r))
    /\ req' = [req EXCEPT ![r] =
            IF Clears[req[r].form] = None THEN Idle ELSE [@ EXCEPT !.at = "clear"]]
    /\ UNCHANGED closed

\* change_student_pin: the kid can get in with the new PIN at once.
Clear(r) ==
    /\ At(r, "clear")
    /\ DeleteAll(Clears[req[r].form])
    /\ req' = [req EXCEPT ![r] = Idle]
    /\ UNCHANGED closed

-----------------------------------------------------------------------------
(* registrar_fallo.                                                        *)

CountMutant(r) ==
    LET k == Here(r)
        n == Lower(fails[k] + 1, FailsTop(k))
    IN  /\ At(r, "incr")
        /\ fails' = [fails EXCEPT ![k] = n]
        /\ failsLeft' = IF fails[k] = 0 THEN [failsLeft EXCEPT ![k] = Never] ELSE failsLeft
        /\ Decide(r, n)
        /\ UNCHANGED <<level, levelLeft, until, closed>>

\* INCR: a key it makes has no expiry yet.
Count(r) ==
    LET k == Here(r)
        n == Lower(fails[k] + 1, FailsTop(k))
    IN  /\ At(r, "incr")
        /\ fails' = [fails EXCEPT ![k] = n]
        /\ failsLeft' = IF fails[k] = 0 THEN [failsLeft EXCEPT ![k] = Never] ELSE failsLeft
        /\ IF n = 1 THEN req' = [req EXCEPT ![r].at = "expire", ![r].n = n]
                    ELSE Decide(r, n)
        /\ UNCHANGED <<level, levelLeft, until, closed>>

\* EXPIRE does nothing to a key that is gone.
ExpireFails(r) ==
    LET k == Here(r)
    IN  /\ At(r, "expire")
        /\ failsLeft' = IF fails[k] = 0 THEN failsLeft ELSE [failsLeft EXCEPT ![k] = Window[k]]
        /\ Decide(r, req[r].n)
        /\ UNCHANGED <<fails, level, levelLeft, until, closed>>

\* One failure too many: what is left of the lock somebody else set.
AskLeft(r) ==
    /\ At(r, "left")
    /\ Counted(r, until[Here(r)] > 0)
    /\ UNCHANGED <<fails, failsLeft, level, levelLeft, until, closed>>

RaiseLevel(r) ==
    LET k == Here(r)
        l == Lower(level[k] + 1, LevelTop(k))
    IN  /\ At(r, "level")
        /\ level' = [level EXCEPT ![k] = l]
        /\ levelLeft' = IF level[k] = 0 THEN [levelLeft EXCEPT ![k] = Never] ELSE levelLeft
        /\ req' = [req EXCEPT ![r].at = "expire_level", ![r].n = l]
        /\ UNCHANGED <<fails, failsLeft, until, closed>>

ExpireLevel(r) ==
    LET k == Here(r)
    IN  /\ At(r, "expire_level")
        /\ levelLeft' = IF level[k] = 0 THEN levelLeft ELSE [levelLeft EXCEPT ![k] = ResetAfter]
        /\ GoTo(r, "set")
        /\ UNCHANGED <<fails, failsLeft, level, until, closed>>

SetLock(r) ==
    /\ At(r, "set")
    /\ until' = [until EXCEPT ![Here(r)] = WaitOf(Here(r), req[r].n)]
    /\ GoTo(r, "delete")
    /\ UNCHANGED <<fails, failsLeft, level, levelLeft, closed>>

DeleteFailsMutant(r) ==
    /\ At(r, "delete")
    /\ Counted(r, TRUE)
    /\ UNCHANGED <<fails, failsLeft, level, levelLeft, until, closed>>

DeleteFails(r) ==
    LET k == Here(r)
    IN  /\ At(r, "delete")
        /\ fails' = [fails EXCEPT ![k] = 0]
        /\ failsLeft' = [failsLeft EXCEPT ![k] = 0]
        /\ Counted(r, TRUE)
        /\ UNCHANGED <<level, levelLeft, until, closed>>

-----------------------------------------------------------------------------
(* The portal closes a session that was locked twice.                      *)

AskLevelMutant(r) ==
    /\ At(r, "nivel")
    /\ req' = [req EXCEPT ![r] = IF level[Own(r)] > CloseLevel THEN [@ EXCEPT !.at = "revoke"]
                                 ELSE Idle]
    /\ UNCHANGED <<fails, failsLeft, level, levelLeft, until, closed>>

AskLevel(r) ==
    /\ At(r, "nivel")
    /\ req' = [req EXCEPT ![r] = IF level[Own(r)] >= CloseLevel THEN [@ EXCEPT !.at = "revoke"]
                                 ELSE Idle]
    /\ UNCHANGED <<fails, failsLeft, level, levelLeft, until, closed>>

RevokeSession(r) ==
    /\ At(r, "revoke")
    /\ closed' = closed \cup {req[r].form}
    /\ req' = [req EXCEPT ![r] = Idle]
    /\ UNCHANGED <<fails, failsLeft, level, levelLeft, until>>

-----------------------------------------------------------------------------
(* Time, failures, and the whole.                                          *)

Older(left) == IF left = Never \/ left = 0 THEN left ELSE left - 1

\* A second passes; a key with no more time is gone.
Tick ==
    /\ failsLeft' = [k \in Key |-> Older(failsLeft[k])]
    /\ fails' = [k \in Key |-> IF failsLeft[k] = 1 THEN 0 ELSE fails[k]]
    /\ levelLeft' = [k \in Key |-> Older(levelLeft[k])]
    /\ level' = [k \in Key |-> IF levelLeft[k] = 1 THEN 0 ELSE level[k]]
    /\ until' = [k \in Key |-> Older(until[k])]
    /\ UNCHANGED <<closed, req>>

\* A Redis or database call that fails, or the end of the process: what was
\* written stays.
Die(r) ==
    /\ ~At(r, "idle")
    /\ req' = [req EXCEPT ![r] = Idle]
    /\ UNCHANGED <<fails, failsLeft, level, levelLeft, until, closed>>

\* What a handler does by itself once it has begun.
Step(r) ==
    \/ AskLock(r) \/ Verify(r) \/ Refuse(r) \/ Forget(r) \/ Clear(r)
    \/ Count(r) \/ ExpireFails(r) \/ AskLeft(r)
    \/ RaiseLevel(r) \/ ExpireLevel(r) \/ SetLock(r) \/ DeleteFails(r)
    \/ AskLevel(r) \/ RevokeSession(r)

Healthy == Tick \/ \E r \in Request : Step(r) \/ \E f \in Form : Start(r, f)

Next == Healthy \/ \E r \in Request : Die(r)

\* Time passes, and the event loop comes back to every handler.
Fairness == WF_vars(Tick) /\ \A r \in Request : WF_vars(Step(r))

Spec == Init /\ [][Next]_vars /\ Fairness

\* No call fails and no process ends in the middle of a handler.
HealthySpec == Init /\ [][Healthy]_vars /\ Fairness
=============================================================================
