-------------------------- MODULE LockoutProperties --------------------------
(***************************************************************************)
(* What the locks of identity-service promise.                             *)
(***************************************************************************)
EXTENDS Lockout

Phases == {"idle", "ask", "verify", "forget", "clear", "incr", "expire", "left",
           "level", "expire_level", "set", "delete", "nivel", "revoke"}

\* The phases in which a handler is at one of the locks of a form.
Busy == Phases \ {"idle"}

\* What a handler holds: a place in the locks of its form, and for a level the
\* answer of INCR, which picks the wait.
HandlerType == [at : Phases, form : Form \cup {None}, i : 1 .. 2, n : Nat, shut : BOOLEAN]

HandlerOK(h) ==
    \/ h = Idle
    \/ /\ h.at \in Busy /\ h.form \in Form
       /\ h.i \in 1 .. Len(Locks[h.form])
       /\ h.at \in {"expire_level", "set"} => h.n > 0
       /\ h.at = "clear" => Clears[h.form] # None

TimeLeft == Nat \cup {Never}

\* A Redis key is gone exactly when its value is 0, and then has no time left.
KeysOK ==
    /\ fails \in [Key -> Nat] /\ failsLeft \in [Key -> TimeLeft]
    /\ level \in [Key -> Nat] /\ levelLeft \in [Key -> TimeLeft]
    /\ until \in [Key -> Nat]
    /\ \A k \in Key : /\ fails[k] <= FailsTop(k) /\ (fails[k] = 0 <=> failsLeft[k] = 0)
                      /\ level[k] <= LevelTop(k) /\ (level[k] = 0 <=> levelLeft[k] = 0)

HandlersOK ==
    /\ req \in [Request -> HandlerType]
    /\ \A r \in Request : HandlerOK(req[r])

\* Type correctness of the Redis keys, the closed sessions and the handlers.
TypeOK == KeysOK /\ HandlersOK /\ closed \subseteq Form

-----------------------------------------------------------------------------
(* However the handlers interleave, and wherever they die.                 *)

\* The shared keys: no form has them as its own, or clears them.
Shared == {k \in Key : \A f \in Form : Locks[f][1] # k /\ Clears[f] # k}

\* Nobody gets back the guesses spent on a shared key by signing in: only the
\* end of the window, or the lock of that key, takes failures off it, and
\* nothing lifts its lock before its time.
OnlyTimeForgives ==
    [][\A k \in Shared :
          /\ fails'[k] < fails[k] =>
                failsLeft[k] = 1 \/ \E r \in Request : At(r, "delete") /\ Here(r) = k
          /\ until'[k] < until[k] =>
                until'[k] = until[k] - 1 \/ \E r \in Request : At(r, "set") /\ Here(r) = k]_vars

\* A lock is never for good, although wrong answers keep coming: while it lasts
\* only the handlers that were already past it may set it again.
LockEnds == \A k \in Key : until[k] > 0 ~> until[k] = 0

-----------------------------------------------------------------------------
(* When no handler dies half way.                                          *)

\* A counter or a level without an expiry is about to get one.
CountersFade ==
    \A k \in Key :
        /\ failsLeft[k] = Never => \E r \in Request : At(r, "expire") /\ Here(r) = k
        /\ levelLeft[k] = Never => \E r \in Request : At(r, "expire_level") /\ Here(r) = k

\* The handler whose failure was the last one allowed is setting the lock.
Locking(r, k) ==
    /\ ~At(r, "idle")
    /\ Here(r) = k
    /\ \/ req[r].at \in {"level", "expire_level", "set", "delete"}
       \/ At(r, "expire") /\ req[r].n = MaxFailures[k]

\* A counter that reached the maximum has a handler that locks the key, although
\* successes delete the counter and start it again in between: so the failures
\* after the last one allowed are right to leave it to the first.
FullCounterIsBeingLocked ==
    \A k \in Key : fails[k] >= MaxFailures[k] => \E r \in Request : Locking(r, k)

\* The maximum is followed by a lock, whatever successes, other failures and
\* the end of the window do to the counter in the meantime.
MaximumLocks ==
    \A k \in Key : /\ fails[k] >= MaxFailures[k]
                   /\ \A r \in Request : At(r, "delete") => Here(r) # k
                   ~> until[k] > 0

\* Failures are not remembered for good: the window ends, or the lock begins.
CounterForgotten == \A k \in Key : fails[k] > 0 ~> fails[k] = 0

\* The phases of registrar_fallo.
Counting == {"incr", "expire", "left", "level", "expire_level", "set", "delete"}

\* A handler that set the lock of a portal session, or is about to, and has not
\* asked for the level yet, or found it too high.
ClosingHandler(r, f) ==
    /\ req[r].form = f
    /\ \/ req[r].at \in {"expire_level", "set", "delete"} /\ req[r].i = 1
       \/ req[r].at \in Counting /\ req[r].i = 2 /\ req[r].shut
       \/ req[r].at \in {"nivel", "revoke"}

\* A portal session that was locked twice is closed, or a handler is on its way
\* to close it, although the level is read again after the lock was set, and a
\* good code or the quiet period may take it back in between.
SecondLockClosesSession ==
    \A f \in Closing :
        level[Locks[f][1]] >= CloseLevel
            => f \in closed \/ \E r \in Request : ClosingHandler(r, f)

-----------------------------------------------------------------------------
(* What the comment in registrar_fallo says of the failures past the        *)
(* maximum: "the rest just see the lock that is already set".              *)

SeesTheLock == \A r \in Request : At(r, "left") => until[Here(r)] > 0
=============================================================================
