------------------------------ MODULE Sessions ------------------------------
(***************************************************************************)
(* The sessions of one adult in identity-service: refresh tokens that are  *)
(* used once, a blacklist, revoked sessions and the "close all" mark (all  *)
(* Redis keys that expire), and the session history in the database.       *)
(*                                                                         *)
(* A handler runs in a slot of Request.  Every call it awaits (a Redis     *)
(* command or a database transaction) is one step, and any step of any     *)
(* other handler may come between two of them.  Time is in whole seconds,  *)
(* like the dates inside a token.                                          *)
(*                                                                         *)
(* The mfa claim and the access to the parents' portal are left out: no    *)
(* step here reads them.  A name ending in Mutant is a broken variant of   *)
(* the definition after it, which the properties must notice.              *)
(***************************************************************************)
EXTENDS Integers

CONSTANTS
    Jti,        \* the ids of the refresh tokens
    Sid,        \* the ids of the sessions
    Request,    \* the handlers that may run at once
    RefreshTtl, \* how long a refresh token, and each Redis key, lives
    Grace,      \* how late a used token still counts as a race
    MaxTime,    \* the bound on the clock
    None        \* no value

ASSUME SessionsAssumption ==
    /\ RefreshTtl \in Nat \ {0}
    /\ Grace \in Nat
    /\ MaxTime \in Nat
    /\ None \notin Nat
    /\ None \notin [sid : Sid, iat : Nat]

VARIABLES
    now,        \* the clock, the same for Redis and for the service
    issued,     \* the refresh tokens made so far, with their claims
    blacklist,  \* when each used token was invalidated
    revoked,    \* when each session was revoked
    closed,     \* when "close all" last ran
    history,    \* the session_history rows: none, open, or why it ended
    req         \* the handlers

vars == <<now, issued, blacklist, revoked, closed, history, req>>

SessionReasons == {"logout", "refresh_token_reuse", "portal_2fa_repeated_lock"}
AllReasons     == {"user_request", "password_changed"}
EndReasons     == SessionReasons \cup AllReasons
Phases == {"idle", "login", "record", "blacklist", "revoked", "mark",
           "invalidate", "issue", "revoke", "end", "end_all"}

\* The ways in which a token is already dead.
Deaths == {"used", "revoked", "closed"}

\* A handler, with what its local variables hold.  was is not in the code: it
\* remembers how the token was dead when the handler began.
Idle == [at |-> "idle", jti |-> None, sid |-> None, iat |-> None,
         reason |-> None, was |-> {}]

-----------------------------------------------------------------------------
(* What the service reads.                                                 *)

\* decodificar: a token is refused from the second its exp names.
Unexpired(iat) == now < iat + RefreshTtl

\* A key set with SETEX at that time, which nothing set again.
AliveMutant(at) == at # None /\ now < at + RefreshTtl - 1
Alive(at) == at # None /\ now < at + RefreshTtl

\* emitida_antes_del_cierre: the mark is the second after the close.
BeforeClose(iat) == Alive(closed) /\ iat < closed + 1

\* The client holds a token once the handler that made it has answered, and a
\* login answers after its history row is written.
Held(j) == issued[j] # None /\ history[issued[j].sid] # "none"

Fresh(j) == issued[j] = None

FreshSession(s) == \A j \in Jti : issued[j] # None => issued[j].sid # s

HowDead(j) ==
    {d \in Deaths :
        \/ d = "used"    /\ blacklist[j] # None
        \/ d = "revoked" /\ revoked[issued[j].sid] # None
                         /\ issued[j].iat <= revoked[issued[j].sid]
        \/ d = "closed"  /\ closed # None /\ issued[j].iat <= closed}

-----------------------------------------------------------------------------
(* Handlers.                                                               *)

Go(r, phase) == req' = [req EXCEPT ![r].at = phase]
Answer(r)    == req' = [req EXCEPT ![r] = Idle]

GoEnd(r, phase, s, reason) ==
    req' = [req EXCEPT ![r] = [Idle EXCEPT !.at = phase, !.sid = s, !.reason = reason]]

Free(r) == req[r].at = "idle"

Init ==
    /\ now = 0
    /\ issued = [j \in Jti |-> None]
    /\ blacklist = [j \in Jti |-> None]
    /\ revoked = [s \in Sid |-> None]
    /\ closed = None
    /\ history = [s \in Sid |-> "none"]
    /\ req = [r \in Request |-> Idle]

\* login, register_guardian and register_teacher, up to the point where the
\* person is who they say they are.
Login(r) ==
    /\ Free(r)
    /\ Go(r, "login")
    /\ UNCHANGED <<now, issued, blacklist, revoked, closed, history>>

\* _issue_token_pair without a sid: a new session and its first token.
StartSession(r, j, s) ==
    /\ req[r].at = "login"
    /\ Fresh(j) /\ FreshSession(s)
    /\ issued' = [issued EXCEPT ![j] = [sid |-> s, iat |-> now]]
    /\ GoEnd(r, "record", s, None)
    /\ UNCHANGED <<now, blacklist, revoked, closed, history>>

\* record_start, and the answer with the tokens.
RecordStart(r) ==
    /\ req[r].at = "record"
    /\ history' = [history EXCEPT ![req[r].sid] = "open"]
    /\ Answer(r)
    /\ UNCHANGED <<now, issued, blacklist, revoked, closed>>

\* refresh: the claims of the token are checked and kept.
Refresh(r, j) ==
    /\ Free(r)
    /\ Held(j) /\ Unexpired(issued[j].iat)
    /\ req' = [req EXCEPT ![r] =
                 [at |-> "blacklist", jti |-> j, sid |-> issued[j].sid,
                  iat |-> issued[j].iat, reason |-> None, was |-> HowDead(j)]]
    /\ UNCHANGED <<now, issued, blacklist, revoked, closed, history>>

\* segundos_desde_invalidacion and its three outcomes: a new token goes on, a
\* token used a moment ago is refused, an old copy closes the session.
CheckBlacklist(r) ==
    /\ req[r].at = "blacklist"
    /\ LET used == blacklist[req[r].jti]
       IN  \/ ~Alive(used) /\ Go(r, "revoked")
           \/ Alive(used) /\ now - used <= Grace /\ Answer(r)
           \/ /\ Alive(used) /\ now - used > Grace
              /\ GoEnd(r, "revoke", req[r].sid, "refresh_token_reuse")
    /\ UNCHANGED <<now, issued, blacklist, revoked, closed, history>>

\* ensure_active, its first read.
CheckRevoked(r) ==
    /\ req[r].at = "revoked"
    /\ IF Alive(revoked[req[r].sid]) THEN Answer(r) ELSE Go(r, "mark")
    /\ UNCHANGED <<now, issued, blacklist, revoked, closed, history>>

\* ensure_active, its second read.
CheckMark(r) ==
    /\ req[r].at = "mark"
    /\ IF BeforeClose(req[r].iat) THEN Answer(r) ELSE Go(r, "invalidate")
    /\ UNCHANGED <<now, issued, blacklist, revoked, closed, history>>

\* invalidar: the token has been used.
Invalidate(r) ==
    /\ req[r].at = "invalidate"
    /\ blacklist' = [blacklist EXCEPT ![req[r].jti] = now]
    /\ Go(r, "issue")
    /\ UNCHANGED <<now, issued, revoked, closed, history>>

\* _issue_token_pair with the sid of the old token, and the answer.  The touch
\* of the history row before it changes only when the session was last used.
Issue(r, j) ==
    /\ req[r].at = "issue"
    /\ Fresh(j)
    /\ issued' = [issued EXCEPT ![j] = [sid |-> req[r].sid, iat |-> now]]
    /\ Answer(r)
    /\ UNCHANGED <<now, blacklist, revoked, closed, history>>

\* logout: the token is invalidated first, whatever became of its session.
Logout(r, j) ==
    /\ Free(r)
    /\ Held(j) /\ Unexpired(issued[j].iat)
    /\ blacklist' = [blacklist EXCEPT ![j] = now]
    /\ GoEnd(r, "revoke", issued[j].sid, "logout")
    /\ UNCHANGED <<now, issued, revoked, closed, history>>

\* A session whose tokens ensure_active lets through, so it may ask for more.
Signed(s) ==
    \E j \in Jti : /\ Held(j) /\ issued[j].sid = s
                   /\ Unexpired(issued[j].iat)
                   /\ ~Alive(revoked[s]) /\ ~BeforeClose(issued[j].iat)

\* verify_code: the second lock of the 2FA code in a row closes the session.
LockSession(r, s) ==
    /\ Free(r)
    /\ Signed(s)
    /\ GoEnd(r, "revoke", s, "portal_2fa_repeated_lock")
    /\ UNCHANGED <<now, issued, blacklist, revoked, closed, history>>

\* revoke_session: revocar_sesion, then the history row.
RevokeMutant(r) ==
    /\ req[r].at = "revoke"
    /\ history' = [history EXCEPT ![req[r].sid] = IF @ = "open" THEN req[r].reason ELSE @]
    /\ Go(r, "end")
    /\ UNCHANGED <<now, issued, blacklist, revoked, closed>>
Revoke(r) ==
    /\ req[r].at = "revoke"
    /\ revoked' = [revoked EXCEPT ![req[r].sid] = now]
    /\ Go(r, "end")
    /\ UNCHANGED <<now, issued, blacklist, closed, history>>

\* session_history.end: an ended session keeps how it ended first.
EndHistory(r) ==
    /\ req[r].at = "end"
    /\ history' = [history EXCEPT ![req[r].sid] = IF @ = "open" THEN req[r].reason ELSE @]
    /\ Answer(r)
    /\ UNCHANGED <<now, issued, blacklist, revoked, closed>>

\* revoke_all, asked by logout_all or by change_password: cerrar_todas.
CloseAll(r, reason) ==
    /\ Free(r)
    /\ \E s \in Sid : Signed(s)
    /\ closed' = now
    /\ GoEnd(r, "end_all", None, reason)
    /\ UNCHANGED <<now, issued, blacklist, revoked, history>>

\* session_history.end_all.
EndAllHistory(r) ==
    /\ req[r].at = "end_all"
    /\ history' = [s \in Sid |-> IF history[s] = "open" THEN req[r].reason ELSE history[s]]
    /\ Answer(r)
    /\ UNCHANGED <<now, issued, blacklist, revoked, closed>>

\* A call to Redis or to the database fails, or the service dies: what the
\* handler did so far stays done.
Fail(r) ==
    /\ ~Free(r)
    /\ Answer(r)
    /\ UNCHANGED <<now, issued, blacklist, revoked, closed, history>>

Tick ==
    /\ now < MaxTime
    /\ now' = now + 1
    /\ UNCHANGED <<issued, blacklist, revoked, closed, history, req>>

Step(r) ==
    \/ Login(r)
    \/ \E j \in Jti, s \in Sid : StartSession(r, j, s)
    \/ RecordStart(r)
    \/ \E j \in Jti : Refresh(r, j)
    \/ CheckBlacklist(r)
    \/ CheckRevoked(r)
    \/ CheckMark(r)
    \/ Invalidate(r)
    \/ \E j \in Jti : Issue(r, j)
    \/ \E j \in Jti : Logout(r, j)
    \/ \E s \in Sid : LockSession(r, s)
    \/ Revoke(r)
    \/ EndHistory(r)
    \/ \E reason \in AllReasons : CloseAll(r, reason)
    \/ EndAllHistory(r)
    \/ Fail(r)

Next == Tick \/ \E r \in Request : Step(r)

Spec == Init /\ [][Next]_vars
=============================================================================
