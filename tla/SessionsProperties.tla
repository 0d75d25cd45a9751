------------------------- MODULE SessionsProperties -------------------------
(***************************************************************************)
(* What the sessions of identity-service promise.                          *)
(***************************************************************************)
EXTENDS Sessions

Time == Nat \cup {None}

RequestType ==
    [at : Phases, jti : Jti \cup {None}, sid : Sid \cup {None}, iat : Time,
     reason : EndReasons \cup {None}, was : SUBSET Deaths]

\* Type correctness of the clock, the Redis keys, the history and the handlers.
TypeOK ==
    /\ now \in Nat
    /\ issued \in [Jti -> [sid : Sid, iat : Nat] \cup {None}]
    /\ blacklist \in [Jti -> Time]
    /\ revoked \in [Sid -> Time]
    /\ closed \in Time
    /\ history \in [Sid -> {"none", "open"} \cup EndReasons]
    /\ req \in [Request -> RequestType]

\* What refresh would answer to token j right now.
Accepted(j) ==
    /\ Held(j)
    /\ Unexpired(issued[j].iat)
    /\ ~Alive(blacklist[j])
    /\ ~Alive(revoked[issued[j].sid])
    /\ ~BeforeClose(issued[j].iat)

-----------------------------------------------------------------------------
(* With any number of handlers at once.                                    *)

\* A refresh that began with a token already used, revoked or closed never
\* gets as far as using it, however the other handlers move and however many
\* keys expire on the way: each key outlives the tokens it kills.  Only a token
\* that expired since it was decoded may slip through (refresh reads the
\* blacklist, the revocation and the mark one after the other).
OnlyLiveTokensRefresh ==
    \A r \in Request :
        req[r].at \in {"invalidate", "issue"} /\ Unexpired(req[r].iat)
            => req[r].was = {}

\* The history never runs ahead of Redis: a session it calls ended was revoked,
\* or all of them were closed, even if the service dies between the two writes
\* of revoke_session or revoke_all.
HistoryComesLast ==
    \A s \in Sid : /\ history[s] \in SessionReasons => revoked[s] # None
                   /\ history[s] \in AllReasons => closed # None

-----------------------------------------------------------------------------
(* With one handler at a time, and no refresh that outlasts its token (one    *)
(* decoded in the last second of the token may find the keys that killed it *)
(* expired as well, and issue a new token).                                 *)

Refreshing == {"blacklist", "revoked", "mark", "invalidate", "issue"}

PromptNext ==
    /\ Next
    /\ \A r \in Request : req[r].at \in Refreshing => now' < req[r].iat + RefreshTtl

PromptSpec == Init /\ [][PromptNext]_vars

\* A session has one key: of all its tokens at most one is accepted, since a
\* refresh uses up the token it was given.
OneKeyPerSession ==
    \A i, j \in Jti : Accepted(i) /\ Accepted(j) /\ issued[i].sid = issued[j].sid => i = j

\* A revoked session stays closed, also after its Redis key expired.
RevokedStaysRevoked ==
    \A j \in Jti : Accepted(j) => revoked[issued[j].sid] = None

\* "Close all my sessions" and a new password close every session that had
\* started, also those in the middle of a refresh.
ClosedStaysClosed ==
    \A i, j \in Jti :
        /\ Accepted(j)
        /\ issued[i] # None /\ issued[i].sid = issued[j].sid
        /\ closed # None
        => issued[i].iat > closed

\* A session the history calls ended takes no token any more.
HistoryTellsTruth ==
    \A j \in Jti : Accepted(j) => history[issued[j].sid] = "open"
=============================================================================
