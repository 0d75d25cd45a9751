--------------------------- MODULE SessionsProofs ---------------------------
(***************************************************************************)
(* Proofs about Sessions, for any number of tokens and sessions and any    *)
(* lifetime of a token: first for any number of handlers, then for one at  *)
(* a time.                                                                 *)
(***************************************************************************)
EXTENDS SessionsProperties, TLAPS

\* No date is in the future, and a token is used after it is issued.
PastDates ==
    /\ \A j \in Jti : /\ issued[j] # None => issued[j].iat <= now
                      /\ blacklist[j] # None => /\ issued[j] # None
                                                /\ issued[j].iat <= blacklist[j]
                                                /\ blacklist[j] <= now
    /\ \A s \in Sid : revoked[s] # None => revoked[s] <= now
    /\ closed # None => closed <= now

\* A refresh holds the claims of its token, and what killed the token when it
\* began still shows in Redis for as long as the keys live.
ClaimsOf(q) ==
    /\ q.jti \in Jti /\ q.sid \in Sid /\ q.iat \in Nat
    /\ issued[q.jti] # None
    /\ issued[q.jti].sid = q.sid /\ issued[q.jti].iat = q.iat
    /\ "used" \in q.was => blacklist[q.jti] # None
    /\ "revoked" \in q.was => revoked[q.sid] # None /\ q.iat <= revoked[q.sid]
    /\ "closed" \in q.was => closed # None /\ q.iat <= closed

\* What the reads a refresh has done have excluded.
Excluded(q) ==
    /\ q.at \in {"revoked", "mark", "invalidate", "issue"} => "used" \notin q.was
    /\ q.at \in {"mark", "invalidate", "issue"} => "revoked" \notin q.was
    /\ q.at \in {"invalidate", "issue"} => "closed" \notin q.was

\* What any other handler holds.
EndingOf(q) ==
    /\ q.at \in {"record", "revoke", "end"} => q.sid \in Sid
    /\ q.at \in {"revoke", "end"} => q.reason \in SessionReasons
    /\ q.at = "end" => revoked[q.sid] # None
    /\ q.at = "end_all" => q.reason \in AllReasons /\ closed # None

HandlerOK(q) ==
    /\ q.at \in Refreshing => ClaimsOf(q) /\ (Unexpired(q.iat) => Excluded(q))
    /\ EndingOf(q)

Handlers == \A r \in Request : HandlerOK(req[r])

IInv == TypeOK /\ PastDates /\ Handlers /\ HistoryComesLast
-----------------------------------------------------------------------------
(* Every step keeps what was written, and moves no slot but its own.       *)

Kept ==
    /\ now <= now'
    /\ \A j \in Jti : /\ issued[j] # None => issued'[j] = issued[j]
                      /\ blacklist[j] # None => blacklist'[j] # None
    /\ \A s \in Sid : revoked[s] # None => revoked'[s] # None /\ revoked[s] <= revoked'[s]
    /\ closed # None => closed' # None /\ closed <= closed'

\* A handler that does not move stays as it was, whatever the others write.
LEMMA Bystander ==
    ASSUME IInv, TypeOK', Kept, NEW r \in Request, req'[r] = req[r]
    PROVE  HandlerOK(req[r])'
<1>1. HandlerOK(req[r])
  BY DEF IInv, Handlers
<1>2. EndingOf(req[r])'
  BY <1>1 DEF HandlerOK, EndingOf, Kept
<1>3. ASSUME req[r].at \in Refreshing
      PROVE  ClaimsOf(req[r])' /\ (Unexpired(req[r].iat) => Excluded(req[r]))'
  <2>1. ClaimsOf(req[r]) /\ (Unexpired(req[r].iat) => Excluded(req[r]))
    BY <1>1, <1>3 DEF HandlerOK
  <2>2. req[r].iat \in Nat /\ req[r].sid \in Sid /\ req[r].jti \in Jti
    BY <2>1 DEF ClaimsOf
  <2>3. /\ revoked[req[r].sid] \in Time /\ revoked'[req[r].sid] \in Time
        /\ closed \in Time /\ closed' \in Time /\ now \in Nat /\ now' \in Nat
    BY <2>2 DEF IInv, TypeOK
  <2>4. ClaimsOf(req[r])'
    BY <2>1, <2>2, <2>3, SessionsAssumption DEF ClaimsOf, Kept, Time
  <2>5. Unexpired(req[r].iat)' => Unexpired(req[r].iat)
    BY <2>2, <2>3, SessionsAssumption DEF Unexpired, Kept
  <2>6. Excluded(req[r]) => Excluded(req[r])'
    BY DEF Excluded
  <2> QED
    BY <2>1, <2>4, <2>5, <2>6
<1> QED
  BY <1>2, <1>3 DEF HandlerOK

\* So only the handler that moves needs an argument.
LEMMA MoveOne ==
    ASSUME IInv, TypeOK', Kept, NEW r \in Request,
           \A q \in Request \ {r} : req'[q] = req[q],
           HandlerOK(req[r])'
    PROVE  Handlers'
<1> SUFFICES ASSUME NEW q \in Request PROVE HandlerOK(req[q])'
  BY DEF Handlers
<1>1. CASE q = r
  BY <1>1
<1>2. CASE q # r
  BY <1>2, Bystander
<1> QED
  BY <1>1, <1>2

\* A handler that only changes its phase.
LEMMA GoSlot ==
    ASSUME TypeOK, NEW r \in Request, NEW phase \in Phases, Go(r, phase)
    PROVE  /\ req' \in [Request -> RequestType]
           /\ req'[r] = [req[r] EXCEPT !.at = phase]
           /\ \A q \in Request \ {r} : req'[q] = req[q]
<1>1. req \in [Request -> RequestType]
  BY DEF TypeOK
<1>2. [req[r] EXCEPT !.at = phase] \in RequestType
  BY <1>1 DEF RequestType
<1> QED
  BY <1>1, <1>2 DEF Go

\* A handler that answers.
LEMMA AnswerSlot ==
    ASSUME TypeOK, NEW r \in Request, Answer(r)
    PROVE  /\ req' \in [Request -> RequestType]
           /\ req'[r] = Idle
           /\ \A q \in Request \ {r} : req'[q] = req[q]
<1>1. req \in [Request -> RequestType]
  BY DEF TypeOK
<1>2. Idle \in RequestType
  BY DEF RequestType, Idle, Phases, Time
<1> QED
  BY <1>1, <1>2 DEF Answer

\* A handler that goes on to write that a session ended.
LEMMA EndSlot ==
    ASSUME TypeOK, NEW r \in Request, NEW phase \in Phases, NEW s \in Sid \cup {None},
           NEW reason \in EndReasons \cup {None}, GoEnd(r, phase, s, reason)
    PROVE  /\ req' \in [Request -> RequestType]
           /\ req'[r].at = phase /\ req'[r].sid = s /\ req'[r].reason = reason
           /\ \A q \in Request \ {r} : req'[q] = req[q]
<1> DEFINE slot == [Idle EXCEPT !.at = phase, !.sid = s, !.reason = reason]
<1>1. req \in [Request -> RequestType]
  BY DEF TypeOK
<1>2. /\ slot \in RequestType
      /\ slot.at = phase /\ slot.sid = s /\ slot.reason = reason
  BY DEF RequestType, Idle, Time
<1>3. req' = [req EXCEPT ![r] = slot]
  BY DEF GoEnd
<1> QED
  BY <1>1, <1>2, <1>3

-----------------------------------------------------------------------------
(* Steps that only read, and those of the clock.                           *)

ReadOnly == UNCHANGED <<now, issued, blacklist, revoked, closed, history>>

\* A step that writes nothing keeps everything but the slot it moves.
LEMMA ReadKeeps ==
    ASSUME IInv, ReadOnly, NEW r \in Request,
           req' \in [Request -> RequestType],
           \A q \in Request \ {r} : req'[q] = req[q],
           HandlerOK(req[r])'
    PROVE  IInv'
<1>1. TypeOK'
  BY DEF IInv, TypeOK, ReadOnly
<1>2. Kept
  BY SessionsAssumption DEF Kept, ReadOnly, IInv, TypeOK, Time
<1>3. PastDates' /\ HistoryComesLast'
  BY DEF IInv, PastDates, HistoryComesLast, ReadOnly
<1>4. Handlers'
  BY <1>1, <1>2, MoveOne
<1> QED
  BY <1>1, <1>3, <1>4 DEF IInv

\* Time passes: expired keys stay expired, and so do expired tokens.
LEMMA TickKeeps == ASSUME IInv, Tick PROVE IInv'
<1>1. TypeOK' /\ Kept
  BY SessionsAssumption DEF Kept, Tick, IInv, TypeOK, Time
<1>2. PastDates'
  <2>1. /\ now \in Nat /\ now' = now + 1
        /\ issued' = issued /\ blacklist' = blacklist
        /\ revoked' = revoked /\ closed' = closed
        /\ \A j \in Jti : blacklist[j] \in Time /\ issued[j] \in [sid : Sid, iat : Nat] \cup {None}
        /\ \A s \in Sid : revoked[s] \in Time
        /\ closed \in Time
    BY DEF Tick, IInv, TypeOK
  <2>2. \A n \in Nat : n <= now => n <= now'
    BY <2>1
  <2> QED
    BY <2>1, <2>2 DEF IInv, PastDates, Time
<1>3. HistoryComesLast'
  BY DEF IInv, HistoryComesLast, Tick
<1>4. Handlers'
  BY <1>1, Bystander DEF Handlers, Tick
<1> QED
  BY <1>1, <1>2, <1>3, <1>4 DEF IInv

\* What is left when a handler answers without writing.
LEMMA AnswerKeeps ==
    ASSUME IInv, ReadOnly, NEW r \in Request, Answer(r)
    PROVE  IInv'
<1>1. HandlerOK(req[r])'
  <2>1. req'[r] = Idle
    BY AnswerSlot DEF IInv
  <2> QED
    BY <2>1 DEF HandlerOK, Idle, Refreshing, EndingOf
<1> QED
  BY <1>1, AnswerSlot, ReadKeeps DEF IInv
\* A refresh begins with the claims of a token it holds, and was is what
\* killed it.
LEMMA RefreshKeeps ==
    ASSUME IInv, NEW r \in Request, NEW j \in Jti, Refresh(r, j)
    PROVE  IInv'
<1> DEFINE slot == [at |-> "blacklist", jti |-> j, sid |-> issued[j].sid,
                    iat |-> issued[j].iat, reason |-> None, was |-> HowDead(j)]
<1>1. /\ issued[j] \in [sid : Sid, iat : Nat] /\ issued[j] # None
      /\ req \in [Request -> RequestType]
  BY DEF Refresh, Held, IInv, TypeOK
<1>2. HowDead(j) \subseteq Deaths
  BY DEF HowDead
<1>3. slot \in RequestType
  BY <1>1, <1>2 DEF RequestType, Phases, Time
<1>4. req' = [req EXCEPT ![r] = slot] /\ ReadOnly
  BY DEF Refresh, ReadOnly
<1>5. /\ req' \in [Request -> RequestType] /\ req'[r] = slot
      /\ \A q \in Request \ {r} : req'[q] = req[q]
  BY <1>1, <1>3, <1>4
<1>6. HandlerOK(slot)
  <2>1. ClaimsOf(slot)
    BY <1>1, SessionsAssumption DEF ClaimsOf, HowDead
  <2> QED
    BY <2>1 DEF HandlerOK, EndingOf, Excluded
<1>7. HandlerOK(req[r])'
  BY <1>4, <1>5, <1>6 DEF HandlerOK, ClaimsOf, Excluded, EndingOf, Unexpired, ReadOnly
<1> QED
  BY <1>4, <1>5, <1>7, ReadKeeps

\* A refresh that goes on has one death less to fear.
LEMMA PassKeeps ==
    ASSUME IInv, ReadOnly, NEW r \in Request, NEW phase \in Phases, Go(r, phase),
           req[r].at \in Refreshing,
           Unexpired(req[r].iat) => Excluded([req[r] EXCEPT !.at = phase]),
           phase \in Refreshing
    PROVE  IInv'
<1> DEFINE slot == [req[r] EXCEPT !.at = phase]
<1>1. /\ req' \in [Request -> RequestType] /\ req'[r] = slot
      /\ \A q \in Request \ {r} : req'[q] = req[q]
  BY GoSlot DEF IInv
<1>2. /\ req[r] \in RequestType /\ HandlerOK(req[r])
      /\ slot.at = phase /\ slot.jti = req[r].jti /\ slot.sid = req[r].sid
      /\ slot.iat = req[r].iat /\ slot.was = req[r].was
  BY DEF IInv, TypeOK, Handlers, RequestType
<1>3. ClaimsOf(slot)
  BY <1>2 DEF HandlerOK, ClaimsOf
<1>4. EndingOf(slot)
  BY <1>2 DEF EndingOf, Refreshing
<1>5. HandlerOK(req[r])'
  BY <1>1, <1>2, <1>3, <1>4
     DEF HandlerOK, ClaimsOf, Excluded, EndingOf, Unexpired, ReadOnly
<1> QED
  BY <1>1, <1>5, ReadKeeps

\* The three keys outlive the token they kill.
LEMMA KeysOutliveTokens ==
    ASSUME IInv, NEW r \in Request, req[r].at \in Refreshing, Unexpired(req[r].iat)
    PROVE  /\ "used" \in req[r].was => Alive(blacklist[req[r].jti])
           /\ "revoked" \in req[r].was => Alive(revoked[req[r].sid])
           /\ "closed" \in req[r].was => BeforeClose(req[r].iat)
<1> DEFINE q == req[r]
<1>1. ClaimsOf(q)
  BY DEF IInv, Handlers, HandlerOK
<1>2. /\ q.jti \in Jti /\ q.sid \in Sid /\ q.iat \in Nat
      /\ blacklist[q.jti] \in Time /\ revoked[q.sid] \in Time /\ closed \in Time
      /\ now \in Nat /\ RefreshTtl \in Nat
  BY <1>1, SessionsAssumption DEF ClaimsOf, IInv, TypeOK
<1>3. "used" \in q.was => blacklist[q.jti] # None /\ q.iat <= blacklist[q.jti]
  BY <1>1, <1>2 DEF ClaimsOf, IInv, PastDates
<1>4. "used" \in q.was => Alive(blacklist[q.jti])
  BY <1>2, <1>3 DEF Alive, Unexpired, Time
<1>5. "revoked" \in q.was => Alive(revoked[q.sid])
  BY <1>1, <1>2 DEF ClaimsOf, Alive, Unexpired, Time
<1>6. "closed" \in q.was => BeforeClose(q.iat)
  BY <1>1, <1>2 DEF ClaimsOf, Alive, Unexpired, Time, BeforeClose
<1> QED
  BY <1>4, <1>5, <1>6

\* What a handler holds while it is refreshing.
LEMMA SlotFacts ==
    ASSUME IInv, NEW r \in Request
    PROVE  /\ req[r] \in RequestType
           /\ \A phase \in Phases :
                 LET slot == [req[r] EXCEPT !.at = phase]
                 IN  slot.at = phase /\ slot.was = req[r].was
           /\ req[r].at \in Refreshing => req[r].sid \in Sid /\ req[r].jti \in Jti
           /\ req[r].at \in Refreshing /\ Unexpired(req[r].iat) => Excluded(req[r])
BY DEF IInv, TypeOK, RequestType, Handlers, HandlerOK, ClaimsOf

\* Handing a session over to revoke_session or revoke_all.
LEMMA EndKeeps ==
    ASSUME IInv, ReadOnly, NEW r \in Request, NEW s \in Sid,
           NEW reason \in SessionReasons, GoEnd(r, "revoke", s, reason)
    PROVE  IInv'
<1>1. /\ req' \in [Request -> RequestType]
      /\ req'[r].at = "revoke" /\ req'[r].sid = s /\ req'[r].reason = reason
      /\ \A q \in Request \ {r} : req'[q] = req[q]
  BY EndSlot DEF IInv, Phases, EndReasons
<1>2. HandlerOK(req[r])'
  BY <1>1 DEF HandlerOK, Refreshing, EndingOf
<1> QED
  BY <1>1, <1>2, ReadKeeps

\* The blacklist lets only a token through that was not used.
LEMMA CheckBlacklistKeeps ==
    ASSUME IInv, NEW r \in Request, CheckBlacklist(r)
    PROVE  IInv'
<1>1. /\ req[r].at = "blacklist" /\ req[r].at \in Refreshing /\ ReadOnly
      /\ "revoked" \in Phases /\ "revoked" \in Refreshing
  BY DEF CheckBlacklist, Refreshing, ReadOnly, Phases
<1>2. CASE ~Alive(blacklist[req[r].jti]) /\ Go(r, "revoked")
  BY <1>1, <1>2, KeysOutliveTokens, SlotFacts, PassKeeps DEF Excluded
<1>3. CASE Answer(r)
  BY <1>1, <1>3, AnswerKeeps
<1>4. CASE GoEnd(r, "revoke", req[r].sid, "refresh_token_reuse")
  BY <1>1, <1>4, SlotFacts, EndKeeps DEF SessionReasons
<1> QED
  BY <1>2, <1>3, <1>4 DEF CheckBlacklist

\* ensure_active lets only a session through that was not revoked.
LEMMA CheckRevokedKeeps ==
    ASSUME IInv, NEW r \in Request, CheckRevoked(r)
    PROVE  IInv'
<1>1. /\ req[r].at = "revoked" /\ req[r].at \in Refreshing /\ ReadOnly
      /\ "mark" \in Phases /\ "mark" \in Refreshing
  BY DEF CheckRevoked, Refreshing, ReadOnly, Phases
<1>2. CASE ~Alive(revoked[req[r].sid]) /\ Go(r, "mark")
  BY <1>1, <1>2, KeysOutliveTokens, SlotFacts, PassKeeps DEF Excluded
<1>3. CASE Answer(r)
  BY <1>1, <1>3, AnswerKeeps
<1> QED
  BY <1>2, <1>3 DEF CheckRevoked

\* ensure_active lets only a token through that is younger than the close.
LEMMA CheckMarkKeeps ==
    ASSUME IInv, NEW r \in Request, CheckMark(r)
    PROVE  IInv'
<1>1. /\ req[r].at = "mark" /\ req[r].at \in Refreshing /\ ReadOnly
      /\ "invalidate" \in Phases /\ "invalidate" \in Refreshing
  BY DEF CheckMark, Refreshing, ReadOnly, Phases
<1>2. CASE ~BeforeClose(req[r].iat) /\ Go(r, "invalidate")
  BY <1>1, <1>2, KeysOutliveTokens, SlotFacts, PassKeeps DEF Excluded
<1>3. CASE Answer(r)
  BY <1>1, <1>3, AnswerKeeps
<1> QED
  BY <1>2, <1>3 DEF CheckMark
\* A login that only got through the password.
LEMMA LoginKeeps == ASSUME IInv, NEW r \in Request, Login(r) PROVE IInv'
<1>1. /\ req' \in [Request -> RequestType] /\ req'[r] = [req[r] EXCEPT !.at = "login"]
      /\ \A q \in Request \ {r} : req'[q] = req[q]
  BY GoSlot DEF IInv, Login, Phases
<1>2. req'[r].at = "login"
  BY <1>1, SlotFacts DEF RequestType
<1>3. HandlerOK(req[r])'
  BY <1>2 DEF HandlerOK, Refreshing, EndingOf
<1> QED
  BY <1>1, <1>3, ReadKeeps DEF Login, ReadOnly

-----------------------------------------------------------------------------
(* Steps that write.                                                       *)

\* A new token, of a new session or of one being refreshed: no other token
\* changes, and it is issued now.
LEMMA NewToken ==
    ASSUME IInv, NEW j \in Jti, Fresh(j), NEW s \in Sid,
           issued' = [issued EXCEPT ![j] = [sid |-> s, iat |-> now]],
           UNCHANGED <<now, blacklist, revoked, closed, history>>,
           req' \in [Request -> RequestType]
    PROVE  TypeOK' /\ Kept /\ PastDates' /\ HistoryComesLast'
<1> DEFINE token == [sid |-> s, iat |-> now]
<1>1. /\ issued \in [Jti -> [sid : Sid, iat : Nat] \cup {None}] /\ now \in Nat
      /\ token \in [sid : Sid, iat : Nat] /\ token.iat = now
      /\ issued[j] = None
  BY DEF IInv, TypeOK, Fresh
<1>2. /\ issued' \in [Jti -> [sid : Sid, iat : Nat] \cup {None}]
      /\ issued'[j] = token
      /\ \A i \in Jti \ {j} : issued'[i] = issued[i]
  BY <1>1
<1>3. TypeOK'
  BY <1>2 DEF IInv, TypeOK
<1>4. Kept
  BY <1>1, <1>2, SessionsAssumption DEF Kept, IInv, TypeOK, Time
<1>5. PastDates'
  <2>1. ASSUME NEW i \in Jti
        PROVE  /\ issued'[i] # None => issued'[i].iat <= now
               /\ blacklist[i] # None => /\ issued'[i] # None
                                         /\ issued'[i].iat <= blacklist[i]
                                         /\ blacklist[i] <= now
    BY <1>1, <1>2 DEF IInv, PastDates
  <2> QED
    BY <2>1 DEF IInv, PastDates
<1>6. HistoryComesLast'
  BY DEF IInv, HistoryComesLast
<1> QED
  BY <1>3, <1>4, <1>5, <1>6

\* A login issues the first token of a session.
LEMMA StartSessionKeeps ==
    ASSUME IInv, NEW r \in Request, NEW j \in Jti, NEW s \in Sid, StartSession(r, j, s)
    PROVE  IInv'
<1>1. /\ req' \in [Request -> RequestType] /\ req'[r].at = "record" /\ req'[r].sid = s
      /\ \A q \in Request \ {r} : req'[q] = req[q]
  BY EndSlot DEF IInv, StartSession, Phases
<1>2. TypeOK' /\ Kept /\ PastDates' /\ HistoryComesLast'
  BY <1>1, NewToken DEF StartSession
<1>3. HandlerOK(req[r])'
  BY <1>1 DEF HandlerOK, Refreshing, EndingOf
<1> QED
  BY <1>1, <1>2, <1>3, MoveOne DEF IInv

\* A refresh issues the next token of its session.
LEMMA IssueKeeps ==
    ASSUME IInv, NEW r \in Request, NEW j \in Jti, Issue(r, j)
    PROVE  IInv'
<1>1. /\ req' \in [Request -> RequestType] /\ req'[r] = Idle
      /\ \A q \in Request \ {r} : req'[q] = req[q]
  BY AnswerSlot DEF IInv, Issue
<1>2. req[r].sid \in Sid
  BY SlotFacts DEF Issue, Refreshing
<1>3. TypeOK' /\ Kept /\ PastDates' /\ HistoryComesLast'
  BY <1>1, <1>2, NewToken DEF Issue
<1>4. HandlerOK(req[r])'
  BY <1>1 DEF HandlerOK, Idle, Refreshing, EndingOf
<1> QED
  BY <1>1, <1>3, <1>4, MoveOne DEF IInv

\* A token is blacklisted now, after it was issued.
LEMMA Blacklisted ==
    ASSUME IInv, NEW j \in Jti, issued[j] # None,
           blacklist' = [blacklist EXCEPT ![j] = now],
           UNCHANGED <<now, issued, revoked, closed, history>>,
           req' \in [Request -> RequestType]
    PROVE  TypeOK' /\ Kept /\ PastDates' /\ HistoryComesLast'
<1>1. /\ blacklist \in [Jti -> Time] /\ now \in Nat /\ now \in Time /\ now # None
  BY SessionsAssumption DEF IInv, TypeOK, Time
<1>2. /\ blacklist' \in [Jti -> Time] /\ blacklist'[j] = now
      /\ \A i \in Jti \ {j} : blacklist'[i] = blacklist[i]
  BY <1>1
<1>3. TypeOK'
  BY <1>2 DEF IInv, TypeOK
<1>4. Kept
  BY <1>1, <1>2 DEF Kept, IInv, TypeOK, Time
<1>5. PastDates'
  <2>1. ASSUME NEW i \in Jti
        PROVE  /\ issued[i] # None => issued[i].iat <= now
               /\ blacklist'[i] # None => /\ issued[i] # None
                                          /\ issued[i].iat <= blacklist'[i]
                                          /\ blacklist'[i] <= now
    BY <1>1, <1>2 DEF IInv, PastDates
  <2> QED
    BY <2>1 DEF IInv, PastDates
<1>6. HistoryComesLast'
  BY DEF IInv, HistoryComesLast
<1> QED
  BY <1>3, <1>4, <1>5, <1>6

\* A refresh uses its token up.
LEMMA InvalidateKeeps ==
    ASSUME IInv, NEW r \in Request, Invalidate(r)
    PROVE  IInv'
<1> DEFINE slot == [req[r] EXCEPT !.at = "issue"]
<1>1. /\ req' \in [Request -> RequestType] /\ req'[r] = slot
      /\ \A q \in Request \ {r} : req'[q] = req[q]
  BY GoSlot DEF IInv, Invalidate, Phases
<1>2. /\ req[r] \in RequestType /\ HandlerOK(req[r]) /\ req[r].at = "invalidate"
      /\ slot.at = "issue" /\ slot.jti = req[r].jti /\ slot.sid = req[r].sid
      /\ slot.iat = req[r].iat /\ slot.was = req[r].was
  BY DEF IInv, TypeOK, Handlers, RequestType, Invalidate
<1>3. ClaimsOf(req[r]) /\ (Unexpired(req[r].iat) => Excluded(req[r]))
  BY <1>2 DEF HandlerOK, Refreshing
<1>4. TypeOK' /\ Kept /\ PastDates' /\ HistoryComesLast'
  BY <1>1, <1>3, Blacklisted DEF Invalidate, ClaimsOf
<1>5. ClaimsOf(slot)'
  <2>1. blacklist'[req[r].jti] = now /\ now # None
    BY <1>3, SessionsAssumption DEF ClaimsOf, Invalidate, IInv, TypeOK
  <2> QED
    BY <1>1, <1>2, <1>3, <2>1 DEF ClaimsOf, Invalidate
<1>6. Unexpired(req[r].iat) => Excluded(slot)
  BY <1>2, <1>3 DEF Excluded
<1>7. HandlerOK(req[r])'
  BY <1>1, <1>2, <1>5, <1>6
     DEF HandlerOK, ClaimsOf, Excluded, EndingOf, Unexpired, Invalidate
<1> QED
  BY <1>1, <1>4, <1>7, MoveOne DEF IInv

\* A logout uses its token up and goes on to close the session.
LEMMA LogoutKeeps ==
    ASSUME IInv, NEW r \in Request, NEW j \in Jti, Logout(r, j)
    PROVE  IInv'
<1>1. issued[j] # None /\ issued[j].sid \in Sid
  BY DEF Logout, Held, IInv, TypeOK
<1>2. /\ req' \in [Request -> RequestType]
      /\ req'[r].at = "revoke" /\ req'[r].sid = issued[j].sid /\ req'[r].reason = "logout"
      /\ \A q \in Request \ {r} : req'[q] = req[q]
  BY <1>1, EndSlot DEF IInv, Logout, Phases, EndReasons, SessionReasons
<1>3. TypeOK' /\ Kept /\ PastDates' /\ HistoryComesLast'
  BY <1>1, <1>2, Blacklisted DEF Logout
<1>4. HandlerOK(req[r])'
  BY <1>1, <1>2 DEF HandlerOK, Refreshing, EndingOf, SessionReasons
<1> QED
  BY <1>2, <1>3, <1>4, MoveOne DEF IInv
\* Only history and its own slot change when a handler records an end.
LEMMA HistoryOnly ==
    ASSUME IInv, NEW r \in Request, Answer(r),
           UNCHANGED <<now, issued, blacklist, revoked, closed>>,
           history' \in [Sid -> {"none", "open"} \cup EndReasons], HistoryComesLast'
    PROVE  IInv'
<1>1. /\ req' \in [Request -> RequestType] /\ req'[r] = Idle
      /\ \A q \in Request \ {r} : req'[q] = req[q]
  BY AnswerSlot DEF IInv
<1>2. TypeOK' /\ Kept /\ PastDates'
  BY <1>1, SessionsAssumption DEF IInv, TypeOK, Kept, PastDates, Time
<1>3. HandlerOK(req[r])'
  BY <1>1 DEF HandlerOK, Idle, Refreshing, EndingOf
<1> QED
  BY <1>1, <1>2, <1>3, MoveOne DEF IInv

\* A session begins open.
LEMMA RecordStartKeeps ==
    ASSUME IInv, NEW r \in Request, RecordStart(r)
    PROVE  IInv'
<1>1. history' = [history EXCEPT ![req[r].sid] = "open"] /\ revoked' = revoked /\ closed' = closed
  BY DEF RecordStart
<1>2. history' \in [Sid -> {"none", "open"} \cup EndReasons]
  BY <1>1 DEF IInv, TypeOK
<1>3. HistoryComesLast'
  BY <1>1 DEF IInv, TypeOK, HistoryComesLast, SessionReasons, AllReasons
<1> QED
  BY <1>2, <1>3, HistoryOnly DEF RecordStart

\* The history says a session ended once Redis has it revoked.
LEMMA EndHistoryKeeps ==
    ASSUME IInv, NEW r \in Request, EndHistory(r)
    PROVE  IInv'
<1>1. req[r].sid \in Sid /\ req[r].reason \in SessionReasons /\ revoked[req[r].sid] # None
  BY DEF IInv, Handlers, HandlerOK, EndingOf, EndHistory
<1>2. /\ history' = [history EXCEPT ![req[r].sid] = IF @ = "open" THEN req[r].reason ELSE @]
      /\ revoked' = revoked /\ closed' = closed
  BY DEF EndHistory
<1>3. history' \in [Sid -> {"none", "open"} \cup EndReasons]
  BY <1>1, <1>2 DEF IInv, TypeOK, EndReasons
<1>4. HistoryComesLast'
  BY <1>1, <1>2 DEF IInv, TypeOK, HistoryComesLast, SessionReasons, AllReasons
<1> QED
  BY <1>3, <1>4, HistoryOnly DEF EndHistory

\* The history says every session ended once the mark is in Redis.
LEMMA EndAllHistoryKeeps ==
    ASSUME IInv, NEW r \in Request, EndAllHistory(r)
    PROVE  IInv'
<1>1. req[r].reason \in AllReasons /\ closed # None
  BY DEF IInv, Handlers, HandlerOK, EndingOf, EndAllHistory
<1>2. /\ history' = [s \in Sid |-> IF history[s] = "open" THEN req[r].reason ELSE history[s]]
      /\ revoked' = revoked /\ closed' = closed
  BY DEF EndAllHistory
<1>3. history' \in [Sid -> {"none", "open"} \cup EndReasons]
  BY <1>1, <1>2 DEF IInv, TypeOK, EndReasons
<1>4. HistoryComesLast'
  BY <1>1, <1>2 DEF IInv, TypeOK, HistoryComesLast, SessionReasons, AllReasons
<1> QED
  BY <1>3, <1>4, HistoryOnly DEF EndAllHistory

\* revoked and closed move only to now, which is no earlier.
LEMMA Revoked ==
    ASSUME IInv, NEW s \in Sid, revoked' = [revoked EXCEPT ![s] = now],
           UNCHANGED <<now, issued, blacklist, closed, history>>,
           req' \in [Request -> RequestType]
    PROVE  TypeOK' /\ Kept /\ PastDates' /\ HistoryComesLast' /\ revoked'[s] # None
<1>1. revoked \in [Sid -> Time] /\ now \in Nat /\ now \in Time /\ now # None
  BY SessionsAssumption DEF IInv, TypeOK, Time
<1>2. /\ revoked' \in [Sid -> Time] /\ revoked'[s] = now
      /\ \A t \in Sid \ {s} : revoked'[t] = revoked[t]
  BY <1>1
<1>3. TypeOK'
  BY <1>2 DEF IInv, TypeOK
<1>4. Kept
  <2>1. ASSUME NEW t \in Sid, revoked[t] # None
        PROVE  revoked'[t] # None /\ revoked[t] <= revoked'[t]
    <3>1. revoked[t] \in Nat /\ revoked[t] <= now
      BY <1>1, <2>1 DEF IInv, PastDates, Time
    <3> QED
      BY <1>1, <1>2, <2>1, <3>1
  <2> QED
    BY <1>1, <2>1 DEF Kept, IInv, TypeOK, Time
<1>5. PastDates'
  BY <1>1, <1>2 DEF IInv, PastDates
<1>6. HistoryComesLast'
  BY <1>1, <1>2 DEF IInv, HistoryComesLast
<1> QED
  BY <1>1, <1>2, <1>3, <1>4, <1>5, <1>6

\* revoke_session revokes before it records.
LEMMA RevokeKeeps ==
    ASSUME IInv, NEW r \in Request, Revoke(r)
    PROVE  IInv'
<1> DEFINE slot == [req[r] EXCEPT !.at = "end"]
<1>1. /\ req' \in [Request -> RequestType] /\ req'[r] = slot
      /\ \A q \in Request \ {r} : req'[q] = req[q]
  BY GoSlot DEF IInv, Revoke, Phases
<1>2. /\ req[r].sid \in Sid /\ req[r].reason \in SessionReasons
      /\ slot.at = "end" /\ slot.sid = req[r].sid /\ slot.reason = req[r].reason
  BY DEF IInv, TypeOK, Handlers, HandlerOK, EndingOf, RequestType, Revoke
<1>3. /\ TypeOK' /\ Kept /\ PastDates' /\ HistoryComesLast'
      /\ revoked'[req[r].sid] # None
  BY <1>1, <1>2, Revoked DEF Revoke
<1>4. HandlerOK(req[r])'
  BY <1>1, <1>2, <1>3 DEF HandlerOK, Refreshing, EndingOf
<1> QED
  BY <1>1, <1>3, <1>4, MoveOne DEF IInv

\* revoke_all sets the mark before it records.
LEMMA CloseAllKeeps ==
    ASSUME IInv, NEW r \in Request, NEW reason \in AllReasons, CloseAll(r, reason)
    PROVE  IInv'
<1>1. /\ req' \in [Request -> RequestType]
      /\ req'[r].at = "end_all" /\ req'[r].reason = reason
      /\ \A q \in Request \ {r} : req'[q] = req[q]
  BY EndSlot DEF IInv, CloseAll, Phases, EndReasons
<1>2. /\ closed' = now /\ now' = now /\ now \in Nat /\ now # None /\ closed \in Time
      /\ issued' = issued /\ blacklist' = blacklist /\ revoked' = revoked /\ history' = history
      /\ closed # None => closed <= now
  BY SessionsAssumption DEF CloseAll, IInv, TypeOK, PastDates
<1>3. TypeOK'
  BY <1>1, <1>2 DEF IInv, TypeOK, Time
<1>4. Kept
  BY <1>2 DEF Kept, IInv, TypeOK, Time
<1>5. PastDates' /\ HistoryComesLast'
  BY <1>2 DEF IInv, PastDates, HistoryComesLast
<1>6. HandlerOK(req[r])'
  BY <1>1, <1>2 DEF HandlerOK, Refreshing, EndingOf
<1> QED
  BY <1>1, <1>3, <1>4, <1>5, <1>6, MoveOne DEF IInv

-----------------------------------------------------------------------------
(* The invariant.                                                          *)

\* It holds at the start, when nobody signed in yet.
LEMMA InitIInv == ASSUME Init PROVE IInv
<1>1. Idle \in RequestType
  BY DEF Idle, RequestType, Phases, Time
<1>2. TypeOK
  BY <1>1 DEF Init, TypeOK, Time
<1>3. PastDates /\ HistoryComesLast
  BY DEF Init, PastDates, HistoryComesLast, SessionReasons, AllReasons
<1>4. Handlers
  BY DEF Init, Handlers, HandlerOK, Idle, Refreshing, EndingOf
<1> QED
  BY <1>2, <1>3, <1>4 DEF IInv

\* Every step keeps it.
LEMMA NextIInv == ASSUME IInv, [Next]_vars PROVE IInv'
<1>1. CASE UNCHANGED vars
  BY <1>1 DEF vars, IInv, TypeOK, PastDates, Handlers, HandlerOK, ClaimsOf, Excluded,
              EndingOf, Unexpired, HistoryComesLast
<1>2. CASE Tick
  BY <1>2, TickKeeps
<1>3. ASSUME NEW r \in Request, Step(r) PROVE IInv'
  <2>1. CASE Login(r)
    BY <2>1, LoginKeeps
  <2>2. CASE \E j \in Jti, s \in Sid : StartSession(r, j, s)
    BY <2>2, StartSessionKeeps
  <2>3. CASE RecordStart(r)
    BY <2>3, RecordStartKeeps
  <2>4. CASE \E j \in Jti : Refresh(r, j)
    BY <2>4, RefreshKeeps
  <2>5. CASE CheckBlacklist(r)
    BY <2>5, CheckBlacklistKeeps
  <2>6. CASE CheckRevoked(r)
    BY <2>6, CheckRevokedKeeps
  <2>7. CASE CheckMark(r)
    BY <2>7, CheckMarkKeeps
  <2>8. CASE Invalidate(r)
    BY <2>8, InvalidateKeeps
  <2>9. CASE \E j \in Jti : Issue(r, j)
    BY <2>9, IssueKeeps
  <2>10. CASE \E j \in Jti : Logout(r, j)
    BY <2>10, LogoutKeeps
  <2>11. CASE \E s \in Sid : LockSession(r, s)
    BY <2>11, EndKeeps DEF LockSession, ReadOnly, SessionReasons
  <2>12. CASE Revoke(r)
    BY <2>12, RevokeKeeps
  <2>13. CASE EndHistory(r)
    BY <2>13, EndHistoryKeeps
  <2>14. CASE \E reason \in AllReasons : CloseAll(r, reason)
    BY <2>14, CloseAllKeeps
  <2>15. CASE EndAllHistory(r)
    BY <2>15, EndAllHistoryKeeps
  <2>16. CASE Fail(r)
    BY <2>16, AnswerKeeps DEF Fail, ReadOnly
  <2> QED
    BY <1>3, <2>1, <2>2, <2>3, <2>4, <2>5, <2>6, <2>7, <2>8, <2>9, <2>10, <2>11,
       <2>12, <2>13, <2>14, <2>15, <2>16 DEF Step
<1> QED
  BY <1>1, <1>2, <1>3 DEF Next

\* The inductive invariant holds in every behaviour.
THEOREM Invariance == Spec => []IInv
<1>1. Init => IInv
  BY InitIInv
<1>2. IInv /\ [Next]_vars => IInv'
  BY NextIInv
<1> QED
  BY <1>1, <1>2, PTL DEF Spec

\* The clock, the Redis keys, the history and the handlers are well typed.
THEOREM TypeCorrect == Spec => []TypeOK
<1>1. IInv => TypeOK
  BY DEF IInv
<1> QED
  BY <1>1, Invariance, PTL

\* No handler of refresh, however many run at once and however long they take,
\* uses a token that was dead when it began, unless the token expired since:
\* each Redis key outlives the tokens it kills.
THEOREM DeadTokensStayDead == Spec => []OnlyLiveTokensRefresh
<1>1. ASSUME IInv, NEW r \in Request, req[r].at \in {"invalidate", "issue"},
             Unexpired(req[r].iat)
      PROVE  req[r].was = {}
  <2>1. Excluded(req[r]) /\ req[r].was \subseteq Deaths
    BY <1>1, SlotFacts DEF Refreshing, RequestType
  <2> QED
    BY <1>1, <2>1 DEF Excluded, Deaths
<1>2. IInv => OnlyLiveTokensRefresh
  BY <1>1 DEF OnlyLiveTokensRefresh
<1> QED
  BY <1>2, Invariance, PTL

\* A session the history calls ended was closed in Redis first, even if the
\* service dies between the two.
THEOREM RedisComesFirst == Spec => []HistoryComesLast
<1>1. IInv => HistoryComesLast
  BY DEF IInv
<1> QED
  BY <1>1, Invariance, PTL

-----------------------------------------------------------------------------
(* One handler at a time, and no refresh that outlasts its token.          *)

\* At most one handler is in flight: the request slots are one.
OneHandler == \A q, r \in Request : q = r

\* The refresh tokens of a session.
Of(s) == {j \in Jti : issued[j] # None /\ issued[j].sid = s}

\* Of the tokens of a session all but one were used.
OneLive == \A s \in Sid : \A i, j \in Of(s) : i = j \/ blacklist[i] # None \/ blacklist[j] # None

\* A session that was revoked got no token since.
NoneAfterRevoked == \A s \in Sid : revoked[s] # None => \A j \in Of(s) : issued[j].iat <= revoked[s]

\* "Close all" found all the tokens of a session, or the session began later.
SameSide ==
    closed # None =>
        \A s \in Sid : \A i, j \in Of(s) : issued[i].iat <= closed => issued[j].iat <= closed

\* The history calls no session closed that began after "close all".
EndedByAll ==
    \A s \in Sid : history[s] \in AllReasons => \A j \in Of(s) : issued[j].iat <= closed

\* What happened to a session happened to one that has tokens.
Begun == \A s \in Sid : Of(s) = {} => revoked[s] = None /\ history[s] = "none"

\* What Redis and the history tell of the tokens.
Tokens == OneLive /\ NoneAfterRevoked /\ SameSide /\ EndedByAll /\ Begun

\* What a handler found is still so, and a refresh is in time.
Knows(q) ==
    /\ q.at \in Refreshing => now < q.iat + RefreshTtl
    /\ q.at \in {"revoked", "mark", "invalidate"} => blacklist[q.jti] = None
    /\ q.at \in {"mark", "invalidate", "issue"} => revoked[q.sid] = None
    /\ q.at \in {"invalidate", "issue"} => closed = None \/ closed < q.iat
    /\ q.at = "issue" => \A j \in Of(q.sid) : blacklist[j] # None
    /\ q.at \in {"record", "revoke", "end"} => Of(q.sid) # {}
    /\ q.at = "end_all" => \A j \in Jti : issued[j] # None => issued[j].iat <= closed

\* The inductive invariant of one handler at a time.
Serial == IInv /\ Tokens /\ \A r \in Request : Knows(req[r])

\* What the type invariant says of the dates.
LEMMA Dates ==
    ASSUME IInv
    PROVE  /\ now \in Nat /\ now # None /\ RefreshTtl \in Nat \ {0}
           /\ closed # None => closed \in Nat /\ closed <= now
           /\ \A s \in Sid : revoked[s] # None => revoked[s] \in Nat /\ revoked[s] <= now
           /\ \A j \in Jti : /\ issued[j] # None =>
                                   /\ issued[j] \in [sid : Sid, iat : Nat]
                                   /\ issued[j].iat \in Nat /\ issued[j].iat <= now
                             /\ blacklist[j] # None =>
                                   /\ blacklist[j] \in Nat /\ issued[j] # None
                                   /\ issued[j].iat <= blacklist[j]
BY SessionsAssumption DEF IInv, TypeOK, PastDates, Time

\* The tokens of a session are tokens.
LEMMA OfFacts ==
    ASSUME IInv, NEW s \in Sid, NEW j \in Of(s)
    PROVE  j \in Jti /\ issued[j] # None /\ issued[j].sid = s /\ issued[j].iat \in Nat /\ issued[j].iat <= now
BY Dates DEF Of

\* A new session has no token.
LEMMA OnlyFreshIsEmpty == \A s : FreshSession(s) <=> Of(s) = {}
BY DEF FreshSession, Of

\* What the tables tell, when they stay.
LEMMA TokensStay ==
    ASSUME Tokens, UNCHANGED <<issued, blacklist, revoked, closed, history>>
    PROVE  Tokens'
<1>1. \A s : Of(s)' = Of(s)
  BY DEF Of
<1> QED
  BY <1>1 DEF Tokens, OneLive, NoneAfterRevoked, SameSide, EndedByAll, Begun

\* A handler that moves on keeps what it holds.
LEMMA GoKeepsFields ==
    ASSUME TypeOK, NEW r \in Request, NEW phase \in Phases, Go(r, phase)
    PROVE  /\ req'[r].at = phase /\ req'[r].jti = req[r].jti /\ req'[r].sid = req[r].sid
           /\ req'[r].iat = req[r].iat /\ req'[r].reason = req[r].reason
<1>1. req'[r] = [req[r] EXCEPT !.at = phase] /\ req[r] \in RequestType
  BY GoSlot DEF TypeOK
<1> QED
  BY <1>1 DEF RequestType

\* A handler that answered, or that only began, knows nothing.
LEMMA AnswerKnows ==
    ASSUME IInv, NEW r \in Request, Answer(r)
    PROVE  Knows(req[r])'
<1>1. req'[r].at = "idle"
  BY AnswerSlot DEF IInv, Idle
<1> QED
  BY <1>1 DEF Knows, Refreshing

\* A refresh that is in time is not fooled by a key that expired.
LEMMA KeysShow ==
    ASSUME Serial, NEW r \in Request, req[r].at \in Refreshing
    PROVE  /\ req[r].jti \in Jti /\ req[r].sid \in Sid /\ req[r].iat \in Nat
           /\ req[r].jti \in Of(req[r].sid) /\ issued[req[r].jti].iat = req[r].iat
           /\ Alive(blacklist[req[r].jti]) <=> blacklist[req[r].jti] # None
           /\ Alive(revoked[req[r].sid]) <=> revoked[req[r].sid] # None
           /\ BeforeClose(req[r].iat) <=> closed # None /\ req[r].iat <= closed
<1> DEFINE q == req[r]
<1>1. ClaimsOf(q) /\ now < q.iat + RefreshTtl
  BY DEF Serial, IInv, Handlers, HandlerOK, Knows
<1>2. /\ q.jti \in Jti /\ q.sid \in Sid /\ q.iat \in Nat
      /\ issued[q.jti] # None /\ issued[q.jti].sid = q.sid /\ issued[q.jti].iat = q.iat
  BY <1>1 DEF ClaimsOf
<1>3. q.jti \in Of(q.sid)
  BY <1>2 DEF Of
<1>4. /\ now \in Nat /\ RefreshTtl \in Nat
      /\ blacklist[q.jti] # None => blacklist[q.jti] \in Nat /\ q.iat <= blacklist[q.jti]
      /\ revoked[q.sid] # None => revoked[q.sid] \in Nat
      /\ closed # None => closed \in Nat
  BY <1>2, Dates DEF Serial
<1>5. revoked[q.sid] # None => q.iat <= revoked[q.sid]
  BY <1>2, <1>3 DEF Serial, Tokens, NoneAfterRevoked
<1> QED
  BY <1>1, <1>2, <1>3, <1>4, <1>5 DEF Alive, BeforeClose

-----------------------------------------------------------------------------
(* A refresh.                                                              *)

\* It begins in time.
LEMMA RefreshKnows ==
    ASSUME Serial, NEW r \in Request, NEW j \in Jti, Refresh(r, j)
    PROVE  Tokens' /\ Knows(req[r])'
<1>1. req'[r].at = "blacklist" /\ req'[r].iat = issued[j].iat /\ now' = now
  BY DEF Refresh, Serial, IInv, TypeOK
<1>2. now < issued[j].iat + RefreshTtl
  BY DEF Refresh, Unexpired
<1>3. Knows(req[r])'
  BY <1>1, <1>2 DEF Knows, Refreshing
<1> QED
  BY <1>3, TokensStay DEF Refresh, Serial

\* Each read it passes excludes one way in which its token would be dead.
LEMMA ReadsKnow ==
    ASSUME Serial, NEW r \in Request, CheckBlacklist(r) \/ CheckRevoked(r) \/ CheckMark(r)
    PROVE  Tokens' /\ Knows(req[r])'
<1>1. UNCHANGED <<now, issued, blacklist, revoked, closed, history>> /\ req[r].at \in Refreshing
      /\ Knows(req[r]) /\ IInv /\ TypeOK
  BY DEF CheckBlacklist, CheckRevoked, CheckMark, Refreshing, Serial, IInv
<1>2. Tokens'
  BY <1>1, TokensStay DEF Serial
<1>3. CASE CheckBlacklist(r)
  <2>1. CASE ~Alive(blacklist[req[r].jti]) /\ Go(r, "revoked")
    <3>1. /\ req'[r].at = "revoked" /\ req'[r].jti = req[r].jti /\ req'[r].sid = req[r].sid
          /\ req'[r].iat = req[r].iat
      BY <1>1, <2>1, GoKeepsFields DEF Phases
    <3>2. blacklist[req[r].jti] = None
      BY <1>1, <2>1, KeysShow
    <3> QED
      BY <1>1, <1>2, <3>1, <3>2 DEF Knows, Refreshing
  <2>2. CASE Answer(r)
    BY <1>1, <1>2, <2>2, AnswerKnows
  <2>3. CASE GoEnd(r, "revoke", req[r].sid, "refresh_token_reuse")
    <3>1. req[r].sid \in Sid /\ Of(req[r].sid) # {}
      BY <1>1, KeysShow
    <3>2. req'[r].at = "revoke" /\ req'[r].sid = req[r].sid
      BY <1>1, <2>3, <3>1, EndSlot DEF Phases, EndReasons, SessionReasons
    <3> QED
      BY <1>1, <1>2, <3>1, <3>2 DEF Knows, Refreshing, Of
  <2> QED
    BY <1>3, <2>1, <2>2, <2>3 DEF CheckBlacklist
<1>4. CASE CheckRevoked(r)
  <2>1. CASE Answer(r)
    BY <1>1, <1>2, <2>1, AnswerKnows
  <2>2. CASE ~Alive(revoked[req[r].sid]) /\ Go(r, "mark")
    <3>1. /\ req'[r].at = "mark" /\ req'[r].jti = req[r].jti /\ req'[r].sid = req[r].sid
          /\ req'[r].iat = req[r].iat
      BY <1>1, <2>2, GoKeepsFields DEF Phases
    <3>2. revoked[req[r].sid] = None /\ req[r].at = "revoked"
      BY <1>1, <1>4, <2>2, KeysShow DEF CheckRevoked
    <3> QED
      BY <1>1, <1>2, <3>1, <3>2 DEF Knows, Refreshing
  <2> QED
    BY <1>4, <2>1, <2>2 DEF CheckRevoked
<1>5. CASE CheckMark(r)
  <2>1. CASE Answer(r)
    BY <1>1, <1>2, <2>1, AnswerKnows
  <2>2. CASE ~BeforeClose(req[r].iat) /\ Go(r, "invalidate")
    <3>1. /\ req'[r].at = "invalidate" /\ req'[r].jti = req[r].jti /\ req'[r].sid = req[r].sid
          /\ req'[r].iat = req[r].iat
      BY <1>1, <2>2, GoKeepsFields DEF Phases
    <3>2. (closed = None \/ closed < req[r].iat) /\ req[r].at = "mark"
      BY <1>1, <1>5, <2>2, KeysShow, Dates DEF CheckMark
    <3> QED
      BY <1>1, <1>2, <3>1, <3>2 DEF Knows, Refreshing
  <2> QED
    BY <1>5, <2>1, <2>2 DEF CheckMark
<1> QED
  BY <1>3, <1>4, <1>5

\* A token that was live is used up: with it, all those of its session are.
LEMMA InvalidateKnows ==
    ASSUME Serial, NEW r \in Request, Invalidate(r)
    PROVE  Tokens' /\ Knows(req[r])'
<1> DEFINE j == req[r].jti
           s == req[r].sid
<1>1. /\ req[r].at = "invalidate" /\ UNCHANGED <<now, issued, revoked, closed, history>>
      /\ blacklist' = [blacklist EXCEPT ![j] = now] /\ Go(r, "issue") /\ Knows(req[r])
      /\ IInv /\ TypeOK
  BY DEF Invalidate, Serial, IInv
<1>2. j \in Jti /\ s \in Sid /\ j \in Of(s)
  BY <1>1, KeysShow DEF Refreshing
<1>3. /\ blacklist'[j] # None
      /\ \A i \in Jti \ {j} : blacklist'[i] = blacklist[i]
  BY <1>1, <1>2, Dates DEF TypeOK
<1>4. \A t : Of(t)' = Of(t)
  BY <1>1 DEF Of
<1>5. \A t : Of(t) \subseteq Jti
  BY DEF Of
<1>6. OneLive'
  BY <1>3, <1>4, <1>5 DEF Serial, Tokens, OneLive
<1>7. Tokens'
  BY <1>1, <1>4, <1>6 DEF Serial, Tokens, NoneAfterRevoked, SameSide, EndedByAll, Begun
<1>8. blacklist[j] = None
  BY <1>1 DEF Knows
<1>9. \A i \in Of(s) : blacklist'[i] # None
  BY <1>2, <1>3, <1>5, <1>8 DEF Serial, Tokens, OneLive
<1>10. req'[r].at = "issue" /\ req'[r].sid = s /\ req'[r].iat = req[r].iat
  BY <1>1, GoKeepsFields DEF Phases
<1>11. Of(req[r].sid)' = Of(s)
  BY <1>1, <1>10 DEF Of
<1> QED
  BY <1>1, <1>7, <1>9, <1>10, <1>11 DEF Knows, Refreshing

\* A new token of a session that is neither revoked nor closed, and of which
\* every other token was used.
LEMMA OneMoreToken ==
    ASSUME Serial, NEW k \in Jti, Fresh(k), NEW s \in Sid,
           issued' = [issued EXCEPT ![k] = [sid |-> s, iat |-> now]],
           UNCHANGED <<now, blacklist, revoked, closed, history>>,
           revoked[s] = None, history[s] \notin AllReasons,
           \A j \in Of(s) : blacklist[j] # None,
           closed # None => \A j \in Of(s) : closed < issued[j].iat
    PROVE  Tokens'
<1> DEFINE token == [sid |-> s, iat |-> now]
<1>1. token.sid = s /\ token.iat = now /\ token # None /\ issued[k] = None
      /\ issued'[k] = token /\ \A i \in Jti \ {k} : issued'[i] = issued[i]
  <2>1. now \in Nat /\ token \in [sid : Sid, iat : Nat]
    BY Dates DEF Serial
  <2> QED
    BY <2>1, SessionsAssumption DEF Serial, IInv, TypeOK, Fresh
<1> HIDE DEF token
<1>2. Of(s)' = Of(s) \cup {k} /\ k \notin Of(s)
  BY <1>1 DEF Of
<1>3. \A t \in Sid \ {s} : Of(t)' = Of(t) /\ k \notin Of(t)
  BY <1>1 DEF Of
<1>4. \A t \in Sid : \A j \in Of(t) : j \in Jti /\ issued'[j] = issued[j]
  BY <1>1, <1>2, <1>3 DEF Of
<1>5. OneLive'
  BY <1>2, <1>3 DEF Serial, Tokens, OneLive
<1>6. NoneAfterRevoked'
  BY <1>3, <1>4 DEF Serial, Tokens, NoneAfterRevoked
<1>7. SameSide'
  <2> SUFFICES ASSUME closed # None, NEW t \in Sid, NEW i \in Of(t)', NEW j \in Of(t)',
                      issued'[i].iat <= closed
               PROVE  issued'[j].iat <= closed
    BY DEF SameSide
  <2>1. CASE t # s
    BY <1>3, <1>4, <2>1 DEF Serial, Tokens, SameSide
  <2>2. CASE t = s
    <3>1. now \in Nat /\ closed \in Nat /\ closed <= now
          /\ \A x \in Of(s) : issued[x].iat \in Nat /\ closed < issued[x].iat
      BY Dates, OfFacts DEF Serial
    <3>2. i = k
      BY <1>2, <1>4, <2>2, <3>1
    <3>3. j = k \/ j \in Of(s)
      BY <1>2, <2>2
    <3>4. CASE j = k
      BY <3>2, <3>4
    <3>5. CASE j \in Of(s)
      <4>1. issued[j].iat <= now
        BY <3>5, OfFacts DEF Serial
      <4>2. now <= closed
        BY <1>1, <3>2
      <4> QED
        BY <3>1, <3>5, <4>1, <4>2
    <3> QED
      BY <3>3, <3>4, <3>5
  <2> QED
    BY <2>1, <2>2
<1>8. EndedByAll'
  BY <1>3, <1>4 DEF Serial, Tokens, EndedByAll
<1>9. Begun'
  BY <1>2, <1>3 DEF Serial, Tokens, Begun
<1> QED
  BY <1>5, <1>6, <1>7, <1>8, <1>9 DEF Tokens

\* The token a refresh gives is the one key of its session.
LEMMA IssueKnows ==
    ASSUME Serial, NEW r \in Request, NEW k \in Jti, Issue(r, k)
    PROVE  Tokens' /\ Knows(req[r])'
<1> DEFINE s == req[r].sid
           i == req[r].jti
<1>1. /\ req[r].at = "issue" /\ Answer(r) /\ IInv /\ Knows(req[r])
  BY DEF Issue, Serial
<1>2. s \in Sid /\ i \in Of(s) /\ issued[i].iat = req[r].iat /\ req[r].iat \in Nat
  BY <1>1, KeysShow DEF Refreshing
<1>3. revoked[s] = None /\ (closed = None \/ closed < req[r].iat) /\ \A j \in Of(s) : blacklist[j] # None
  BY <1>1 DEF Knows
<1>4. closed # None => \A j \in Of(s) : closed < issued[j].iat
  <2> SUFFICES ASSUME closed # None, NEW j \in Of(s) PROVE closed < issued[j].iat
    OBVIOUS
  <2>1. closed \in Nat /\ issued[j].iat \in Nat
    BY <1>1, <1>2, Dates, OfFacts
  <2>2. ~(issued[i].iat <= closed)
    BY <1>2, <1>3, <2>1
  <2>3. ~(issued[j].iat <= closed)
    BY <1>2, <2>2 DEF Serial, Tokens, SameSide
  <2> QED
    BY <2>1, <2>3
<1>5. history[s] \notin AllReasons
  <2> SUFFICES ASSUME history[s] \in AllReasons PROVE FALSE
    OBVIOUS
  <2>1. issued[i].iat <= closed /\ closed # None
    BY <1>1, <1>2 DEF Serial, Tokens, EndedByAll, IInv, HistoryComesLast
  <2>2. closed \in Nat /\ closed < req[r].iat
    BY <1>1, <1>3, <2>1, Dates
  <2> QED
    BY <1>2, <2>1, <2>2
<1>6. Tokens'
  BY <1>2, <1>3, <1>4, <1>5, OneMoreToken DEF Issue
<1> QED
  BY <1>1, <1>6, AnswerKnows

-----------------------------------------------------------------------------
(* A session begins, and ends.                                             *)

\* A login.
LEMMA SignInKnows ==
    ASSUME Serial, NEW r \in Request,
           Login(r) \/ (\E j \in Jti, s \in Sid : StartSession(r, j, s)) \/ RecordStart(r)
    PROVE  Tokens' /\ Knows(req[r])'
<1>0. IInv /\ TypeOK /\ Knows(req[r])
  BY DEF Serial, IInv
<1>1. CASE Login(r)
  <2>1. req'[r].at = "login"
    BY <1>0, <1>1, GoKeepsFields DEF Login, Phases
  <2>2. Knows(req[r])'
    BY <2>1 DEF Knows, Refreshing
  <2> QED
    BY <1>1, <2>2, TokensStay DEF Login, Serial
<1>2. ASSUME NEW j \in Jti, NEW s \in Sid, StartSession(r, j, s)
      PROVE  Tokens' /\ Knows(req[r])'
  <2>1. req'[r].at = "record" /\ req'[r].sid = s
    BY <1>0, <1>2, EndSlot DEF StartSession, Phases
  <2>2. Of(s) = {}
    BY <1>2, OnlyFreshIsEmpty DEF StartSession
  <2>3. revoked[s] = None /\ history[s] = "none"
    BY <2>2 DEF Serial, Tokens, Begun
  <2>4. Tokens'
    BY <1>2, <2>2, <2>3, OneMoreToken DEF StartSession, AllReasons
  <2>5. issued'[j] = [sid |-> s, iat |-> now] /\ [sid |-> s, iat |-> now] # None
    BY <1>0, <1>2, Dates, SessionsAssumption DEF StartSession, TypeOK
  <2>6. j \in Of(req[r].sid)'
    BY <2>1, <2>5 DEF Of
  <2>7. Knows(req[r])'
    BY <2>1, <2>6 DEF Knows, Refreshing
  <2> QED
    BY <2>4, <2>7
<1>3. CASE RecordStart(r)
  <2>1. /\ Of(req[r].sid) # {} /\ UNCHANGED <<issued, blacklist, revoked, closed>>
        /\ history' = [history EXCEPT ![req[r].sid] = "open"]
    BY <1>0, <1>3 DEF RecordStart, Knows
  <2>2. \A t : Of(t)' = Of(t)
    BY <2>1 DEF Of
  <2>3. \A t \in Sid : history'[t] \in AllReasons => history[t] \in AllReasons
    BY <1>0, <2>1 DEF TypeOK, AllReasons
  <2>4. \A t \in Sid : Of(t) = {} => history'[t] = history[t]
    BY <1>0, <2>1 DEF TypeOK
  <2>5. Tokens'
    BY <2>1, <2>2, <2>3, <2>4 DEF Serial, Tokens, OneLive, NoneAfterRevoked, SameSide, EndedByAll, Begun
  <2> QED
    BY <1>0, <1>3, <2>5, AnswerKnows DEF RecordStart
<1> QED
  BY <1>1, <1>2, <1>3

\* A session that will be revoked has tokens.
LEMMA EndsKnow ==
    ASSUME Serial, NEW r \in Request,
           (\E j \in Jti : Logout(r, j)) \/ (\E s \in Sid : LockSession(r, s))
    PROVE  Tokens' /\ Knows(req[r])'
<1>0. IInv /\ TypeOK
  BY DEF Serial, IInv
<1>1. ASSUME NEW j \in Jti, Logout(r, j)
      PROVE  Tokens' /\ Knows(req[r])'
  <2>1. issued[j] # None /\ issued[j].sid \in Sid /\ j \in Of(issued[j].sid)
    BY <1>0, <1>1, Dates DEF Logout, Held, Of
  <2>2. req'[r].at = "revoke" /\ req'[r].sid = issued[j].sid
    BY <1>0, <1>1, <2>1, EndSlot DEF Logout, Phases, EndReasons, SessionReasons
  <2>3. UNCHANGED <<issued, revoked, closed, history>> /\ blacklist' = [blacklist EXCEPT ![j] = now]
    BY <1>1 DEF Logout
  <2>4. \A t : Of(t)' = Of(t) /\ Of(t) \subseteq Jti
    BY <2>3 DEF Of
  <2>5. \A i \in Jti : blacklist[i] # None => blacklist'[i] # None
    BY <1>0, <2>3, Dates DEF TypeOK
  <2>6. Tokens'
    BY <2>3, <2>4, <2>5 DEF Serial, Tokens, OneLive, NoneAfterRevoked, SameSide, EndedByAll, Begun
  <2>7. Of(req[r].sid)' # {}
    BY <2>1, <2>2, <2>3 DEF Of
  <2> QED
    BY <2>2, <2>6, <2>7 DEF Knows, Refreshing
<1>2. ASSUME NEW s \in Sid, LockSession(r, s)
      PROVE  Tokens' /\ Knows(req[r])'
  <2>1. Of(s) # {} /\ UNCHANGED <<issued, blacklist, revoked, closed, history>>
    BY <1>2 DEF LockSession, Signed, Held, Of
  <2>2. req'[r].at = "revoke" /\ req'[r].sid = s
    BY <1>0, <1>2, EndSlot DEF LockSession, Phases, EndReasons, SessionReasons
  <2>3. Of(req[r].sid)' # {}
    BY <2>1, <2>2 DEF Of
  <2>4. Knows(req[r])'
    BY <2>2, <2>3 DEF Knows, Refreshing
  <2> QED
    BY <2>1, <2>4, TokensStay DEF Serial
<1> QED
  BY <1>1, <1>2

\* revoke_session revokes a session all of whose tokens were issued before.
LEMMA RevokeKnows ==
    ASSUME Serial, NEW r \in Request, Revoke(r) \/ EndHistory(r)
    PROVE  Tokens' /\ Knows(req[r])'
<1>0. IInv /\ TypeOK /\ Knows(req[r]) /\ req[r].sid \in Sid /\ Of(req[r].sid) # {}
  BY DEF Serial, IInv, Handlers, HandlerOK, EndingOf, Revoke, EndHistory, Knows
<1>1. CASE Revoke(r)
  <2>1. UNCHANGED <<issued, blacklist, closed, history>> /\ Go(r, "end")
        /\ revoked' = [revoked EXCEPT ![req[r].sid] = now]
    BY <1>1 DEF Revoke
  <2>2. \A t : Of(t)' = Of(t)
    BY <2>1 DEF Of
  <2>3. /\ revoked'[req[r].sid] = now
        /\ \A t \in Sid \ {req[r].sid} : revoked'[t] = revoked[t]
    BY <1>0, <2>1 DEF TypeOK
  <2>4. NoneAfterRevoked'
    BY <1>0, <2>1, <2>2, <2>3, OfFacts DEF Serial, Tokens, NoneAfterRevoked
  <2>5. Begun'
    BY <1>0, <2>1, <2>2, <2>3 DEF Serial, Tokens, Begun
  <2>6. Tokens'
    BY <2>1, <2>2, <2>4, <2>5 DEF Serial, Tokens, OneLive, SameSide, EndedByAll
  <2>7. req'[r].at = "end" /\ req'[r].sid = req[r].sid
    BY <1>0, <2>1, GoKeepsFields DEF Phases
  <2>8. Of(req[r].sid)' # {}
    BY <1>0, <2>1, <2>7 DEF Of
  <2> QED
    BY <2>6, <2>7, <2>8 DEF Knows, Refreshing
<1>2. CASE EndHistory(r)
  <2>1. UNCHANGED <<issued, blacklist, revoked, closed>> /\ Answer(r)
        /\ history' = [history EXCEPT ![req[r].sid] = IF @ = "open" THEN req[r].reason ELSE @]
        /\ req[r].reason \in SessionReasons
    BY <1>2 DEF EndHistory, Serial, IInv, Handlers, HandlerOK, EndingOf
  <2>2. \A t : Of(t)' = Of(t)
    BY <2>1 DEF Of
  <2>3. \A t \in Sid : history'[t] \in AllReasons => history[t] \in AllReasons
    BY <1>0, <2>1 DEF TypeOK, AllReasons, SessionReasons
  <2>4. \A t \in Sid : Of(t) = {} => history'[t] = history[t]
    BY <1>0, <2>1 DEF TypeOK
  <2>5. Tokens'
    BY <2>1, <2>2, <2>3, <2>4 DEF Serial, Tokens, OneLive, NoneAfterRevoked, SameSide, EndedByAll, Begun
  <2> QED
    BY <1>0, <2>1, <2>5, AnswerKnows
<1> QED
  BY <1>1, <1>2

\* revoke_all closes every token there is, and records that of the sessions
\* that had begun.
LEMMA CloseAllKnows ==
    ASSUME Serial, NEW r \in Request,
           (\E reason \in AllReasons : CloseAll(r, reason)) \/ EndAllHistory(r)
    PROVE  Tokens' /\ Knows(req[r])'
<1>0. IInv /\ TypeOK /\ Knows(req[r])
  BY DEF Serial, IInv
<1>1. ASSUME NEW reason \in AllReasons, CloseAll(r, reason)
      PROVE  Tokens' /\ Knows(req[r])'
  <2>1. UNCHANGED <<now, issued, blacklist, revoked, history>> /\ closed' = now
    BY <1>1 DEF CloseAll
  <2>2. req'[r].at = "end_all"
    BY <1>0, <1>1, EndSlot DEF CloseAll, Phases, EndReasons
  <2>3. \A t : Of(t)' = Of(t)
    BY <2>1 DEF Of
  <2>4. \A t \in Sid : \A j \in Of(t) : issued[j].iat <= now
    BY <1>0, OfFacts
  <2>5. Tokens'
    BY <2>1, <2>3, <2>4 DEF Serial, Tokens, OneLive, NoneAfterRevoked, SameSide, EndedByAll, Begun
  <2>6. \A j \in Jti : issued'[j] # None => issued'[j].iat <= closed'
    BY <1>0, <2>1, Dates
  <2> QED
    BY <2>2, <2>5, <2>6 DEF Knows, Refreshing
<1>2. CASE EndAllHistory(r)
  <2>1. UNCHANGED <<issued, blacklist, revoked, closed>> /\ Answer(r)
        /\ history' = [s \in Sid |-> IF history[s] = "open" THEN req[r].reason ELSE history[s]]
        /\ \A j \in Jti : issued[j] # None => issued[j].iat <= closed
    BY <1>0, <1>2 DEF EndAllHistory, Knows
  <2>2. \A t : Of(t)' = Of(t)
    BY <2>1 DEF Of
  <2>3. EndedByAll'
    BY <2>1, <2>2 DEF EndedByAll, Of
  <2>4. Tokens'
    BY <2>1, <2>2, <2>3 DEF Serial, Tokens, OneLive, NoneAfterRevoked, SameSide, Begun
  <2> QED
    BY <1>0, <2>1, <2>4, AnswerKnows
<1> QED
  BY <1>1, <1>2

-----------------------------------------------------------------------------
(* The inductive invariant, and what follows from it.                      *)

\* No step of a handler makes what Redis tells untrue, or what the handler knows.
LEMMA StepKnows ==
    ASSUME Serial, NEW r \in Request, Step(r)
    PROVE  Tokens' /\ Knows(req[r])'
<1>1. CASE Fail(r)
  BY <1>1, AnswerKnows, TokensStay DEF Fail, Serial
<1> QED
  BY <1>1, RefreshKnows, ReadsKnow, InvalidateKnows, IssueKnows, SignInKnows, EndsKnow, RevokeKnows,
     CloseAllKnows
  DEF Step

\* At first no session has begun.
LEMMA SerialInit == Init => Serial
<1> SUFFICES ASSUME Init PROVE Serial
  OBVIOUS
<1>1. \A s : Of(s) = {}
  BY DEF Init, Of
<1>2. Tokens
  BY <1>1 DEF Init, Tokens, OneLive, NoneAfterRevoked, SameSide, EndedByAll, Begun, AllReasons
<1>3. \A r \in Request : Knows(req[r])
  BY DEF Init, Idle, Knows, Refreshing
<1> QED
  BY <1>2, <1>3, InitIInv DEF Serial

\* No step breaks it, the clock's included.
LEMMA SerialStep == ASSUME OneHandler, Serial, [PromptNext]_vars PROVE Serial'
<1>0. IInv'
  BY NextIInv DEF Serial, PromptNext
<1>1. ASSUME NEW r \in Request, Step(r) PROVE Serial'
  <2>1. Tokens' /\ Knows(req[r])'
    BY <1>1, StepKnows
  <2>2. \A q \in Request : q = r
    BY DEF OneHandler
  <2>3. (\A q \in Request : Knows(req[q]))'
    BY <2>1, <2>2
  <2> QED
    BY <1>0, <2>1, <2>3 DEF Serial
<1>2. CASE Tick /\ PromptNext
  <2>1. UNCHANGED <<issued, blacklist, revoked, closed, history, req>>
    BY <1>2 DEF Tick
  <2>2. Tokens' /\ \A t : Of(t)' = Of(t)
    BY <2>1, TokensStay DEF Serial, Of
  <2>3. ASSUME NEW q \in Request PROVE Knows(req[q])'
    <3>1. Knows(req[q]) /\ Of(req[q].sid)' = Of(req[q].sid)
      BY <2>1 DEF Serial, Of
    <3>2. req[q].at \in Refreshing => now' < req[q].iat + RefreshTtl
      BY <1>2 DEF PromptNext
    <3> QED
      BY <2>1, <3>1, <3>2 DEF Knows
  <2> QED
    BY <1>0, <2>2, <2>3 DEF Serial
<1>3. CASE UNCHANGED vars
  <2>1. Tokens'
    BY <1>3, TokensStay DEF Serial, vars
  <2>2. ASSUME NEW q \in Request PROVE Knows(req[q])'
    <3>1. Knows(req[q]) /\ Of(req[q].sid)' = Of(req[q].sid)
      BY <1>3 DEF Serial, Of, vars
    <3> QED
      BY <1>3, <3>1 DEF Knows, vars
  <2> QED
    BY <1>0, <2>1, <2>2 DEF Serial
<1> QED
  BY <1>1, <1>2, <1>3 DEF PromptNext, Next

\* The invariant holds in every state, when handlers come one at a time and no
\* refresh outlasts its token.
THEOREM SerialHolds == ASSUME OneHandler PROVE PromptSpec => []Serial
<1>1. Init => Serial
  BY SerialInit
<1>2. Serial /\ [PromptNext]_vars => Serial'
  BY SerialStep
<1> QED
  BY <1>1, <1>2, PTL DEF PromptSpec

\* A token that refresh accepts was neither used nor revoked nor closed, ever:
\* no key that killed it can have expired.
LEMMA AcceptedFacts ==
    ASSUME Serial, NEW j \in Jti, Accepted(j)
    PROVE  /\ issued[j].sid \in Sid /\ j \in Of(issued[j].sid)
           /\ blacklist[j] = None /\ revoked[issued[j].sid] = None
           /\ closed # None => closed \in Nat /\ closed < issued[j].iat
<1>1. /\ issued[j] # None /\ now < issued[j].iat + RefreshTtl /\ ~Alive(blacklist[j])
      /\ ~Alive(revoked[issued[j].sid]) /\ ~BeforeClose(issued[j].iat)
  BY DEF Accepted, Held, Unexpired
<1>2. /\ now \in Nat /\ RefreshTtl \in Nat /\ issued[j].iat \in Nat /\ issued[j].sid \in Sid
      /\ blacklist[j] # None => blacklist[j] \in Nat /\ issued[j].iat <= blacklist[j]
      /\ revoked[issued[j].sid] # None => revoked[issued[j].sid] \in Nat
      /\ closed # None => closed \in Nat
  BY <1>1, Dates DEF Serial
<1>3. j \in Of(issued[j].sid)
  BY <1>1 DEF Of
<1>4. revoked[issued[j].sid] # None => issued[j].iat <= revoked[issued[j].sid]
  BY <1>2, <1>3 DEF Serial, Tokens, NoneAfterRevoked
<1>5. blacklist[j] = None /\ revoked[issued[j].sid] = None
  BY <1>1, <1>2, <1>4 DEF Alive
<1>6. closed # None => closed < issued[j].iat
  BY <1>1, <1>2 DEF Alive, BeforeClose
<1> QED
  BY <1>2, <1>3, <1>5, <1>6

\* A session that was revoked stays closed after its Redis key expired: every
\* token it ever had expired before.
THEOREM RevokedForGood == ASSUME OneHandler PROVE PromptSpec => []RevokedStaysRevoked
<1>1. Serial => RevokedStaysRevoked
  BY AcceptedFacts DEF RevokedStaysRevoked
<1> QED
  BY <1>1, SerialHolds, PTL

\* A session has one key: refresh accepts at most one of its tokens, the last.
THEOREM OneKey == ASSUME OneHandler PROVE PromptSpec => []OneKeyPerSession
<1>1. Serial => OneKeyPerSession
  BY AcceptedFacts DEF OneKeyPerSession, Serial, Tokens, OneLive
<1> QED
  BY <1>1, SerialHolds, PTL

\* "Close all" and a new password close every session that had begun.
THEOREM ClosedForGood == ASSUME OneHandler PROVE PromptSpec => []ClosedStaysClosed
<1>1. ASSUME Serial, NEW i \in Jti, NEW j \in Jti, Accepted(j), issued[i] # None,
             issued[i].sid = issued[j].sid, closed # None
      PROVE  issued[i].iat > closed
  <2>1. /\ issued[j].sid \in Sid /\ j \in Of(issued[j].sid) /\ i \in Of(issued[j].sid)
        /\ closed \in Nat /\ closed < issued[j].iat
    BY <1>1, AcceptedFacts DEF Of
  <2>2. issued[i].iat \in Nat /\ issued[j].iat \in Nat
    BY <1>1, <2>1, OfFacts DEF Serial
  <2>3. ~(issued[i].iat <= closed)
    BY <1>1, <2>1, <2>2 DEF Serial, Tokens, SameSide
  <2> QED
    BY <2>1, <2>2, <2>3
<1>2. Serial => ClosedStaysClosed
  BY <1>1 DEF ClosedStaysClosed
<1> QED
  BY <1>2, SerialHolds, PTL

\* A session the history calls ended takes no token any more.
THEOREM HistoryIsTrue == ASSUME OneHandler PROVE PromptSpec => []HistoryTellsTruth
<1>1. ASSUME Serial, NEW j \in Jti, Accepted(j)
      PROVE  history[issued[j].sid] = "open"
  <2> DEFINE s == issued[j].sid
  <2>1. /\ s \in Sid /\ j \in Of(s) /\ revoked[s] = None
        /\ closed # None => closed \in Nat /\ closed < issued[j].iat
    BY <1>1, AcceptedFacts
  <2>2. history[s] \in {"none", "open"} \cup EndReasons /\ history[s] # "none" /\ issued[j].iat \in Nat
    BY <1>1, <2>1, OfFacts DEF Serial, IInv, TypeOK, Accepted, Held
  <2>3. history[s] \notin SessionReasons
    BY <1>1, <2>1 DEF Serial, IInv, HistoryComesLast
  <2>4. ASSUME history[s] \in AllReasons PROVE FALSE
    <3>1. closed # None /\ issued[j].iat <= closed
      BY <1>1, <2>1, <2>4 DEF Serial, IInv, HistoryComesLast, Tokens, EndedByAll
    <3> QED
      BY <2>1, <2>2, <3>1
  <2> QED
    BY <2>2, <2>3, <2>4 DEF EndReasons
<1>2. Serial => HistoryTellsTruth
  BY <1>1 DEF HistoryTellsTruth
<1> QED
  BY <1>2, SerialHolds, PTL
=============================================================================
