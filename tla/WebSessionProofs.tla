-------------------------- MODULE WebSessionProofs --------------------------
(***************************************************************************)
(* What the session of the web app promises, for any number of tabs,       *)
(* requests, people and sessions, proved for every interleaving of the     *)
(* tabs, the services and the answers that are lost.                       *)
(***************************************************************************)
EXTENDS WebSession, SequenceTheorems, TLAPS

-----------------------------------------------------------------------------
(* What the helpers do to one record.                                      *)

LEMMA EndedSession ==
    ASSUME NEW s \in Session
    PROVE  Ended(s) \in Session /\ ~Ended(s).live
  BY Zenon DEF Session, Ended

LEMMA SetSession ==
    ASSUME NEW rec \in TabState, NEW s \in {0} \cup Sid, NEW mfa \in BOOLEAN
    PROVE  /\ setSession(rec, s, mfa) \in TabState
           /\ setSession(rec, s, mfa).asking = (rec.asking /\ mfa)
           /\ setSession(rec, s, mfa).portal = (rec.portal /\ mfa)
  BY Zenon DEF TabState, setSession

LEMMA ClearSession ==
    ASSUME NEW rec \in TabState
    PROVE  clearSession(rec) \in TabState
<1>1. 0 \in {0} \cup Sid /\ {} \in SUBSET Person
  OBVIOUS
<1> QED
  BY <1>1, Zenon DEF TabState, clearSession

LEMMA SentAgain ==
    ASSUME NEW r \in CallState, NEW renewed \in BOOLEAN, NEW coded \in BOOLEAN
    PROVE  /\ SendAgain(r, renewed, coded) \in CallState
           /\ SendAgain(r, renewed, coded).at = "out"
           /\ SendAgain(r, renewed, coded).isRetry = (r.isRetry \/ renewed)
           /\ SendAgain(r, renewed, coded).isRetry2fa = (r.isRetry2fa \/ coded)
           /\ SendAgain(r, renewed, coded).sends = r.sends + 1
           /\ SendAgain(r, renewed, coded).done = r.done
<1>1. r.sends + 1 \in Nat
  BY DEF CallState
<1> QED
  BY <1>1, Zenon DEF CallState, SendAgain

\* A sequence with another session in its place is a sequence of sessions.
LEMMA OneChanged ==
    ASSUME NEW srv \in Seq(Session), NEW s \in Nat, NEW new, s \in 1..Len(srv) => new \in Session
    PROVE  /\ [srv EXCEPT ![s] = new] \in Seq(Session)
           /\ Len([srv EXCEPT ![s] = new]) = Len(srv)
           /\ \A i \in 1..Len(srv) : [srv EXCEPT ![s] = new][i] = IF i = s THEN new ELSE srv[i]
<1>1. CASE s \in 1..Len(srv)
  BY <1>1, ExceptSeq
<1>2. CASE s \notin 1..Len(srv)
  <2>1. srv = [i \in 1..Len(srv) |-> srv[i]]
    OBVIOUS
  <2>2. [srv EXCEPT ![s] = new] = srv
    BY <1>2, <2>1
  <2> QED
    BY <1>2, <2>2
<1> QED
  BY <1>1, <1>2

LEMMA NothingYet ==
    /\ NoTab \in TabState
    /\ NoCall \in CallState
    /\ NoCookie \in Cookie
    /\ NoCookie.sid = 0
    /\ NoCall.at = "idle" /\ NoCall.sends = 0 /\ NoCall.done = 0
    /\ ~NoTab.asking /\ ~NoTab.portal
  BY DEF NoTab, TabState, NoCall, CallState, NoCookie, Cookie

-----------------------------------------------------------------------------
(* The sessions of identity-service.                                       *)

\* Sessions are added by a login, never taken away, and one that is over stays
\* over.
Stay ==
    /\ server' \in Seq(Session) /\ Len(server') <= MaxSessions
    /\ Len(server) <= Len(server')
    /\ Len(server') = Len(server) \/ \E t \in Tab, p \in Person : Login(t, p)
    /\ \A s \in 1..Len(server) : server'[s].live => server[s].live

LEMMA OneSession ==
    ASSUME TypeOK, NEW s \in Nat, NEW new, server' = [server EXCEPT ![s] = new],
           s \in 1..Len(server) => new \in Session /\ (new.live => server[s].live)
    PROVE  Stay
<1>1. server \in Seq(Session) /\ Len(server) <= MaxSessions /\ Len(server) \in Nat /\ MaxSessions \in Nat
  BY WebSessionAssumption DEF TypeOK
<1>2. /\ server' \in Seq(Session) /\ Len(server') = Len(server)
      /\ \A i \in 1..Len(server) : server'[i] = IF i = s THEN new ELSE server[i]
  BY <1>1, OneChanged
<1> QED
  BY <1>1, <1>2 DEF Stay

LEMMA SameSessions == ASSUME TypeOK, UNCHANGED server PROVE Stay
<1>1. server \in Seq(Session) /\ Len(server) <= MaxSessions /\ Len(server) \in Nat
  BY DEF TypeOK
<1> QED
  BY <1>1 DEF Stay

LEMMA SessionOf ==
    ASSUME TypeOK, NEW s \in 1..Len(server)
    PROVE  /\ server[s] \in Session /\ s \in Nat
           /\ server[s].key \in 1..MaxKey
           /\ server[s].recent \in SUBSET (1..MaxKey)
<1>1. server \in Seq(Session) /\ Len(server) \in Nat
  BY DEF TypeOK
<1>2. server[s] \in Session
  BY <1>1
<1> QED
  BY <1>1, <1>2 DEF Session

LEMMA Rotates ==
    ASSUME TypeOK, NEW a \in attempts, ServerRefresh(a)
    PROVE  Stay
<1> DEFINE s == a.cookie.sid
<1> DEFINE key == a.cookie.key
<1>1. s \in Nat /\ key \in Nat /\ (s # 0 => s \in Sid /\ key \in 1..MaxKey)
  BY WebSessionAssumption DEF TypeOK, Attempt, Cookie, NoCookie, Sid
<1>2. CASE UNCHANGED server
  BY <1>2, SameSessions
<1>3. CASE server' = [server EXCEPT ![s] = ReuseCloses(@)]
  <2>1. s \in 1..Len(server) => Ended(server[s]) \in Session /\ ~Ended(server[s]).live
    BY SessionOf, EndedSession
  <2> QED
    BY <1>1, <1>3, <2>1, OneSession DEF ReuseCloses
<1>4. CASE /\ Live(s) /\ key < MaxKey
           /\ server' = [server EXCEPT ![s].key = key + 1, ![s].recent = @ \cup {key}]
  <2> DEFINE new == [server[s] EXCEPT !.key = key + 1, !.recent = @ \cup {key}]
  <2>1. s \in 1..Len(server)
    BY <1>4 DEF Live, TypeOK
  <2>2. server[s] \in Session /\ server[s].recent \in SUBSET (1..MaxKey)
    BY <2>1, SessionOf
  <2>3. key + 1 \in 1..MaxKey /\ server[s].recent \cup {key} \in SUBSET (1..MaxKey)
    <3>1. s # 0
      BY <2>1 DEF TypeOK
    <3> QED
      BY <1>1, <1>4, <2>2, <3>1, WebSessionAssumption
  <2>4. new \in Session /\ new.live = server[s].live
    BY <2>2, <2>3, Zenon DEF Session
  <2>5. server' = [server EXCEPT ![s] = new]
    BY <1>4, Zenon
  <2> QED
    BY <1>1, <2>4, <2>5, OneSession
<1> QED
  BY <1>2, <1>3, <1>4 DEF ServerRefresh

LEMMA SessionsStay == ASSUME TypeOK, Step PROVE Stay
<1>1. ASSUME NEW t \in Tab, CodeAtTheDoor(t) \/ CodeInTheDialog(t) PROVE Stay
  <2> DEFINE s == tab[t].sid
  <2> DEFINE new == [server[s] EXCEPT !.mfa = TRUE, !.open = TRUE]
  <2>1. s \in Nat
    BY WebSessionAssumption DEF TypeOK, TabState, Sid
  <2>2. server' = [server EXCEPT ![s] = new]
    BY <1>1, Zenon DEF CodeAtTheDoor, CodeInTheDialog
  <2>3. s \in 1..Len(server) => new \in Session /\ new.live = server[s].live
    <3> SUFFICES ASSUME s \in 1..Len(server) PROVE new \in Session /\ new.live = server[s].live
      OBVIOUS
    <3>1. server[s] \in Session
      BY SessionOf
    <3> QED
      BY <3>1, Zenon DEF Session
  <2> QED
    BY <2>1, <2>2, <2>3, OneSession
<1>2. ASSUME NEW t \in Tab, SessionLocked(t) PROVE Stay
  <2>1. tab[t].sid \in Nat
    BY WebSessionAssumption DEF TypeOK, TabState, Sid
  <2>2. tab[t].sid \in 1..Len(server) => Ended(server[tab[t].sid]) \in Session /\ ~Ended(server[tab[t].sid]).live
    BY SessionOf, EndedSession
  <2> QED
    BY <1>2, <2>1, <2>2, OneSession DEF SessionLocked
<1>3. ASSUME NEW t \in Tab, closeSession(t) PROVE Stay
  <2> DEFINE new == Blacklisted(Ended(server[jar.sid]), jar.key)
  <2>1. jar.sid \in Nat
    BY WebSessionAssumption DEF TypeOK, Cookie, NoCookie, Sid
  <2>2. CASE jar.sid = 0
    BY <1>3, <2>2, SameSessions DEF closeSession
  <2>3. CASE jar.sid # 0
    <3>1. jar.key \in 1..MaxKey
      BY <2>3 DEF TypeOK, Cookie, NoCookie
    <3>2. jar.sid \in 1..Len(server) => new \in Session /\ ~new.live
      <4> SUFFICES ASSUME jar.sid \in 1..Len(server) PROVE new \in Session /\ ~new.live
        OBVIOUS
      <4>1. Ended(server[jar.sid]) \in Session /\ ~Ended(server[jar.sid]).live
        BY SessionOf, EndedSession
      <4>2. Ended(server[jar.sid]).recent \cup {jar.key} \in SUBSET (1..MaxKey)
        BY <3>1, <4>1 DEF Session
      <4> QED
        BY <4>1, <4>2, Zenon DEF Session, Blacklisted
    <3>3. server' = [server EXCEPT ![jar.sid] = new]
      BY <1>3, <2>3 DEF closeSession
    <3> QED
      BY <2>1, <3>2, <3>3, OneSession
  <2> QED
    BY <2>2, <2>3
<1>4. ASSUME NEW s \in Sid, GraceEnds(s) \/ PanelCloses(s) PROVE Stay
  <2>1. PICK new : /\ server' = [server EXCEPT ![s] = new]
                   /\ new \in {[server[s] EXCEPT !.recent = {}], [server[s] EXCEPT !.open = FALSE]}
    BY <1>4, Zenon DEF GraceEnds, PanelCloses
  <2>2. s \in 1..Len(server) => new \in Session /\ new.live = server[s].live
    <3> SUFFICES ASSUME s \in 1..Len(server) PROVE new \in Session /\ new.live = server[s].live
      OBVIOUS
    <3>1. server[s] \in Session
      BY SessionOf
    <3>2. {} \in SUBSET (1..MaxKey)
      OBVIOUS
    <3> QED
      BY <2>1, <3>1, <3>2, Zenon DEF Session
  <2>3. s \in Nat
    BY WebSessionAssumption DEF Sid
  <2> QED
    BY <2>1, <2>2, <2>3, OneSession
<1>5. ASSUME NEW t \in Tab, NEW p \in Person, Login(t, p) PROVE Stay
  <2> DEFINE new == [who |-> p, key |-> 1, recent |-> {}, live |-> TRUE, mfa |-> FALSE, open |-> FALSE]
  <2>1. server \in Seq(Session) /\ Len(server) \in Nat /\ MaxSessions \in Nat /\ Len(server) < MaxSessions
    BY <1>5, WebSessionAssumption DEF TypeOK, Login
  <2>2. 1 \in 1..MaxKey => new \in Session
    BY DEF Session
  <2>3. server' = Append(server, new)
    BY <1>5 DEF Login
  <2>4. 1 \in 1..MaxKey
    BY WebSessionAssumption
  <2> QED
    BY <1>5, <2>1, <2>2, <2>3, <2>4 DEF Stay
<1>6. CASE UNCHANGED server
  BY <1>6, SameSessions
<1>7. ASSUME NEW a \in attempts, RefreshStep(a) PROVE Stay
  BY <1>6, <1>7, Rotates
     DEF RefreshStep, RefreshLost, RefreshGranted, RefreshRefused, SignedOut, RefreshPauses, RefreshAgain
<1>8. ASSUME NEW c \in Call, Send(c) \/ CallStep(c) PROVE Stay
  BY <1>6, <1>8 DEF Send, CallStep, ServerCall, Unauthorized, retryAfterCode, Answered
<1>9. ASSUME NEW t \in Tab, TabStep(t) PROVE Stay
  BY <1>1, <1>2, <1>3, <1>5, <1>6, <1>9
     DEF TabStep, Load, SessionClosed, CloseFails, EnterPanel, LeavePanel, CodeNeedsToken
<1> QED
  BY <1>4, <1>7, <1>8, <1>9 DEF Step

-----------------------------------------------------------------------------
(* What is known before a step.                                            *)

\* Of an attempt: its cookie is one the server gave, and a token comes with a
\* session.
Told(a, sessions) ==
    /\ a.cookie.sid <= Len(sessions)
    /\ a.at # "back" => a.answer = "none"
    /\ a.answer \in {"token", "token_mfa"} => a.cookie.sid # 0
AttemptsTold == \A a \in attempts : Told(a, server)

\* Of the cookie, a tab and a request: their session is one of the server.
CookieKnown == jar.sid <= Len(server)
TabsKnown == \A t \in Tab : tab[t].sid <= Len(server)
RequestsKnown == \A c \in Call : call[c].at # "idle" => call[c].sid \in 1..Len(server)

Before ==
    /\ TypeOK /\ OneAttemptPerTab /\ AttemptsTold /\ WaitersAreServed
    /\ CookieKnown /\ TabsKnown /\ RequestsKnown

LEMMA Numbers == ASSUME TypeOK PROVE Len(server) \in Nat /\ 1..Len(server) \subseteq Sid
<1>1. Len(server) \in Nat /\ MaxSessions \in Nat /\ Len(server) <= MaxSessions
  BY WebSessionAssumption DEF TypeOK
<1> QED
  BY <1>1 DEF Sid

LEMMA AttemptType ==
    ASSUME TypeOK, NEW a \in attempts
    PROVE  /\ a \in Attempt /\ a.tab \in Tab /\ a.cookie \in Cookie
           /\ a.cookie.sid \in Nat /\ a.cookie.key \in Nat
           /\ a.cookie.sid # 0 => a.cookie.sid \in Sid /\ a.cookie.key \in 1..MaxKey
  BY WebSessionAssumption DEF TypeOK, Attempt, Cookie, NoCookie, Sid

-----------------------------------------------------------------------------
(* The requests, one at a time.                                            *)

\* What one step may make of a request.
Moved(r, q) ==
    \/ q \in {r, NoCall, [r EXCEPT !.kept = FALSE], [NoCall EXCEPT !.kept = FALSE]}
    \/ r.at = "renew" /\ \E s \in 1..Len(server) : q = SendAgain([r EXCEPT !.sid = s], TRUE, FALSE)
    \/ r.at = "code" /\ q = SendAgain(r, FALSE, TRUE)
    \/ r.at = "idle" /\ \E s \in 1..Len(server), kept \in BOOLEAN :
          q = [NoCall EXCEPT !.at = "out", !.sid = s, !.kept = kept, !.sends = 1]
    \/ r.at = "out" /\ q \in {[r EXCEPT !.at = "401"], [r EXCEPT !.at = "403"], [r EXCEPT !.at = "ok", !.done = @ + 1]}
Waits(r, q) ==
    \/ r.at = "401" /\ ~r.isRetry /\ q = [r EXCEPT !.at = "renew"]
    \/ r.at = "403" /\ ~r.isRetry2fa /\ q = [r EXCEPT !.at = "code"]
Turned(r, q) == Moved(r, q) \/ Waits(r, q)

\* How often it was sent and carried out follows from where it stands and from
\* its two flags, and what it waits for is not what it waited for before.
Counted(r) ==
    /\ r.sends <= 3
    /\ r.sends > 1 => r.isRetry \/ r.isRetry2fa
    /\ r.sends > 2 => r.isRetry /\ r.isRetry2fa
    /\ r.done = IF r.at = "ok" THEN 1 ELSE 0
    /\ r.at = "renew" => ~r.isRetry
    /\ r.at = "code" => ~r.isRetry2fa

LEMMA MovedTo ==
    ASSUME NEW r \in CallState, Counted(r),
           NEW at \in {"401", "403", "renew", "code"}, r.at # "ok", r.at # "idle",
           at = "renew" => ~r.isRetry, at = "code" => ~r.isRetry2fa
    PROVE  [r EXCEPT !.at = at] \in CallState /\ Counted([r EXCEPT !.at = at])
<1> DEFINE q == [r EXCEPT !.at = at]
<1>1. q \in CallState
  BY Zenon DEF CallState
<1>2. /\ q.at = at /\ q.sends = r.sends /\ q.done = r.done
      /\ q.isRetry = r.isRetry /\ q.isRetry2fa = r.isRetry2fa
  BY Zenon DEF CallState
<1>3. Counted(q)
  BY <1>2 DEF Counted, CallState
<1> QED
  BY <1>1, <1>3

LEMMA NotKept ==
    ASSUME NEW r \in CallState, Counted(r)
    PROVE  [r EXCEPT !.kept = FALSE] \in CallState /\ Counted([r EXCEPT !.kept = FALSE])
<1> DEFINE k == [r EXCEPT !.kept = FALSE]
<1>1. k \in CallState
  BY Zenon DEF CallState
<1>2. /\ k.at = r.at /\ k.sends = r.sends /\ k.done = r.done
      /\ k.isRetry = r.isRetry /\ k.isRetry2fa = r.isRetry2fa
  BY Zenon DEF CallState
<1>3. Counted(k)
  BY <1>2 DEF Counted, CallState
<1> QED
  BY <1>1, <1>3

LEMMA TurnedKeeps ==
    ASSUME TypeOK, NEW r \in CallState, NEW q, Turned(r, q), Counted(r)
    PROVE  q \in CallState /\ Counted(q)
<1>0. NoCall \in CallState /\ Counted(NoCall)
  BY DEF NoCall, CallState, Counted
<1>1. ASSUME q \in {[r EXCEPT !.kept = FALSE], [NoCall EXCEPT !.kept = FALSE]}
      PROVE  q \in CallState /\ Counted(q)
  BY <1>0, <1>1, NotKept
<1>2. ASSUME r.at = "renew", NEW s \in {0} \cup Sid, q = SendAgain([r EXCEPT !.sid = s], TRUE, FALSE)
      PROVE  q \in CallState /\ Counted(q)
  <2> DEFINE k == [r EXCEPT !.sid = s]
  <2>1. k \in CallState
    BY Zenon DEF CallState
  <2>2. /\ k.at = r.at /\ k.sends = r.sends /\ k.done = r.done
        /\ k.isRetry = r.isRetry /\ k.isRetry2fa = r.isRetry2fa
    BY Zenon DEF CallState
  <2>3. /\ q \in CallState /\ q.at = "out" /\ q.sends = r.sends + 1 /\ q.done = r.done
        /\ q.isRetry /\ (r.isRetry2fa => q.isRetry2fa)
    <3>1. /\ q \in CallState /\ q.at = "out" /\ q.sends = k.sends + 1 /\ q.done = k.done
          /\ q.isRetry /\ (k.isRetry2fa => q.isRetry2fa)
      BY <1>2, <2>1, SentAgain, Zenon
    <3> HIDE DEF k
    <3> QED
      BY <2>2, <3>1, Zenon
  <2>4. r.at = "renew"
    BY <1>2, Zenon
  <2>5. Counted(q)
    BY <2>3, <2>4 DEF Counted, CallState
  <2> QED
    BY <2>3, <2>5
<1>3. ASSUME r.at = "code", q = SendAgain(r, FALSE, TRUE)
      PROVE  q \in CallState /\ Counted(q)
  <2>1. /\ q \in CallState /\ q.at = "out" /\ q.sends = r.sends + 1 /\ q.done = r.done
        /\ (r.isRetry => q.isRetry) /\ q.isRetry2fa
    BY <1>3, SentAgain, Zenon
  <2>2. r.at = "code"
    BY <1>3, Zenon
  <2>3. Counted(q)
    BY <2>1, <2>2 DEF Counted, CallState
  <2> QED
    BY <2>1, <2>3
<1>4. ASSUME NEW s \in {0} \cup Sid, NEW kept \in BOOLEAN,
             q = [NoCall EXCEPT !.at = "out", !.sid = s, !.kept = kept, !.sends = 1]
      PROVE  q \in CallState /\ Counted(q)
  <2>1. q = [at |-> "out", sid |-> s, kept |-> kept, isRetry |-> FALSE, isRetry2fa |-> FALSE, sends |-> 1, done |-> 0]
    BY <1>4, Zenon DEF NoCall
  <2> QED
    BY <2>1 DEF CallState, Counted
<1>5. ASSUME r.at = "out", q = [r EXCEPT !.at = "ok", !.done = @ + 1]
      PROVE  q \in CallState /\ Counted(q)
  <2>1. r.done + 1 \in Nat
    BY DEF CallState
  <2>2. q \in CallState
    BY <1>5, <2>1, Zenon DEF CallState
  <2>3. /\ q.at = "ok" /\ q.sends = r.sends /\ q.done = r.done + 1
        /\ q.isRetry = r.isRetry /\ q.isRetry2fa = r.isRetry2fa
    BY <1>5, Zenon DEF CallState
  <2>4. Counted(q)
    BY <1>5, <2>3 DEF Counted, CallState
  <2> QED
    BY <2>2, <2>4
<1>6. ASSUME \/ r.at = "out" /\ q \in {[r EXCEPT !.at = "401"], [r EXCEPT !.at = "403"]}
             \/ r.at = "401" /\ ~r.isRetry /\ q = [r EXCEPT !.at = "renew"]
             \/ r.at = "403" /\ ~r.isRetry2fa /\ q = [r EXCEPT !.at = "code"]
      PROVE  q \in CallState /\ Counted(q)
  BY <1>6, MovedTo
<1> QED
  BY <1>0, <1>1, <1>2, <1>3, <1>4, <1>5, <1>6, Numbers DEF Turned, Moved, Waits

\* Every request after a step is one it may have turned into.
RequestsTurn == call' = [c \in Call |-> call'[c]] /\ \A c \in Call : Turned(call[c], call'[c])
RequestsMove == call' = [c \in Call |-> call'[c]] /\ \A c \in Call : Moved(call[c], call'[c])

LEMMA OneTurns ==
    ASSUME TypeOK, NEW c \in Call, NEW q, call' = [call EXCEPT ![c] = q]
    PROVE  /\ Moved(call[c], q) => RequestsMove
           /\ Turned(call[c], q) => RequestsTurn
  BY DEF TypeOK, RequestsMove, RequestsTurn, Turned, Moved

LEMMA NoneTurns == ASSUME TypeOK, UNCHANGED call PROVE RequestsMove
  BY DEF TypeOK, RequestsMove, Moved

\* Only two actions make a request wait.
WaitStep == \E c \in Call : Unauthorized(c) \/ retryAfterCode(c)

LEMMA OthersMove == ASSUME Before, Step, ~WaitStep PROVE RequestsMove
<1> USE DEF Before
<1>1. ASSUME NEW a \in attempts, RefreshGranted(a) PROVE RequestsMove
  <2>1. a.cookie.sid \in 1..Len(server)
    BY <1>1, AttemptType, Numbers DEF RefreshGranted, AttemptsTold, Told
  <2>2. ASSUME NEW c \in Call
        PROVE  call'[c] \in {call[c], NoCall} \/
               (call[c].at = "renew" /\ call'[c] = SendAgain([call[c] EXCEPT !.sid = a.cookie.sid], TRUE, FALSE))
    <3>1. call'[c] = WithToken(c, a)
      BY <1>1, Zenon DEF RefreshGranted
    <3> QED
      BY <3>1, Zenon DEF WithToken
  <2>3. call' = [c \in Call |-> call'[c]]
    BY <1>1, Zenon DEF RefreshGranted
  <2> QED
    BY <2>1, <2>2, <2>3 DEF RequestsMove, Moved
<1>2. ASSUME NEW a \in attempts, RefreshLost(a) \/ RefreshRefused(a) PROVE RequestsMove
  <2>1. SignedOut(a)
    BY <1>2 DEF RefreshLost, RefreshRefused
  <2>2. \A c \in Call : call'[c] \in {call[c], NoCall, [call[c] EXCEPT !.kept = FALSE]}
    BY <2>1, Zenon DEF SignedOut, WithoutToken
  <2>3. call' = [c \in Call |-> call'[c]]
    BY <2>1, Zenon DEF SignedOut
  <2> QED
    BY <2>2, <2>3 DEF RequestsMove, Moved
<1>3. ASSUME NEW a \in attempts, RefreshStep(a) PROVE RequestsMove
  BY <1>1, <1>2, <1>3, NoneTurns DEF RefreshStep, ServerRefresh, RefreshPauses, RefreshAgain
<1>4. ASSUME NEW c \in Call, Send(c) PROVE RequestsMove
  <2>1. tab[home[c]].sid \in 1..Len(server)
    <3>1. home[c] \in Tab /\ tab[home[c]].sid # 0 /\ tab[home[c]].sid <= Len(server)
      BY <1>4, WebSessionAssumption, Zenon DEF Send, TabsKnown
    <3>2. tab[home[c]] \in TabState
      BY <3>1 DEF TypeOK
    <3>3. tab[home[c]].sid \in Nat
      BY <3>2, WebSessionAssumption DEF TabState, Sid
    <3> QED
      BY <3>1, <3>3, Numbers
  <2>2. (c \in Query) \in BOOLEAN
    OBVIOUS
  <2>3. /\ call' = [call EXCEPT ![c] = [NoCall EXCEPT !.at = "out", !.sid = tab[home[c]].sid,
                                                      !.kept = c \in Query, !.sends = 1]]
        /\ call[c].at = "idle"
    BY <1>4 DEF Send
  <2>4. Moved(call[c], [NoCall EXCEPT !.at = "out", !.sid = tab[home[c]].sid, !.kept = c \in Query, !.sends = 1])
    BY <2>1, <2>2, <2>3, Zenon DEF Moved
  <2> QED
    BY <2>3, <2>4, OneTurns, Zenon
<1>5. ASSUME NEW c \in Call, ServerCall(c) PROVE RequestsMove
  <2>1. PICK q : /\ call' = [call EXCEPT ![c] = q]
                 /\ q \in {[call[c] EXCEPT !.at = "401"], NoCall, [call[c] EXCEPT !.at = "403"],
                          [call[c] EXCEPT !.at = "ok", !.done = @ + 1]}
    BY <1>5, Zenon DEF ServerCall
  <2>2. Moved(call[c], q)
    BY <1>5, <2>1, Zenon DEF Moved, ServerCall
  <2> QED
    BY <2>1, <2>2, OneTurns
<1>7. ASSUME NEW c \in Call, Answered(c) PROVE RequestsMove
  BY <1>7, OneTurns DEF Answered, Moved
<1>8. ASSUME NEW t \in Tab, Load(t) \/ LeavePanel(t) PROVE RequestsMove
  <2>1. \A c \in Call : call'[c] \in {call[c], NoCall}
    BY <1>8, Zenon DEF Load, LeavePanel, finish, Moving
  <2>2. call' = [c \in Call |-> call'[c]]
    BY <1>8, Zenon DEF Load, LeavePanel, finish, Moving
  <2> QED
    BY <2>1, <2>2 DEF RequestsMove, Moved
<1>9. ASSUME NEW t \in Tab, SessionClosed(t) \/ CloseFails(t) \/ SessionLocked(t) PROVE RequestsMove
  <2>1. call' = Dropped(finish(t), t)
    BY <1>9 DEF SessionClosed, CloseFails, SessionLocked
  <2>2. \A c \in Call : call'[c] \in {call[c], NoCall, [call[c] EXCEPT !.kept = FALSE], [NoCall EXCEPT !.kept = FALSE]}
    BY <2>1, Zenon DEF Dropped, finish, Moving
  <2>3. call' = [c \in Call |-> call'[c]]
    BY <2>1, Zenon DEF Dropped, finish, Moving
  <2> QED
    BY <2>2, <2>3 DEF RequestsMove, Moved
<1>10. ASSUME NEW t \in Tab, CodeInTheDialog(t) PROVE RequestsMove
  <2>1. \A c \in Call : call'[c] = call[c] \/ (call[c].at = "code" /\ call'[c] = SendAgain(call[c], FALSE, TRUE))
    BY <1>10, Zenon DEF CodeInTheDialog, Moving
  <2>2. call' = [c \in Call |-> call'[c]]
    BY <1>10, Zenon DEF CodeInTheDialog, Moving
  <2> QED
    BY <2>1, <2>2 DEF RequestsMove, Moved
<1>11. ASSUME NEW c \in Call, Send(c) \/ CallStep(c) PROVE RequestsMove
  BY <1>4, <1>5, <1>7, <1>11 DEF CallStep, WaitStep
<1>12. ASSUME NEW t \in Tab, TabStep(t) PROVE RequestsMove
  BY <1>8, <1>9, <1>10, <1>12, NoneTurns
     DEF TabStep, closeSession, CodeAtTheDoor, EnterPanel, CodeNeedsToken, Login
<1>13. ASSUME NEW s \in Sid, GraceEnds(s) \/ PanelCloses(s) PROVE RequestsMove
  BY <1>13, NoneTurns DEF GraceEnds, PanelCloses
<1> QED
  BY <1>3, <1>11, <1>12, <1>13 DEF Step

LEMMA WaitTurns ==
    ASSUME TypeOK, NEW c \in Call, Unauthorized(c) \/ retryAfterCode(c)
    PROVE  RequestsTurn
<1>1. PICK q : /\ call' = [call EXCEPT ![c] = q]
               /\ q = NoCall \/ Waits(call[c], q)
  BY Zenon DEF Unauthorized, retryAfterCode, Waits
<1>2. Turned(call[c], q)
  BY <1>1, Zenon DEF Turned, Moved
<1> QED
  BY <1>1, <1>2, OneTurns

LEMMA RequestsKeep ==
    ASSUME Before, \A c \in Call : Counted(call[c]), Step
    PROVE  call' \in [Call -> CallState] /\ \A c \in Call : Counted(call'[c])
<1>1. RequestsMove => RequestsTurn
  BY DEF RequestsMove, RequestsTurn, Turned
<1>2. RequestsTurn
  BY <1>1, OthersMove, WaitTurns DEF WaitStep, Before
<1>3. \A c \in Call : call[c] \in CallState
  BY DEF Before, TypeOK
<1>4. \A c \in Call : call'[c] \in CallState /\ Counted(call'[c])
  BY <1>2, <1>3, TurnedKeeps DEF RequestsTurn, Before
<1> QED
  BY <1>2, <1>4 DEF RequestsTurn

\* A request that moved does not wait for anything it did not wait for.
LEMMA NoMoreWaiters ==
    ASSUME TypeOK, RequestsMove
    PROVE  \A c \in Call : call'[c].at \in {"renew", "code"} => call'[c].at = call[c].at
<1> SUFFICES ASSUME NEW c \in Call PROVE call'[c].at \in {"renew", "code"} => call'[c].at = call[c].at
  OBVIOUS
<1> DEFINE r == call[c]
<1> DEFINE q == call'[c]
<1>1. r \in CallState /\ Moved(r, q)
  BY DEF TypeOK, RequestsMove
<1>2. ASSUME NEW s \in 1..Len(server) PROVE SendAgain([r EXCEPT !.sid = s], TRUE, FALSE).at = "out"
  <2>1. s \in {0} \cup Sid
    BY Numbers
  <2>2. [r EXCEPT !.sid = s] \in CallState
    BY <1>1, <2>1, Zenon DEF CallState
  <2> QED
    BY <2>2, SentAgain, Zenon
<1>3. SendAgain(r, FALSE, TRUE).at = "out"
  BY <1>1, SentAgain, Zenon
<1>4. /\ NoCall.at = "idle" /\ [NoCall EXCEPT !.kept = FALSE].at = "idle"
      /\ [r EXCEPT !.kept = FALSE].at = r.at
      /\ [r EXCEPT !.at = "401"].at = "401" /\ [r EXCEPT !.at = "403"].at = "403"
      /\ [r EXCEPT !.at = "ok", !.done = @ + 1].at = "ok"
      /\ \A s \in 1..Len(server), kept \in BOOLEAN :
            [NoCall EXCEPT !.at = "out", !.sid = s, !.kept = kept, !.sends = 1].at = "out"
  BY <1>1, Zenon DEF CallState, NoCall
<1>5. q.at = r.at \/ q.at \in {"idle", "out", "401", "403", "ok"}
  <2> HIDE DEF r, q
  <2>1. CASE q \in {r, NoCall, [r EXCEPT !.kept = FALSE], [NoCall EXCEPT !.kept = FALSE]}
    BY <1>4, <2>1, Zenon
  <2>2. ASSUME NEW s \in 1..Len(server), q = SendAgain([r EXCEPT !.sid = s], TRUE, FALSE) PROVE q.at = "out"
    BY <1>2, <2>2, Zenon
  <2>3. CASE q = SendAgain(r, FALSE, TRUE)
    BY <1>3, <2>3, Zenon
  <2>4. ASSUME NEW s \in 1..Len(server), NEW kept \in BOOLEAN,
               q = [NoCall EXCEPT !.at = "out", !.sid = s, !.kept = kept, !.sends = 1]
        PROVE  q.at = "out"
    BY <1>4, <2>4, Zenon
  <2>5. CASE q \in {[r EXCEPT !.at = "401"], [r EXCEPT !.at = "403"], [r EXCEPT !.at = "ok", !.done = @ + 1]}
    BY <1>4, <2>5, Zenon
  <2> QED
    BY <1>1, <2>1, <2>2, <2>3, <2>4, <2>5, Zenon DEF Moved
<1> QED
  BY <1>5

\* A request that is under way was made in a session of the server.
LEMMA TurnedKnown ==
    ASSUME TypeOK, NEW r \in CallState, NEW q, Turned(r, q),
           r.at # "idle" => r.sid \in 1..Len(server), q.at # "idle"
    PROVE  q.sid \in 1..Len(server)
<1>3. ASSUME NEW s \in 1..Len(server) PROVE SendAgain([r EXCEPT !.sid = s], TRUE, FALSE).sid = s
  <2>1. [r EXCEPT !.sid = s].sid = s /\ s \in {0} \cup Sid
    BY Numbers, Zenon DEF CallState
  <2>2. [r EXCEPT !.sid = s] \in CallState
    BY <2>1, Zenon DEF CallState
  <2> QED
    BY <2>1, <2>2, Zenon DEF SendAgain, CallState
<1>4. SendAgain(r, FALSE, TRUE).sid = r.sid
  BY Zenon DEF SendAgain, CallState
<1>5. /\ NoCall.at = "idle" /\ [NoCall EXCEPT !.kept = FALSE].at = "idle"
      /\ [r EXCEPT !.kept = FALSE].sid = r.sid /\ [r EXCEPT !.kept = FALSE].at = r.at
      /\ [r EXCEPT !.at = "401"].sid = r.sid /\ [r EXCEPT !.at = "403"].sid = r.sid
      /\ [r EXCEPT !.at = "renew"].sid = r.sid /\ [r EXCEPT !.at = "code"].sid = r.sid
      /\ [r EXCEPT !.at = "ok", !.done = @ + 1].sid = r.sid
      /\ \A s \in 1..Len(server), kept \in BOOLEAN :
            [NoCall EXCEPT !.at = "out", !.sid = s, !.kept = kept, !.sends = 1].sid = s
  BY Zenon DEF CallState, NoCall
<1>7. CASE q \in {r, NoCall, [r EXCEPT !.kept = FALSE], [NoCall EXCEPT !.kept = FALSE]}
  BY <1>5, <1>7, Zenon
<1>8. ASSUME NEW s \in 1..Len(server), q = SendAgain([r EXCEPT !.sid = s], TRUE, FALSE) PROVE q.sid \in 1..Len(server)
  BY <1>3, <1>8, Zenon
<1>9. CASE r.at = "code" /\ q = SendAgain(r, FALSE, TRUE)
  <2>1. r.at # "idle"
    BY <1>9
  <2> QED
    BY <1>4, <1>9, <2>1, Zenon
<1>10. ASSUME NEW s \in 1..Len(server), NEW kept \in BOOLEAN,
              q = [NoCall EXCEPT !.at = "out", !.sid = s, !.kept = kept, !.sends = 1]
       PROVE  q.sid \in 1..Len(server)
  BY <1>5, <1>10, Zenon
<1>11. CASE \/ r.at = "out" /\ q \in {[r EXCEPT !.at = "401"], [r EXCEPT !.at = "403"], [r EXCEPT !.at = "ok", !.done = @ + 1]}
            \/ Waits(r, q)
  <2>1. r.at # "idle"
    BY <1>11 DEF Waits
  <2>2. q.sid = r.sid
    BY <1>5, <1>11, Zenon DEF Waits
  <2> QED
    BY <2>1, <2>2, Zenon
<1> QED
  BY <1>7, <1>8, <1>9, <1>10, <1>11, Zenon DEF Turned, Moved

LEMMA RequestsStayKnown ==
    ASSUME Before, Step
    PROVE  \A c \in Call : call'[c].at # "idle" => call'[c].sid \in 1..Len(server)
<1> SUFFICES ASSUME NEW c \in Call, call'[c].at # "idle" PROVE call'[c].sid \in 1..Len(server)
  OBVIOUS
<1>1. call[c] \in CallState /\ (call[c].at # "idle" => call[c].sid \in 1..Len(server))
  BY DEF Before, TypeOK, RequestsKnown
<1>2. Turned(call[c], call'[c])
  BY OthersMove, WaitTurns DEF WaitStep, Before, RequestsMove, RequestsTurn, Turned
<1> QED
  BY <1>1, <1>2, TurnedKnown DEF Before

-----------------------------------------------------------------------------
(* The attempts of refreshSession.                                         *)

\* What a step keeps of the attempts and of the requests that wait for one.
AttemptsKeep ==
    /\ attempts' \subseteq Attempt
    /\ OneAttemptPerTab'
    /\ AttemptsTold'
    /\ \A c \in Call : call'[c].at = "renew" => \E a \in attempts' : a.tab = home[c]

LEMMA ToldStays ==
    ASSUME TypeOK, Stay, NEW a \in attempts, Told(a, server)
    PROVE  Told(a, server')
<1>1. Len(server) \in Nat /\ Len(server') \in Nat /\ Len(server) <= Len(server')
  BY DEF TypeOK, Stay
<1>2. a.cookie.sid \in Nat
  BY AttemptType
<1> QED
  BY <1>1, <1>2 DEF Told

\* Some attempts stay and at most one is new, of a tab that has no other.
LEMMA OneNewAttempt ==
    ASSUME TypeOK, OneAttemptPerTab, AttemptsTold, Stay,
           NEW kept \in SUBSET attempts, NEW b \in Attempt, Told(b, server'),
           attempts' = kept \cup {b}, \A a \in kept : a.tab # b.tab,
           \A a \in attempts : a \in kept \/ a.tab = b.tab,
           \A c \in Call : call'[c].at = "renew" => call[c].at = "renew" \/ home[c] = b.tab,
           WaitersAreServed
    PROVE  AttemptsKeep
<1>1. attempts' \subseteq Attempt
  BY DEF TypeOK
<1>2. OneAttemptPerTab'
  BY DEF OneAttemptPerTab
<1>3. AttemptsTold'
  BY ToldStays DEF AttemptsTold
<1>4. \A c \in Call : call'[c].at = "renew" => \E a \in attempts' : a.tab = home[c]
  BY DEF WaitersAreServed
<1> QED
  BY <1>1, <1>2, <1>3, <1>4 DEF AttemptsKeep

\* No attempt is new, and whose attempt is gone has no request that waits.
LEMMA NoNewAttempt ==
    ASSUME TypeOK, OneAttemptPerTab, AttemptsTold, Stay, WaitersAreServed,
           attempts' \subseteq attempts,
           \A c \in Call : call'[c].at = "renew" =>
              call[c].at = "renew" /\ \A a \in attempts : a.tab = home[c] => a \in attempts'
    PROVE  AttemptsKeep
<1>1. attempts' \subseteq Attempt
  BY DEF TypeOK
<1>2. OneAttemptPerTab'
  BY DEF OneAttemptPerTab
<1>3. AttemptsTold'
  BY ToldStays DEF AttemptsTold
<1>4. \A c \in Call : call'[c].at = "renew" => \E a \in attempts' : a.tab = home[c]
  BY DEF WaitersAreServed
<1> QED
  BY <1>1, <1>2, <1>3, <1>4 DEF AttemptsKeep

\* An attempt that is made anew, with the cookie of the browser.
NewAttempt(t) == [tab |-> t, tries |-> 1, cookie |-> jar, at |-> "out", answer |-> "none"]

LEMMA NewIsTold ==
    ASSUME TypeOK, Stay, NEW t \in Tab, CookieKnown
    PROVE  NewAttempt(t) \in Attempt /\ Told(NewAttempt(t), server') /\ NewAttempt(t).tab = t
<1>1. /\ Len(server) \in Nat /\ Len(server') \in Nat /\ Len(server) <= Len(server')
      /\ jar \in Cookie /\ jar.sid \in Nat
  BY WebSessionAssumption DEF TypeOK, Stay, Cookie, NoCookie, Sid
<1> QED
  BY <1>1 DEF NewAttempt, Attempt, Told, CookieKnown

LEMMA Starts ==
    ASSUME TypeOK, OneAttemptPerTab, AttemptsTold, Stay, WaitersAreServed, NEW t \in Tab,
           CookieKnown, attempts' = startRefresh(t),
           \A c \in Call : call'[c].at = "renew" => call[c].at = "renew" \/ home[c] = t
    PROVE  AttemptsKeep
<1>1. CASE \E a \in attempts : a.tab = t
  <2>1. attempts' = attempts
    BY <1>1 DEF startRefresh
  <2>2. OneAttemptPerTab' /\ attempts' \subseteq Attempt
    BY <2>1 DEF OneAttemptPerTab, TypeOK
  <2>3. AttemptsTold'
    BY <2>1, ToldStays DEF AttemptsTold
  <2>4. \A c \in Call : call'[c].at = "renew" => \E a \in attempts' : a.tab = home[c]
    BY <1>1, <2>1 DEF WaitersAreServed
  <2> QED
    BY <2>2, <2>3, <2>4 DEF AttemptsKeep
<1>2. CASE ~\E a \in attempts : a.tab = t
  <2>1. attempts' = attempts \cup {NewAttempt(t)}
    BY <1>2 DEF startRefresh, NewAttempt
  <2> DEFINE b == NewAttempt(t)
  <2>2. b \in Attempt /\ Told(b, server') /\ b.tab = t
    BY NewIsTold
  <2>3. /\ attempts \in SUBSET attempts
        /\ \A a \in attempts : a.tab # b.tab
        /\ \A a \in attempts : a \in attempts \/ a.tab = b.tab
        /\ \A c \in Call : call'[c].at = "renew" => call[c].at = "renew" \/ home[c] = b.tab
    BY <1>2, <2>2
  <2> HIDE DEF b
  <2> QED
    BY <2>1, <2>2, <2>3, OneNewAttempt DEF b
<1> QED
  BY <1>1, <1>2

\* An attempt goes on.
LEMMA GoesOn ==
    ASSUME Before, Stay, NEW a \in attempts, NEW b \in Attempt, b.tab = a.tab, Told(b, server'),
           attempts' = (attempts \ {a}) \cup {b}, UNCHANGED call
    PROVE  AttemptsKeep
<1> DEFINE kept == attempts \ {a}
<1>1. /\ kept \in SUBSET attempts /\ attempts' = kept \cup {b}
      /\ \A x \in kept : x.tab # b.tab
      /\ \A x \in attempts : x \in kept \/ x.tab = b.tab
  BY DEF Before, OneAttemptPerTab
<1>2. \A c \in Call : call'[c].at = "renew" => call[c].at = "renew" \/ home[c] = b.tab
  OBVIOUS
<1> HIDE DEF kept
<1> QED
  BY <1>1, <1>2, OneNewAttempt DEF Before

LEMMA RefreshKeeps ==
    ASSUME Before, Stay, NEW a \in attempts, RefreshStep(a)
    PROVE  AttemptsKeep
<1> USE AttemptType DEF Before, CookieKnown
<1>0. a \in Attempt /\ a.cookie \in Cookie /\ a.cookie.sid \in Nat /\ Told(a, server) /\ jar.sid <= Len(server')
      /\ Len(server) \in Nat /\ Len(server') \in Nat /\ Len(server) <= Len(server')
  BY WebSessionAssumption DEF AttemptsTold, Stay, TypeOK, Cookie, NoCookie, Sid
<1>1. CASE ServerRefresh(a)
  <2> DEFINE s == a.cookie.sid
  <2> DEFINE key == a.cookie.key
  <2> DEFINE answered(answer, cookie) == [a EXCEPT !.at = "back", !.answer = answer, !.cookie = cookie]
  <2>1. ASSUME NEW answer \in {"token", "token_mfa", "token_recien_usado", "invalid"}, NEW cookie \in Cookie,
               attempts' = (attempts \ {a}) \cup {answered(answer, cookie)},
               cookie.sid = s, answer \in {"token", "token_mfa"} => s # 0
        PROVE  AttemptsKeep
    <3> DEFINE b == answered(answer, cookie)
    <3>1. b \in Attempt /\ b.tab = a.tab /\ b.at = "back" /\ b.answer = answer /\ b.cookie = cookie
      BY <1>0, Zenon DEF Attempt
    <3>2. Told(b, server')
      BY <1>0, <2>1, <3>1 DEF Told
    <3>3. UNCHANGED call
      BY <1>1 DEF ServerRefresh
    <3> HIDE DEF b
    <3> QED
      BY <2>1, <3>1, <3>2, <3>3, GoesOn DEF b
  <2>2. CASE attempts' = (attempts \ {a}) \cup {answered("invalid", a.cookie)}
    BY <1>0, <2>1, <2>2
  <2>3. CASE attempts' = (attempts \ {a}) \cup {answered("token_recien_usado", a.cookie)}
    BY <1>0, <2>1, <2>3
  <2>5. CASE /\ Live(s) /\ key < MaxKey
             /\ attempts' = (attempts \ {a}) \cup
                   {answered(IF server[s].mfa THEN "token_mfa" ELSE "token", [a.cookie EXCEPT !.key = key + 1])}
    <3> DEFINE cookie == [a.cookie EXCEPT !.key = key + 1]
    <3> DEFINE answer == IF server[s].mfa THEN "token_mfa" ELSE "token"
    <3>1. s \in Sid /\ key \in 1..MaxKey /\ a.cookie \in [sid : Sid, key : 1..MaxKey]
      <4>1. s # 0
        BY <2>5 DEF Live, TypeOK
      <4> QED
        BY <1>0, <4>1 DEF Cookie, NoCookie
    <3>2. key + 1 \in 1..MaxKey
      BY <2>5, <3>1, WebSessionAssumption
    <3>3. cookie \in Cookie /\ cookie.sid = s
      BY <3>1, <3>2, Zenon DEF Cookie
    <3>4. answer \in {"token", "token_mfa"}
      OBVIOUS
    <3>5. s # 0
      BY <2>5 DEF Live, TypeOK
    <3> HIDE DEF cookie, answer
    <3> QED
      BY <2>1, <2>5, <3>3, <3>4, <3>5 DEF cookie, answer
  <2> QED
    BY <1>1, <2>2, <2>3, <2>5 DEF ServerRefresh
<1>2. CASE RefreshGranted(a)
  <2>1. ASSUME NEW c \in Call, call'[c].at = "renew" PROVE call[c].at = "renew" /\ home[c] # a.tab
    <3>1. call'[c] = WithToken(c, a)
      BY <1>2, Zenon DEF RefreshGranted
    <3>2. call[c] \in CallState /\ a.cookie.sid \in {0} \cup Sid
      BY <1>0 DEF TypeOK, Cookie, NoCookie
    <3>3. [call[c] EXCEPT !.sid = a.cookie.sid] \in CallState
      BY <3>2, Zenon DEF CallState
    <3>4. SendAgain([call[c] EXCEPT !.sid = a.cookie.sid], TRUE, FALSE).at = "out"
      BY <3>3, SentAgain, Zenon
    <3>5. NoCall.at = "idle"
      BY DEF NoCall
    <3> QED
      BY <2>1, <3>1, <3>4, <3>5, Zenon DEF WithToken
  <2>2. attempts' = attempts \ {a}
    BY <1>2 DEF RefreshGranted
  <2> QED
    BY <2>1, <2>2, NoNewAttempt
<1>3. CASE SignedOut(a)
  <2>1. ASSUME NEW c \in Call, call'[c].at = "renew" PROVE call[c].at = "renew" /\ home[c] # a.tab
    <3>1. call'[c] = WithoutToken(c, a.tab)
      BY <1>3, Zenon DEF SignedOut
    <3>2. [call[c] EXCEPT !.kept = FALSE].at = call[c].at
      BY Zenon DEF TypeOK, CallState
    <3>3. NoCall.at = "idle"
      BY DEF NoCall
    <3> QED
      BY <2>1, <3>1, <3>2, <3>3, Zenon DEF WithoutToken
  <2>2. attempts' = attempts \ {a}
    BY <1>3 DEF SignedOut
  <2> QED
    BY <2>1, <2>2, NoNewAttempt
<1>4. CASE RefreshPauses(a)
  <2> DEFINE b == [a EXCEPT !.at = "pause", !.answer = "none"]
  <2>1. b \in Attempt /\ b.tab = a.tab /\ b.at = "pause" /\ b.answer = "none" /\ b.cookie = a.cookie
    BY <1>0, Zenon DEF Attempt
  <2>2. Told(b, server')
    BY <1>0, <2>1 DEF Told
  <2>3. attempts' = (attempts \ {a}) \cup {b} /\ UNCHANGED call
    BY <1>4 DEF RefreshPauses
  <2> HIDE DEF b
  <2> QED
    BY <2>1, <2>2, <2>3, GoesOn
<1>5. CASE RefreshAgain(a)
  <2> DEFINE b == [a EXCEPT !.at = "out", !.tries = 2, !.cookie = jar]
  <2>1. jar \in Cookie
    BY DEF TypeOK
  <2>2. b \in Attempt /\ b.tab = a.tab /\ b.at = "out" /\ b.answer = a.answer /\ b.cookie = jar
    BY <1>0, <2>1, Zenon DEF Attempt
  <2>3. a.answer = "none"
    BY <1>0, <1>5 DEF RefreshAgain, Told
  <2>4. Told(b, server')
    BY <1>0, <2>2, <2>3 DEF Told
  <2>5. attempts' = (attempts \ {a}) \cup {b} /\ UNCHANGED call
    BY <1>5 DEF RefreshAgain
  <2> HIDE DEF b
  <2> QED
    BY <2>2, <2>4, <2>5, GoesOn
<1> QED
  BY <1>1, <1>2, <1>3, <1>4, <1>5 DEF RefreshStep, RefreshLost, RefreshRefused

\* The point of one request changed: the others stand where they stood.
LEMMA OnePoint ==
    ASSUME TypeOK, NEW c \in Call, NEW at, call' = [call EXCEPT ![c].at = at] \/ (call' = [call EXCEPT ![c] = NoCall] /\ at = "idle")
    PROVE  call'[c].at = at /\ \A d \in Call : d # c => call'[d] = call[d]
<1>1. CASE call' = [call EXCEPT ![c].at = at]
  <2>1. call'[c] = [call[c] EXCEPT !.at = at] /\ \A d \in Call : d # c => call'[d] = call[d]
    BY <1>1, Zenon DEF TypeOK
  <2>2. [call[c] EXCEPT !.at = at].at = at
    BY Zenon DEF TypeOK, CallState
  <2> QED
    BY <2>1, <2>2, Zenon
<1>2. CASE call' = [call EXCEPT ![c] = NoCall] /\ at = "idle"
  BY <1>2 DEF TypeOK, NoCall
<1> QED
  BY <1>1, <1>2

LEMMA AttemptsSteps ==
    ASSUME Before, Step
    PROVE  AttemptsKeep
<1> USE DEF Before
<1>0. Stay
  BY SessionsStay
<1>1. ASSUME NEW a \in attempts, RefreshStep(a) PROVE AttemptsKeep
  BY <1>0, <1>1, RefreshKeeps
<1>2. ASSUME NEW c \in Call, Unauthorized(c) PROVE AttemptsKeep
  <2>1. CASE call' = [call EXCEPT ![c] = NoCall] /\ UNCHANGED attempts
    <3>1. call'[c].at = "idle" /\ \A d \in Call : d # c => call'[d] = call[d]
      BY <2>1, OnePoint
    <3> QED
      BY <1>0, <2>1, <3>1, NoNewAttempt
  <2>2. CASE call' = [call EXCEPT ![c].at = "renew"] /\ attempts' = startRefresh(home[c])
    <3>1. call'[c].at = "renew" /\ \A d \in Call : d # c => call'[d] = call[d]
      BY <2>2, OnePoint
    <3>2. home[c] \in Tab
      BY WebSessionAssumption
    <3> QED
      BY <1>0, <2>2, <3>1, <3>2, Starts
  <2> QED
    BY <1>2, <2>1, <2>2 DEF Unauthorized
<1>3. ASSUME NEW c \in Call, retryAfterCode(c) PROVE AttemptsKeep
  <2>1. PICK at \in {"idle", "code"} : call'[c].at = at /\ \A d \in Call : d # c => call'[d] = call[d]
    BY <1>3, OnePoint DEF retryAfterCode
  <2>2. UNCHANGED attempts
    BY <1>3 DEF retryAfterCode
  <2> QED
    BY <1>0, <2>1, <2>2, NoNewAttempt
<1>4. ASSUME ~WaitStep PROVE \A c \in Call : call'[c].at \in {"renew", "code"} => call'[c].at = call[c].at
  BY <1>4, OthersMove, NoMoreWaiters
<1>5. ASSUME ~WaitStep, UNCHANGED attempts PROVE AttemptsKeep
  BY <1>0, <1>4, <1>5, NoNewAttempt
<1>6. ASSUME ~WaitStep, NEW t \in Tab, CodeNeedsToken(t) PROVE AttemptsKeep
  BY <1>0, <1>4, <1>6, Starts DEF CodeNeedsToken
<1>7. ASSUME ~WaitStep, NEW t \in Tab, Load(t) PROVE AttemptsKeep
  <2> DEFINE kept == {a \in attempts : a.tab # t}
  <2> DEFINE b == NewAttempt(t)
  <2>1. attempts' = kept \cup {b}
    BY <1>7 DEF Load, NewAttempt
  <2>2. b \in Attempt /\ Told(b, server') /\ b.tab = t
    BY <1>0, NewIsTold
  <2>3. /\ kept \in SUBSET attempts
        /\ \A a \in kept : a.tab # b.tab
        /\ \A a \in attempts : a \in kept \/ a.tab = b.tab
        /\ \A c \in Call : call'[c].at = "renew" => call[c].at = "renew" \/ home[c] = b.tab
    BY <1>4, <1>7, <2>2
  <2> HIDE DEF kept, b
  <2> QED
    BY <1>0, <2>1, <2>2, <2>3, OneNewAttempt
<1>8. ASSUME ~WaitStep, NEW t \in Tab, TabStep(t) PROVE AttemptsKeep
  BY <1>5, <1>6, <1>7, <1>8
     DEF TabStep, closeSession, SessionClosed, CloseFails, CodeAtTheDoor, EnterPanel, LeavePanel,
         CodeInTheDialog, SessionLocked, Login
<1>9. ASSUME ~WaitStep, NEW c \in Call, Send(c) \/ CallStep(c) PROVE AttemptsKeep
  BY <1>5, <1>9 DEF Send, CallStep, ServerCall, Answered, WaitStep
<1>10. ASSUME ~WaitStep, NEW s \in Sid, GraceEnds(s) \/ PanelCloses(s) PROVE AttemptsKeep
  BY <1>5, <1>10 DEF GraceEnds, PanelCloses
<1>11. CASE WaitStep
  BY <1>2, <1>3, <1>11 DEF WaitStep
<1> QED
  BY <1>1, <1>8, <1>9, <1>10, <1>11 DEF Step

-----------------------------------------------------------------------------
(* The tabs and the cookie.                                                *)

\* What a step keeps of the tabs and of the requests that wait for the code.
TabsKeep ==
    /\ tab' \in [Tab -> TabState]
    /\ TabsKnown'
    /\ \A c \in Call : call'[c].at = "code" => tab'[home[c]].asking /\ tab'[home[c]].portal

\* One tab changed, and either it still asks or nothing waits for its code.
LEMMA OneTab ==
    ASSUME Before, Stay, NEW t \in Tab, NEW rec \in TabState, tab' = [tab EXCEPT ![t] = rec],
           rec.sid \in 0..Len(server'),
           \A c \in Call : call'[c].at = "code" => call[c].at = "code",
           \/ (tab[t].asking => rec.asking) /\ (tab[t].portal => rec.portal)
           \/ \A c \in Call : home[c] = t => call'[c].at # "code"
    PROVE  TabsKeep
<1>1. tab' \in [Tab -> TabState] /\ \A u \in Tab : tab'[u] = IF u = t THEN rec ELSE tab[u]
  BY DEF Before, TypeOK
<1>2. ASSUME NEW c \in Call, call'[c].at = "code" PROVE tab'[home[c]].asking /\ tab'[home[c]].portal
  <2>1. home[c] \in Tab /\ tab[home[c]].asking /\ tab[home[c]].portal
    BY <1>2, WebSessionAssumption DEF Before, WaitersAreServed
  <2>2. tab'[home[c]] = IF home[c] = t THEN rec ELSE tab[home[c]]
    BY <1>1, <2>1
  <2>3. home[c] = t => (tab[t].asking => rec.asking) /\ (tab[t].portal => rec.portal)
    BY <1>2
  <2> QED
    BY <2>1, <2>2, <2>3, Zenon
<1>3. TabsKnown'
  <2> SUFFICES ASSUME NEW u \in Tab PROVE tab'[u].sid <= Len(server')
    BY DEF TabsKnown
  <2>1. /\ Len(server) \in Nat /\ Len(server') \in Nat /\ Len(server) <= Len(server')
        /\ tab[u].sid <= Len(server) /\ tab[u].sid \in Nat
    BY WebSessionAssumption DEF Before, TabsKnown, Stay, TypeOK, TabState, Sid
  <2> QED
    BY <1>1, <2>1
<1> QED
  BY <1>1, <1>2, <1>3 DEF TabsKeep

LEMMA NoTabChanged ==
    ASSUME Before, Stay, UNCHANGED tab, \A c \in Call : call'[c].at = "code" => call[c].at = "code"
    PROVE  TabsKeep
<1>1. ASSUME NEW u \in Tab PROVE tab'[u].sid <= Len(server')
  BY WebSessionAssumption DEF Before, TabsKnown, Stay, TypeOK, TabState, Sid
<1> QED
  BY <1>1 DEF Before, TypeOK, WaitersAreServed, TabsKeep, TabsKnown

LEMMA TabType ==
    ASSUME Before, Stay, NEW t \in Tab
    PROVE  /\ tab[t] \in TabState /\ tab[t].sid \in 0..Len(server')
           /\ 0 \in 0..Len(server') /\ 0..Len(server') \subseteq {0} \cup Sid
<1>1. /\ Len(server) \in Nat /\ Len(server') \in Nat /\ Len(server) <= Len(server')
      /\ Len(server') <= MaxSessions /\ MaxSessions \in Nat
  BY WebSessionAssumption DEF Before, TypeOK, Stay
<1>2. tab[t] \in TabState /\ tab[t].sid <= Len(server)
  BY DEF Before, TypeOK, TabsKnown
<1>3. tab[t].sid \in Nat
  BY <1>2, WebSessionAssumption DEF TabState, Sid
<1> QED
  BY <1>1, <1>2, <1>3 DEF Sid

\* No request of a tab waits for the code once the panel was left.
LEMMA Finished ==
    ASSUME Before, NEW t \in Tab, call' \in {finish(t), Dropped(finish(t), t)}
    PROVE  \A c \in Call : home[c] = t => call'[c].at # "code"
<1> SUFFICES ASSUME NEW c \in Call, home[c] = t PROVE call'[c].at # "code"
  OBVIOUS
<1>1. NoCall.at = "idle" /\ [NoCall EXCEPT !.kept = FALSE].at = "idle" /\ [call[c] EXCEPT !.kept = FALSE].at = call[c].at
  BY Zenon DEF NoCall, Before, TypeOK, CallState
<1>2. finish(t)[c] = IF call[c].at = "code" THEN NoCall ELSE call[c]
  BY Zenon DEF finish, Moving
<1>3. Dropped(finish(t), t)[c] = [finish(t)[c] EXCEPT !.kept = FALSE]
  BY Zenon DEF Dropped
<1>4. call'[c] \in {finish(t)[c], [finish(t)[c] EXCEPT !.kept = FALSE]}
  BY <1>3
<1>5. CASE call[c].at = "code"
  BY <1>1, <1>2, <1>4, <1>5, Zenon
<1>6. CASE call[c].at # "code"
  BY <1>1, <1>2, <1>4, <1>6, Zenon
<1> QED
  BY <1>5, <1>6

LEMMA RefreshTabs ==
    ASSUME Before, Stay, NEW a \in attempts, RefreshStep(a), RequestsMove
    PROVE  TabsKeep
<1> DEFINE t == a.tab
<1>0. /\ t \in Tab /\ tab[t] \in TabState
      /\ a.cookie.sid \in 0..Len(server') /\ 0 \in 0..Len(server') /\ 0..Len(server') \subseteq {0} \cup Sid
      /\ \A c \in Call : call'[c].at = "code" => call[c].at = "code"
  <2>1. t \in Tab /\ a.cookie.sid \in Nat /\ a.cookie.sid <= Len(server)
    BY AttemptType DEF Before, AttemptsTold, Told
  <2>2. Len(server) \in Nat /\ Len(server') \in Nat /\ Len(server) <= Len(server')
    BY DEF Stay, Before, TypeOK
  <2>3. \A c \in Call : call'[c].at = "code" => call[c].at = "code"
    BY NoMoreWaiters DEF Before
  <2> QED
    BY <2>1, <2>2, <2>3, TabType
<1>1. CASE UNCHANGED tab
  BY <1>0, <1>1, NoTabChanged
<1>2. CASE RefreshGranted(a)
  <2> DEFINE mfa == a.answer = "token_mfa"
  <2> DEFINE set == setSession(tab[t], a.cookie.sid, mfa)
  <2> DEFINE rec == [set EXCEPT !.loading = FALSE]
  <2>1. /\ set \in TabState /\ set.sid = a.cookie.sid
        /\ set.asking = (tab[t].asking /\ mfa) /\ set.portal = (tab[t].portal /\ mfa)
    <3>1. mfa \in BOOLEAN /\ a.cookie.sid \in {0} \cup Sid
      BY <1>0
    <3>2. set.sid = a.cookie.sid
      BY <1>0, Zenon DEF setSession, TabState
    <3> QED
      BY <1>0, <3>1, <3>2, SetSession, Zenon
  <2> HIDE DEF set
  <2>2. rec \in TabState /\ rec.sid = set.sid /\ rec.asking = set.asking /\ rec.portal = set.portal
    BY <2>1, Zenon DEF TabState
  <2>3. tab' = [tab EXCEPT ![t] = rec]
    BY <1>2, Zenon DEF RefreshGranted, set
  <2>4. ASSUME ~mfa, NEW c \in Call, home[c] = t PROVE call'[c].at # "code"
    <3>1. call'[c] = WithToken(c, a) /\ a.answer = "token"
      BY <1>2, <2>4, Zenon DEF RefreshGranted
    <3>2. call[c] \in CallState /\ a.cookie.sid \in {0} \cup Sid
      BY <1>0 DEF Before, TypeOK
    <3>3. [call[c] EXCEPT !.sid = a.cookie.sid] \in CallState
      BY <3>2, Zenon DEF CallState
    <3>4. SendAgain([call[c] EXCEPT !.sid = a.cookie.sid], TRUE, FALSE).at = "out"
      BY <3>3, SentAgain, Zenon
    <3>5. NoCall.at = "idle"
      BY DEF NoCall
    <3>6. CASE call[c].at = "renew"
      BY <2>4, <3>1, <3>4, <3>6, Zenon DEF WithToken
    <3>7. CASE call[c].at # "renew"
      BY <2>4, <3>1, <3>5, <3>7, Zenon DEF WithToken
    <3> QED
      BY <3>6, <3>7
  <2>5. mfa => (tab[t].asking => rec.asking) /\ (tab[t].portal => rec.portal)
    BY <2>1, <2>2, Zenon
  <2>6. rec.sid \in 0..Len(server')
    BY <1>0, <2>1, <2>2, Zenon
  <2> HIDE DEF rec, mfa
  <2>7. \/ (tab[t].asking => rec.asking) /\ (tab[t].portal => rec.portal)
        \/ \A c \in Call : home[c] = t => call'[c].at # "code"
    BY <2>4, <2>5, Zenon
  <2> HIDE DEF t
  <2> QED
    BY <1>0, <2>2, <2>3, <2>6, <2>7, OneTab, Zenon
<1>3. CASE SignedOut(a)
  <2> DEFINE clear == clearSession(tab[t])
  <2> DEFINE rec == [clear EXCEPT !.loading = FALSE]
  <2>1. clear \in TabState /\ clear.sid = 0
    <3>1. clear.sid = 0
      BY <1>0, Zenon DEF clearSession, TabState
    <3> QED
      BY <1>0, <3>1, ClearSession, Zenon
  <2> HIDE DEF clear
  <2>2. rec \in TabState /\ rec.sid = 0
    BY <2>1, Zenon DEF TabState
  <2>3. tab' = [tab EXCEPT ![t] = rec]
    BY <1>3, Zenon DEF SignedOut, clear
  <2>4. ASSUME NEW c \in Call, home[c] = t PROVE call'[c].at # "code"
    <3>1. call'[c] = WithoutToken(c, t)
      BY <1>3, Zenon DEF SignedOut
    <3>2. [call[c] EXCEPT !.kept = FALSE].at = call[c].at
      BY Zenon DEF Before, TypeOK, CallState
    <3>3. NoCall.at = "idle"
      BY DEF NoCall
    <3>4. CASE call[c].at \in {"renew", "code"}
      BY <2>4, <3>1, <3>3, <3>4, Zenon DEF WithoutToken
    <3>5. CASE call[c].at \notin {"renew", "code"}
      <4>1. call[c].at # "code" /\ call'[c] = [call[c] EXCEPT !.kept = FALSE]
        BY <2>4, <3>1, <3>5, Zenon DEF WithoutToken
      <4> QED
        BY <3>2, <4>1, Zenon
    <3> QED
      BY <3>4, <3>5
  <2> HIDE DEF rec, t
  <2> QED
    BY <1>0, <2>2, <2>3, <2>4, OneTab
<1> QED
  BY <1>1, <1>2, <1>3 DEF RefreshStep, ServerRefresh, RefreshLost, RefreshRefused, RefreshPauses, RefreshAgain

LEMMA RequestTabs ==
    ASSUME Before, Stay, NEW c \in Call, ~WaitStep => RequestsMove,
           \/ Unauthorized(c) \/ retryAfterCode(c)
           \/ ~WaitStep /\ (Send(c) \/ CallStep(c))
    PROVE  TabsKeep
<1> DEFINE t == home[c]
<1>0. t \in Tab /\ tab[t] \in TabState /\ tab[t].sid \in 0..Len(server') /\ TypeOK
  BY TabType, WebSessionAssumption DEF Before
<1>1. CASE Unauthorized(c)
  <2>1. PICK at \in {"idle", "renew"} : call'[c].at = at /\ \A d \in Call : d # c => call'[d] = call[d]
    BY <1>0, <1>1, OnePoint DEF Unauthorized
  <2>2. UNCHANGED tab
    BY <1>1 DEF Unauthorized
  <2> QED
    BY <2>1, <2>2, NoTabChanged
<1>2. CASE retryAfterCode(c) /\ call' = [call EXCEPT ![c] = NoCall] /\ UNCHANGED tab
  <2>1. call'[c].at = "idle" /\ \A d \in Call : d # c => call'[d] = call[d]
    BY <1>0, <1>2, OnePoint
  <2> QED
    BY <1>2, <2>1, NoTabChanged
<1>3. CASE /\ tab[t].portal /\ call' = [call EXCEPT ![c].at = "code"]
           /\ tab' = [tab EXCEPT ![t].asking = TRUE]
  <2> DEFINE rec == [tab[t] EXCEPT !.asking = TRUE]
  <2>1. rec \in TabState /\ rec.asking /\ rec.portal = tab[t].portal /\ rec.sid = tab[t].sid
    BY <1>0, Zenon DEF TabState
  <2>2. tab' = [tab EXCEPT ![t] = rec]
    BY <1>3, Zenon
  <2>3. \A d \in Call : d # c => call'[d] = call[d]
    BY <1>0, <1>3, OnePoint
  <2>4. tab' \in [Tab -> TabState] /\ \A u \in Tab : tab'[u] = IF u = t THEN rec ELSE tab[u]
    <3> HIDE DEF rec
    <3> QED
      BY <1>0, <2>1, <2>2 DEF TypeOK
  <2>5. TabsKnown'
    <3> SUFFICES ASSUME NEW u \in Tab PROVE tab'[u].sid <= Len(server')
      BY DEF TabsKnown
    <3>1. tab[u].sid \in 0..Len(server') /\ tab[t].sid \in 0..Len(server')
      BY <1>0, TabType
    <3>2. tab'[u].sid \in 0..Len(server')
      BY <2>1, <2>4, <3>1, Zenon
    <3>3. Len(server') \in Nat
      BY DEF Stay
    <3> QED
      BY <3>2, <3>3
  <2>6. ASSUME NEW d \in Call, call'[d].at = "code" PROVE tab'[home[d]].asking /\ tab'[home[d]].portal
    <3>1. CASE home[d] = t
      BY <1>0, <1>3, <2>1, <2>4, <3>1, Zenon
    <3>2. CASE home[d] # t
      <4>1. call[d].at = "code" /\ home[d] \in Tab
        BY <2>3, <2>6, <3>2, WebSessionAssumption
      <4> QED
        BY <2>4, <3>2, <4>1, Zenon DEF Before, WaitersAreServed
    <3> QED
      BY <3>1, <3>2
  <2> QED
    BY <2>4, <2>5, <2>6 DEF TabsKeep
<1>4. ASSUME ~WaitStep PROVE \A d \in Call : call'[d].at = "code" => call[d].at = "code"
  BY <1>0, <1>4, NoMoreWaiters
<1>5. CASE ~WaitStep /\ UNCHANGED tab
  BY <1>4, <1>5, NoTabChanged
<1>6. CASE ~WaitStep /\ Answered(c) /\ tab' = [tab EXCEPT ![t].cache = @ \cup {server[call[c].sid].who}]
  <2> DEFINE rec == [tab[t] EXCEPT !.cache = @ \cup {server[call[c].sid].who}]
  <2>1. server[call[c].sid].who \in Person
    <3>1. call[c].sid \in 1..Len(server)
      BY <1>6 DEF Answered, Before, RequestsKnown
    <3> QED
      BY <1>0, <3>1, SessionOf DEF Session
  <2>2. tab[t].cache \cup {server[call[c].sid].who} \in SUBSET Person
    BY <1>0, <2>1 DEF TabState
  <2>3. rec \in TabState /\ rec.asking = tab[t].asking /\ rec.portal = tab[t].portal /\ rec.sid = tab[t].sid
    BY <1>0, <2>2, Zenon DEF TabState
  <2>4. tab' = [tab EXCEPT ![t] = rec]
    BY <1>6, Zenon
  <2>5. rec.sid \in 0..Len(server') /\ ((tab[t].asking => rec.asking) /\ (tab[t].portal => rec.portal))
    BY <1>0, <2>3, Zenon
  <2> HIDE DEF rec
  <2> QED
    BY <1>0, <1>4, <1>6, <2>3, <2>4, <2>5, OneTab
<1>7. CASE retryAfterCode(c)
  BY <1>2, <1>3, <1>7, Zenon DEF retryAfterCode
<1>8. CASE ~WaitStep /\ (Send(c) \/ ServerCall(c))
  BY <1>5, <1>8 DEF Send, ServerCall
<1>9. CASE ~WaitStep /\ Answered(c)
  BY <1>5, <1>6, <1>9, Zenon DEF Answered
<1> QED
  BY <1>1, <1>7, <1>8, <1>9 DEF CallStep, WaitStep

LEMMA PanelTabs ==
    ASSUME Before, Stay, NEW t \in Tab, TabStep(t), RequestsMove
    PROVE  TabsKeep
<1>0. /\ tab[t] \in TabState /\ tab[t].sid \in 0..Len(server') /\ 0 \in 0..Len(server')
      /\ 0..Len(server') \subseteq {0} \cup Sid /\ TypeOK
      /\ \A c \in Call : call'[c].at = "code" => call[c].at = "code"
  BY TabType, NoMoreWaiters DEF Before
\* A record that keeps who is signed in, and what the panel was doing.
<1>1. ASSUME NEW rec, tab' = [tab EXCEPT ![t] = rec], rec \in TabState, rec.sid \in 0..Len(server'),
             tab[t].asking => rec.asking, tab[t].portal => rec.portal
      PROVE  TabsKeep
  BY <1>0, <1>1, OneTab
\* Or a tab whose panel is gone, with the requests that waited in it.
<1>2. ASSUME NEW rec, tab' = [tab EXCEPT ![t] = rec], rec \in TabState, rec.sid \in 0..Len(server'),
             \A c \in Call : home[c] = t => call'[c].at # "code"
      PROVE  TabsKeep
  BY <1>0, <1>2, OneTab
<1>3. CASE Load(t)
  <2> DEFINE rec == [NoTab EXCEPT !.loading = TRUE]
  <2>1. NoTab \in TabState /\ NoTab.sid = 0
    BY DEF NoTab, TabState
  <2>2. rec \in TabState /\ rec.sid = 0
    BY <2>1, Zenon DEF TabState
  <2>3. tab' = [tab EXCEPT ![t] = rec]
    BY <1>3, Zenon DEF Load
  <2>4. \A c \in Call : home[c] = t => call'[c].at # "code"
    BY <1>3 DEF Load, NoCall
  <2> HIDE DEF rec
  <2> QED
    BY <1>0, <1>2, <2>2, <2>3, <2>4
<1>4. CASE closeSession(t)
  <2> DEFINE rec == [tab[t] EXCEPT !.closing = TRUE]
  <2>1. rec \in TabState /\ rec.asking = tab[t].asking /\ rec.portal = tab[t].portal /\ rec.sid = tab[t].sid
    BY <1>0, Zenon DEF TabState
  <2>2. tab' = [tab EXCEPT ![t] = rec]
    BY <1>4, Zenon DEF closeSession
  <2>3. rec.sid \in 0..Len(server') /\ (tab[t].asking => rec.asking) /\ (tab[t].portal => rec.portal)
    BY <1>0, <2>1, Zenon
  <2> HIDE DEF rec
  <2> QED
    BY <1>1, <2>1, <2>2, <2>3
<1>5. CASE SessionClosed(t) \/ CloseFails(t) \/ SessionLocked(t)
  <2> DEFINE clear == clearSession(tab[t])
  <2>1. clear \in TabState /\ clear.sid = 0
    <3>1. clear.sid = 0
      BY <1>0, Zenon DEF clearSession, TabState
    <3> QED
      BY <1>0, <3>1, ClearSession, Zenon
  <2> HIDE DEF clear
  <2>2. [clear EXCEPT !.closing = FALSE] \in TabState /\ [clear EXCEPT !.closing = FALSE].sid = 0
    BY <2>1, Zenon DEF TabState
  <2>3. PICK rec \in {clear, [clear EXCEPT !.closing = FALSE]} : tab' = [tab EXCEPT ![t] = rec]
    BY <1>5, Zenon DEF SessionClosed, CloseFails, SessionLocked, clear
  <2>4. \A c \in Call : home[c] = t => call'[c].at # "code"
    BY <1>5, Finished DEF SessionClosed, CloseFails, SessionLocked
  <2>5. rec \in TabState /\ rec.sid \in 0..Len(server')
    BY <1>0, <2>1, <2>2, <2>3, Zenon
  <2> QED
    BY <1>2, <2>3, <2>4, <2>5
<1>6. CASE CodeAtTheDoor(t)
  <2> DEFINE rec == [tab[t] EXCEPT !.mfa = TRUE, !.portal = TRUE]
  <2>1. rec \in TabState /\ rec.asking = tab[t].asking /\ rec.portal /\ rec.sid = tab[t].sid
    BY <1>0, Zenon DEF TabState
  <2>2. tab' = [tab EXCEPT ![t] = rec]
    BY <1>6, Zenon DEF CodeAtTheDoor
  <2>3. rec.sid \in 0..Len(server') /\ (tab[t].asking => rec.asking) /\ (tab[t].portal => rec.portal)
    BY <1>0, <2>1, Zenon
  <2> HIDE DEF rec
  <2> QED
    BY <1>1, <2>1, <2>2, <2>3
<1>7. CASE EnterPanel(t)
  <2> DEFINE rec == [tab[t] EXCEPT !.portal = TRUE]
  <2>1. rec \in TabState /\ rec.asking = tab[t].asking /\ rec.portal /\ rec.sid = tab[t].sid
    BY <1>0, Zenon DEF TabState
  <2>2. tab' = [tab EXCEPT ![t] = rec]
    BY <1>7, Zenon DEF EnterPanel
  <2>3. rec.sid \in 0..Len(server') /\ (tab[t].asking => rec.asking) /\ (tab[t].portal => rec.portal)
    BY <1>0, <2>1, Zenon
  <2> HIDE DEF rec
  <2> QED
    BY <1>1, <2>1, <2>2, <2>3
<1>8. CASE LeavePanel(t)
  <2> DEFINE rec == [tab[t] EXCEPT !.portal = FALSE, !.asking = FALSE]
  <2>1. rec \in TabState /\ rec.sid = tab[t].sid
    BY <1>0, Zenon DEF TabState
  <2>2. tab' = [tab EXCEPT ![t] = rec]
    BY <1>8, Zenon DEF LeavePanel
  <2>3. \A c \in Call : home[c] = t => call'[c].at # "code"
    BY <1>8, Finished DEF LeavePanel
  <2>4. rec.sid \in 0..Len(server')
    BY <1>0, <2>1, Zenon
  <2> HIDE DEF rec
  <2> QED
    BY <1>2, <2>1, <2>2, <2>3, <2>4
<1>9. CASE CodeInTheDialog(t)
  <2> DEFINE rec == [tab[t] EXCEPT !.asking = FALSE]
  <2>1. rec \in TabState /\ rec.sid = tab[t].sid
    BY <1>0, Zenon DEF TabState
  <2>2. tab' = [tab EXCEPT ![t] = rec]
    BY <1>9, Zenon DEF CodeInTheDialog
  <2>3. \A c \in Call : home[c] = t => call'[c].at # "code"
    <3> SUFFICES ASSUME NEW c \in Call, home[c] = t PROVE call'[c].at # "code"
      OBVIOUS
    <3>1. call'[c] = IF call[c].at = "code" THEN SendAgain(call[c], FALSE, TRUE) ELSE call[c]
      BY <1>9, Zenon DEF CodeInTheDialog, Moving
    <3>2. SendAgain(call[c], FALSE, TRUE).at = "out"
      <4>1. call[c] \in CallState
        BY <1>0 DEF TypeOK
      <4> QED
        BY <4>1, SentAgain, Zenon
    <3> QED
      BY <3>1, <3>2, Zenon
  <2>4. rec.sid \in 0..Len(server')
    BY <1>0, <2>1, Zenon
  <2> HIDE DEF rec
  <2> QED
    BY <1>2, <2>1, <2>2, <2>3, <2>4
<1>10. CASE CodeNeedsToken(t)
  BY <1>0, <1>10, NoTabChanged DEF CodeNeedsToken
<1>11. ASSUME NEW p \in Person, Login(t, p) PROVE TabsKeep
  <2> DEFINE rec == [tab[t] EXCEPT !.sid = Len(server'), !.mfa = FALSE]
  <2>1. Len(server') \in 0..Len(server')
    BY DEF Stay
  <2>2. Len(server') \in {0} \cup Sid
    BY <1>0, <2>1
  <2>3. rec \in TabState /\ rec.asking = tab[t].asking /\ rec.portal = tab[t].portal /\ rec.sid = Len(server')
    BY <1>0, <2>2, Zenon DEF TabState
  <2>4. tab' = [tab EXCEPT ![t] = rec]
    BY <1>11, Zenon DEF Login
  <2>5. rec.sid \in 0..Len(server') /\ (tab[t].asking => rec.asking) /\ (tab[t].portal => rec.portal)
    BY <2>1, <2>3, Zenon
  <2> HIDE DEF rec
  <2> QED
    BY <1>1, <2>3, <2>4, <2>5
<1> QED
  BY <1>3, <1>4, <1>5, <1>6, <1>7, <1>8, <1>9, <1>10, <1>11 DEF TabStep

LEMMA TabsSteps == ASSUME Before, Step PROVE TabsKeep
<1>0. Stay
  BY SessionsStay DEF Before
<1>1. ~WaitStep => RequestsMove
  BY OthersMove
<1>2. CASE WaitStep
  BY <1>0, <1>1, <1>2, RequestTabs DEF WaitStep, CallStep
<1>3. CASE ~WaitStep
  <2>1. ASSUME NEW s \in Sid, GraceEnds(s) \/ PanelCloses(s) PROVE TabsKeep
    BY <1>0, <1>1, <1>3, <2>1, NoMoreWaiters, NoTabChanged DEF GraceEnds, PanelCloses, Before
  <2> QED
    BY <1>0, <1>1, <1>3, <2>1, RefreshTabs, RequestTabs, PanelTabs DEF Step
<1> QED
  BY <1>2, <1>3

LEMMA CookieSteps == ASSUME Before, Step PROVE jar' \in Cookie /\ CookieKnown'
<1>0. /\ Stay /\ Len(server) \in Nat /\ Len(server') \in Nat /\ Len(server) <= Len(server')
      /\ Len(server') <= MaxSessions /\ MaxSessions \in Nat /\ MaxKey \in Nat \ {0}
  BY SessionsStay, WebSessionAssumption DEF Before, Stay, TypeOK
<1>1. CASE UNCHANGED jar
  <2>1. jar \in Cookie /\ jar.sid \in Nat /\ jar.sid <= Len(server)
    BY WebSessionAssumption DEF Before, TypeOK, CookieKnown, Cookie, NoCookie, Sid
  <2> QED
    BY <1>0, <1>1, <2>1 DEF CookieKnown
<1>2. CASE jar' = NoCookie
  BY <1>0, <1>2 DEF Cookie, NoCookie, CookieKnown
<1>3. ASSUME NEW a \in attempts, jar' = a.cookie PROVE jar' \in Cookie /\ CookieKnown'
  <2>1. a.cookie \in Cookie /\ a.cookie.sid \in Nat /\ a.cookie.sid <= Len(server)
    BY AttemptType DEF Before, AttemptsTold, Told
  <2> QED
    BY <1>0, <1>3, <2>1 DEF CookieKnown
<1>4. ASSUME NEW t \in Tab, NEW p \in Person, Login(t, p) PROVE jar' \in Cookie /\ CookieKnown'
  <2>1. jar' = [sid |-> Len(server'), key |-> 1] /\ Len(server') = Len(server) + 1
    BY <1>4 DEF Login, Before, TypeOK
  <2> QED
    BY <1>0, <2>1 DEF CookieKnown, Cookie, Sid
<1>5. ASSUME NEW a \in attempts, RefreshStep(a) PROVE jar' \in Cookie /\ CookieKnown'
  BY <1>1, <1>2, <1>3, <1>5
     DEF RefreshStep, ServerRefresh, RefreshLost, RefreshGranted, RefreshRefused, RefreshPauses, RefreshAgain
<1>6. ASSUME NEW c \in Call, Send(c) \/ CallStep(c) PROVE jar' \in Cookie /\ CookieKnown'
  BY <1>1, <1>6 DEF Send, CallStep, ServerCall, Unauthorized, retryAfterCode, Answered
<1>7. ASSUME NEW t \in Tab, TabStep(t) PROVE jar' \in Cookie /\ CookieKnown'
  BY <1>1, <1>2, <1>4, <1>7
     DEF TabStep, Load, closeSession, SessionClosed, CloseFails, CodeAtTheDoor, EnterPanel, LeavePanel,
         CodeInTheDialog, CodeNeedsToken, SessionLocked
<1>8. ASSUME NEW s \in Sid, GraceEnds(s) \/ PanelCloses(s) PROVE jar' \in Cookie /\ CookieKnown'
  BY <1>1, <1>8 DEF GraceEnds, PanelCloses
<1> QED
  BY <1>5, <1>6, <1>7, <1>8 DEF Step

-----------------------------------------------------------------------------
(* The races of the tabs.                                                  *)

\* The attempts of a session that are on their way to identity-service, and
\* those that bring its newest key back.
OutOf(s) == {a \in attempts : a.cookie.sid = s /\ a.at = "out"}
GrantedOf(s) == {a \in attempts : a.cookie.sid = s /\ Granted(a)}

\* Whoever will present a key of this session presents the newest one or one
\* whose grace is not over; the newest one is in the browser or in the one
\* answer that brings it, and in that case nobody presents it yet.
RaceSafe(s) ==
    /\ \A k \in server[s].recent : k < server[s].key
    /\ \A a \in OutOf(s) : a.cookie.key = server[s].key \/ a.cookie.key \in server[s].recent
    /\ \A a, b \in GrantedOf(s) : a = b
    /\ \A a \in GrantedOf(s) : a.cookie.key = server[s].key
    /\ GrantedOf(s) # {} => \A a \in OutOf(s) : a.cookie.key \in server[s].recent
    /\ jar.sid = s /\ GrantedOf(s) = {} => jar.key = server[s].key
    /\ jar.sid = s /\ GrantedOf(s) # {} => jar.key \in server[s].recent
RacesAreSafe == \A s \in 1..Len(server) : server[s].live /\ s \notin stray => RaceSafe(s)

\* A step that leaves the keys of a session alone, starts no attempt with
\* another cookie than the browser's, and mislays no answer.
LEMMA Quiet ==
    ASSUME Before, NEW s \in 1..Len(server), RaceSafe(s), ~Mislaid(s),
           server'[s].key = server[s].key, server'[s].recent = server[s].recent,
           GrantedOf(s)' \subseteq GrantedOf(s),
           \A a \in OutOf(s)' : a \in OutOf(s) \/ a.cookie = jar,
           jar'.sid = s => jar' = jar
    PROVE  RaceSafe(s)'
<1>1. server[s].key \in Nat /\ \A k \in server[s].recent : k < server[s].key
  BY SessionOf, WebSessionAssumption DEF Before, RaceSafe
<1>2. ASSUME NEW a \in GrantedOf(s) PROVE a \in GrantedOf(s)'
  <2>1. jar' # a.cookie
    <3> SUFFICES ASSUME jar' = a.cookie PROVE FALSE
      OBVIOUS
    <3>1. jar.sid = s /\ jar = a.cookie
      BY DEF GrantedOf
    <3>2. jar.key = server[s].key /\ jar.key \in server[s].recent
      BY <3>1 DEF RaceSafe
    <3> QED
      BY <1>1, <3>2
  <2>2. a \in attempts'
    BY <2>1 DEF Mislaid, GrantedOf
  <2> QED
    BY <2>2 DEF GrantedOf
<1>3. GrantedOf(s)' = GrantedOf(s)
  BY <1>2
<1>4. \A a \in OutOf(s)' : a \in OutOf(s) \/ (a.cookie = jar /\ jar.sid = s)
  BY DEF OutOf
<1> QED
  BY <1>3, <1>4 DEF RaceSafe

\* A refresh that is let in: the key of before is in its grace, and the answer
\* that brings the new one is the only one.
LEMMA LetIn ==
    ASSUME Before, NEW s \in 1..Len(server), RaceSafe(s), NEW a \in attempts, NEW b,
           a.at = "out", a.cookie.sid = s, a.cookie.key = server[s].key,
           a.cookie.key \notin server[s].recent,
           b.at = "back", Granted(b), b.cookie.sid = s, b.cookie.key = server[s].key + 1,
           attempts' = (attempts \ {a}) \cup {b}, jar' = jar,
           server'[s].key = server[s].key + 1, server'[s].recent = server[s].recent \cup {server[s].key}
    PROVE  RaceSafe(s)'
<1>1. server[s].key \in Nat /\ \A k \in server[s].recent : k \in Nat /\ k < server[s].key
  BY SessionOf, WebSessionAssumption DEF Before, RaceSafe
<1>2. a \in OutOf(s) /\ GrantedOf(s) = {}
  BY DEF OutOf, RaceSafe
<1>3. OutOf(s)' \subseteq OutOf(s) /\ GrantedOf(s)' \subseteq {b}
  BY <1>2 DEF OutOf, GrantedOf
<1>4. \A x \in OutOf(s)' : x.cookie.key \in server'[s].recent
  BY <1>3 DEF RaceSafe
<1>5. \A k \in server'[s].recent : k < server'[s].key
  BY <1>1
<1>6. \A x \in GrantedOf(s)' : x = b /\ x.cookie.key = server'[s].key
  BY <1>3
<1>7. jar'.sid = s => jar'.key \in server'[s].recent
  BY <1>2 DEF RaceSafe
<1>8. b \in GrantedOf(s)'
  BY DEF GrantedOf, Granted
<1> QED
  BY <1>4, <1>5, <1>6, <1>7, <1>8 DEF RaceSafe

\* A step of one session leaves the keys of the others alone.
LEMMA SameKeys ==
    ASSUME TypeOK, NEW s \in 1..Len(server), NEW x \in Nat, NEW new,
           server' = [server EXCEPT ![x] = new],
           x \in 1..Len(server) => new \in Session,
           x = s => new.key = server[x].key /\ new.recent = server[x].recent
    PROVE  server'[s].key = server[s].key /\ server'[s].recent = server[s].recent
<1>1. server \in Seq(Session)
  BY DEF TypeOK
<1>2. server'[s] = IF s = x THEN new ELSE server[s]
  BY <1>1, OneChanged
<1> QED
  BY <1>2

LEMMA RefreshRaces ==
    ASSUME Before, NEW s \in 1..Len(server), RaceSafe(s), ~Mislaid(s), server'[s].live,
           NEW a \in attempts, RefreshStep(a)
    PROVE  RaceSafe(s)'
<1>0. /\ a \in Attempt /\ a.cookie \in Cookie /\ a.cookie.sid \in Nat /\ Told(a, server)
      /\ TypeOK /\ s # 0 /\ server \in Seq(Session) /\ NoCookie.sid = 0
  BY AttemptType DEF Before, AttemptsTold, TypeOK, NoCookie
<1>1. CASE ServerRefresh(a)
  <2> DEFINE x == a.cookie.sid
  <2> DEFINE key == a.cookie.key
  <2> DEFINE answered(answer, cookie) == [a EXCEPT !.at = "back", !.answer = answer, !.cookie = cookie]
  <2>0. /\ x = 0 \/ x \in 1..Len(server)
        /\ jar' = jar /\ a.at = "out"
    BY <1>0, <1>1 DEF Told, ServerRefresh
  <2>1. ASSUME NEW answer \in {"token_recien_usado", "invalid"},
               attempts' = (attempts \ {a}) \cup {answered(answer, a.cookie)},
               server' = server \/ (x # s /\ server' = [server EXCEPT ![x] = Ended(@)])
        PROVE  RaceSafe(s)'
    <3> DEFINE b == answered(answer, a.cookie)
    <3>1. b.at = "back" /\ b.answer = answer
      BY <1>0, Zenon DEF Attempt
    <3>2. GrantedOf(s)' \subseteq GrantedOf(s) /\ OutOf(s)' \subseteq OutOf(s)
      <4> HIDE DEF b
      <4> QED
        BY <2>1, <3>1 DEF b, GrantedOf, OutOf, Granted
    <3>3. server'[s].key = server[s].key /\ server'[s].recent = server[s].recent
      BY <1>0, <2>1
    <3> QED
      BY <2>0, <3>2, <3>3, Quiet
  <2>2. CASE server' = [server EXCEPT ![x] = ReuseCloses(@)] /\ x = s
    <3>1. server'[s] = Ended(server[s])
      BY <1>0, <2>2 DEF ReuseCloses
    <3>2. ~Ended(server[s]).live
      BY <1>0, SessionOf, EndedSession
    <3> QED
      BY <3>1, <3>2, Zenon
  <2>3. CASE /\ ~(x # 0 /\ (key # server[x].key \/ Raced(x, key)))
             /\ Live(x) /\ key < MaxKey
             /\ server' = [server EXCEPT ![x].key = key + 1, ![x].recent = @ \cup {key}]
             /\ attempts' = (attempts \ {a}) \cup
                   {answered(IF server[x].mfa THEN "token_mfa" ELSE "token", [a.cookie EXCEPT !.key = key + 1])}
    <3> DEFINE cookie == [a.cookie EXCEPT !.key = key + 1]
    <3> DEFINE answer == IF server[x].mfa THEN "token_mfa" ELSE "token"
    <3> DEFINE b == answered(answer, cookie)
    <3> DEFINE new == [server[x] EXCEPT !.key = key + 1, !.recent = @ \cup {key}]
    <3>1. x \in 1..Len(server) /\ key = server[x].key /\ key \notin server[x].recent
      BY <1>0, <2>0, <2>3 DEF Live, Raced
    <3>2. a.cookie \in [sid : Sid, key : 1..MaxKey]
      BY <1>0, <3>1 DEF Cookie, NoCookie
    <3>3. cookie.sid = x /\ cookie.key = key + 1
      BY <3>2, Zenon
    <3>4. b.at = "back" /\ b.answer = answer /\ b.cookie = cookie
      BY <1>0, Zenon DEF Attempt
    <3>5. answer \in {"token", "token_mfa"}
      OBVIOUS
    <3>6. new.key = key + 1 /\ new.recent = server[x].recent \cup {key}
      <4>1. server[x] \in Session
        BY <1>0, <3>1
      <4> QED
        BY <4>1, Zenon DEF Session
    <3>7. server' = [server EXCEPT ![x] = new]
      BY <2>3, Zenon
    <3>8. attempts' = (attempts \ {a}) \cup {b}
      BY <2>3
    <3> HIDE DEF b, answer, cookie, new
    <3>9. CASE x = s
      <4>1. server'[s] = new
        BY <1>0, <3>7, <3>9
      <4>2. Granted(b)
        BY <3>4, <3>5 DEF Granted
      <4> QED
        BY <2>0, <3>1, <3>3, <3>4, <3>6, <3>8, <3>9, <4>1, <4>2, LetIn
    <3>10. CASE x # s
      <4>1. server'[s] = server[s]
        BY <1>0, <3>7, <3>10
      <4>2. GrantedOf(s)' \subseteq GrantedOf(s) /\ OutOf(s)' \subseteq OutOf(s)
        BY <3>3, <3>4, <3>8, <3>10 DEF GrantedOf, OutOf
      <4> QED
        BY <2>0, <4>1, <4>2, Quiet
    <3> QED
      BY <3>9, <3>10
  <2>4. CASE UNCHANGED server /\ \E answer \in {"token_recien_usado", "invalid"} :
                attempts' = (attempts \ {a}) \cup {answered(answer, a.cookie)}
    BY <2>1, <2>4
  <2>5. CASE server' = [server EXCEPT ![x] = ReuseCloses(@)] /\ x # s
             /\ attempts' = (attempts \ {a}) \cup {answered("invalid", a.cookie)}
    BY <2>1, <2>5 DEF ReuseCloses
  <2> QED
    BY <1>1, <2>2, <2>3, <2>4, <2>5 DEF ServerRefresh
<1>2. CASE RefreshGranted(a)
  <2>1. jar' = a.cookie /\ attempts' = attempts \ {a} /\ server' = server /\ Granted(a)
    BY <1>2 DEF RefreshGranted, Granted
  <2>2. GrantedOf(s)' \subseteq GrantedOf(s) /\ OutOf(s)' \subseteq OutOf(s)
    BY <2>1 DEF GrantedOf, OutOf
  <2>3. CASE a.cookie.sid # s
    BY <2>1, <2>2, <2>3, Quiet
  <2>4. CASE a.cookie.sid = s
    <3>1. a \in GrantedOf(s)
      BY <2>1, <2>4 DEF GrantedOf
    <3>2. GrantedOf(s)' = {}
      BY <2>1, <2>2, <3>1 DEF RaceSafe, GrantedOf
    <3>3. jar'.key = server'[s].key
      BY <2>1, <3>1 DEF RaceSafe
    <3> QED
      BY <2>1, <2>2, <3>2, <3>3 DEF RaceSafe
  <2> QED
    BY <2>3, <2>4
<1>3. CASE SignedOut(a) /\ (jar' = NoCookie \/ UNCHANGED jar)
  <2>1. attempts' = attempts \ {a} /\ server' = server
    BY <1>3 DEF SignedOut
  <2>2. GrantedOf(s)' \subseteq GrantedOf(s) /\ OutOf(s)' \subseteq OutOf(s)
    BY <2>1 DEF GrantedOf, OutOf
  <2> QED
    BY <1>0, <1>3, <2>1, <2>2, Quiet
<1>4. CASE RefreshPauses(a)
  <2> DEFINE b == [a EXCEPT !.at = "pause", !.answer = "none"]
  <2>1. b.at = "pause" /\ b.answer = "none"
    BY <1>0, Zenon DEF Attempt
  <2>2. attempts' = (attempts \ {a}) \cup {b} /\ server' = server /\ jar' = jar
    BY <1>4 DEF RefreshPauses
  <2> HIDE DEF b
  <2>3. GrantedOf(s)' \subseteq GrantedOf(s) /\ OutOf(s)' \subseteq OutOf(s)
    BY <2>1, <2>2 DEF GrantedOf, OutOf, Granted
  <2> QED
    BY <2>2, <2>3, Quiet
<1>5. CASE RefreshAgain(a)
  <2> DEFINE b == [a EXCEPT !.at = "out", !.tries = 2, !.cookie = jar]
  <2>1. b.at = "out" /\ b.answer = "none" /\ b.cookie = jar
    <3>1. a.answer = "none"
      BY <1>0, <1>5 DEF Told, RefreshAgain
    <3> QED
      BY <1>0, <3>1, Zenon DEF Attempt
  <2>2. attempts' = (attempts \ {a}) \cup {b} /\ server' = server /\ jar' = jar
    BY <1>5 DEF RefreshAgain
  <2> HIDE DEF b
  <2>3. GrantedOf(s)' \subseteq GrantedOf(s) /\ \A y \in OutOf(s)' : y \in OutOf(s) \/ y.cookie = jar
    BY <2>1, <2>2 DEF GrantedOf, OutOf, Granted
  <2> QED
    BY <2>2, <2>3, Quiet
<1> QED
  BY <1>1, <1>2, <1>3, <1>4, <1>5 DEF RefreshStep, RefreshLost, RefreshRefused

\* The attempts a tab starts carry the cookie of the browser.
LEMMA StartedRaces ==
    ASSUME Before, NEW s \in 1..Len(server), RaceSafe(s), ~Mislaid(s), NEW t \in Tab,
           attempts' \subseteq attempts \cup {NewAttempt(t)}, jar' = jar \/ jar'.sid # s,
           server'[s].key = server[s].key, server'[s].recent = server[s].recent
    PROVE  RaceSafe(s)'
<1>1. NewAttempt(t).answer = "none" /\ NewAttempt(t).cookie = jar
  BY DEF NewAttempt
<1>2. GrantedOf(s)' \subseteq GrantedOf(s) /\ \A y \in OutOf(s)' : y \in OutOf(s) \/ y.cookie = jar
  BY <1>1 DEF GrantedOf, OutOf, Granted
<1> QED
  BY <1>2, Quiet

LEMMA TabRaces ==
    ASSUME Before, NEW s \in 1..Len(server), RaceSafe(s), ~Mislaid(s), server'[s].live,
           NEW t \in Tab, TabStep(t)
    PROVE  RaceSafe(s)'
<1>0. /\ server \in Seq(Session) /\ s # 0 /\ s # Len(server) + 1 /\ NoCookie.sid = 0 /\ TypeOK
      /\ tab[t].sid \in Nat /\ jar.sid \in Nat /\ tab[t].sid <= Len(server)
      /\ startRefresh(t) \subseteq attempts \cup {NewAttempt(t)}
  BY WebSessionAssumption DEF Before, TypeOK, NoCookie, TabState, Cookie, Sid, TabsKnown, startRefresh, NewAttempt
<1>1. CASE Load(t)
  <2>1. attempts' \subseteq attempts \cup {NewAttempt(t)} /\ jar' = jar /\ server' = server
    BY <1>1 DEF Load, NewAttempt
  <2> QED
    BY <2>1, StartedRaces
<1>2. CASE closeSession(t) /\ jar.sid = s
  <2>1. server'[s] = Blacklisted(Ended(server[s]), jar.key)
    BY <1>0, <1>2 DEF closeSession
  <2>2. Ended(server[s]) \in Session /\ ~Ended(server[s]).live
    BY <1>0, SessionOf, EndedSession
  <2>3. ~server'[s].live
    BY <2>1, <2>2, Zenon DEF Blacklisted, Session
  <2> QED
    BY <2>3
<1>3. CASE closeSession(t) /\ jar.sid # s
  <2>1. server'[s] = server[s] /\ attempts' = attempts /\ jar' = jar
    BY <1>0, <1>3 DEF closeSession
  <2> QED
    BY <2>1, StartedRaces
<1>4. CASE SessionClosed(t) \/ CloseFails(t) \/ EnterPanel(t) \/ LeavePanel(t) \/ CodeNeedsToken(t)
  <2>1. attempts' \subseteq attempts \cup {NewAttempt(t)} /\ (jar' = jar \/ jar'.sid # s) /\ server' = server
    BY <1>0, <1>4 DEF SessionClosed, CloseFails, EnterPanel, LeavePanel, CodeNeedsToken
  <2> QED
    BY <2>1, StartedRaces
<1>5. CASE CodeAtTheDoor(t) \/ CodeInTheDialog(t)
  <2> DEFINE x == tab[t].sid
  <2> DEFINE new == [server[x] EXCEPT !.mfa = TRUE, !.open = TRUE]
  <2>1. server' = [server EXCEPT ![x] = new] /\ attempts' = attempts /\ jar' = jar
    BY <1>5, Zenon DEF CodeAtTheDoor, CodeInTheDialog
  <2>2. x = s => server'[s].key = server[s].key /\ server'[s].recent = server[s].recent
    <3> SUFFICES ASSUME x = s PROVE server'[s].key = server[s].key /\ server'[s].recent = server[s].recent
      OBVIOUS
    <3>1. server[s] \in Session /\ server'[s] = new
      <4> HIDE DEF new
      <4> QED
        BY <1>0, <2>1
    <3> QED
      BY <3>1, Zenon DEF Session
  <2>3. x # s => server'[s] = server[s]
    BY <1>0, <2>1
  <2> QED
    BY <2>1, <2>2, <2>3, StartedRaces
<1>6. CASE SessionLocked(t)
  <2>1. server' = [server EXCEPT ![tab[t].sid] = Ended(server[tab[t].sid])] /\ attempts' = attempts /\ jar' = jar
    BY <1>6 DEF SessionLocked
  <2>2. CASE tab[t].sid = s
    <3>1. server'[s] = Ended(server[s])
      BY <1>0, <2>1, <2>2
    <3>2. ~Ended(server[s]).live
      BY <1>0, SessionOf, EndedSession
    <3> QED
      BY <3>1, <3>2, Zenon
  <2>3. CASE tab[t].sid # s
    <3>1. server'[s] = server[s]
      BY <1>0, <2>1, <2>3
    <3> QED
      BY <2>1, <3>1, StartedRaces
  <2> QED
    BY <2>2, <2>3
<1>7. ASSUME NEW p \in Person, Login(t, p) PROVE RaceSafe(s)'
  <2>1. server'[s] = server[s] /\ Len(server') = Len(server) + 1
    BY <1>0, <1>7 DEF Login
  <2>2. attempts' = attempts /\ jar'.sid # s
    BY <1>0, <1>7, <2>1 DEF Login
  <2> QED
    BY <2>1, <2>2, StartedRaces
<1> QED
  BY <1>1, <1>2, <1>3, <1>4, <1>5, <1>6, <1>7 DEF TabStep

\* The grace of its keys ends, with nobody under way who would need it.
LEMMA GraceRaces ==
    ASSUME Before, NEW s \in 1..Len(server), RaceSafe(s), ~Mislaid(s), ~TooSlow(s),
           NEW x \in Sid, GraceEnds(x)
    PROVE  RaceSafe(s)'
<1>0. server \in Seq(Session) /\ server[s] \in Session /\ DOMAIN server = 1..Len(server)
  BY SessionOf DEF Before, TypeOK
<1>1. attempts' = attempts /\ jar' = jar /\ x \in 1..Len(server)
  BY <1>0 DEF GraceEnds
<1>2. GrantedOf(s)' = GrantedOf(s) /\ OutOf(s)' = OutOf(s)
  BY <1>1 DEF GrantedOf, OutOf
<1> DEFINE new == [server[x] EXCEPT !.recent = {}]
<1>3. server' = [server EXCEPT ![x] = new]
  BY Zenon DEF GraceEnds
<1>4. CASE x # s
  <2>1. server'[s] = server[s]
    BY <1>0, <1>3, <1>4
  <2> QED
    BY <1>1, <1>2, <2>1, Quiet
<1>5. CASE x = s
  <2>1. server'[s] = new
    BY <1>0, <1>3, <1>5
  <2>2. server'[s].key = server[s].key /\ server'[s].recent = {}
    BY <1>0, <1>5, <2>1, Zenon DEF Session
  <2>3. server[s].recent # {} /\ s \in DOMAIN server
    BY <1>0, <1>5 DEF GraceEnds
  <2>4. GrantedOf(s) = {} /\ \A a \in OutOf(s) : a.cookie.key \notin server[s].recent
    BY <2>2, <2>3 DEF TooSlow, GrantedOf, OutOf
  <2> QED
    BY <1>1, <1>2, <2>2, <2>4 DEF RaceSafe
<1> QED
  BY <1>4, <1>5

LEMMA CallRaces ==
    ASSUME Before, NEW s \in 1..Len(server), RaceSafe(s), ~Mislaid(s), NEW c \in Call, Send(c) \/ CallStep(c)
    PROVE  RaceSafe(s)'
<1>1. home[c] \in Tab
  BY WebSessionAssumption
<1>2. startRefresh(home[c]) \subseteq attempts \cup {NewAttempt(home[c])}
  BY DEF startRefresh, NewAttempt
<1>3. attempts' \subseteq attempts \cup {NewAttempt(home[c])} /\ jar' = jar /\ server' = server
  BY <1>2 DEF Send, CallStep, ServerCall, Unauthorized, retryAfterCode, Answered
<1> QED
  BY <1>1, <1>3, StartedRaces

LEMMA PanelRaces ==
    ASSUME Before, NEW s \in 1..Len(server), RaceSafe(s), ~Mislaid(s), NEW x \in Sid, PanelCloses(x)
    PROVE  RaceSafe(s)'
<1> DEFINE new == [server[x] EXCEPT !.open = FALSE]
<1>0. server \in Seq(Session) /\ server[s] \in Session
  BY SessionOf DEF Before, TypeOK
<1>1. server' = [server EXCEPT ![x] = new] /\ attempts' = attempts /\ jar' = jar
  BY Zenon DEF PanelCloses
<1>2. x = s => server'[s] = [server[s] EXCEPT !.open = FALSE]
  <2> HIDE DEF new
  <2>1. x = s => server'[s] = new
    BY <1>0, <1>1
  <2> QED
    BY <2>1 DEF new
<1>3. [server[s] EXCEPT !.open = FALSE].key = server[s].key /\ [server[s] EXCEPT !.open = FALSE].recent = server[s].recent
  BY <1>0, Zenon DEF Session
<1>4. x # s => server'[s] = server[s]
  BY <1>0, <1>1
<1>5. GrantedOf(s)' \subseteq GrantedOf(s) /\ OutOf(s)' \subseteq OutOf(s)
  BY <1>1 DEF GrantedOf, OutOf
<1> QED
  BY <1>1, <1>2, <1>3, <1>4, <1>5, Quiet

\* Every step leaves the races of every session safe; a session that is new
\* has nobody who holds a key of it but the browser.
LEMMA RacesStaySafe == ASSUME Before, RacesAreSafe, Next PROVE RacesAreSafe'
<1> SUFFICES ASSUME NEW s \in 1..Len(server'), server'[s].live, s \notin stray' PROVE RaceSafe(s)'
  BY DEF RacesAreSafe
<1>0. /\ Step /\ Stay /\ s \in Nat /\ TypeOK /\ Len(server) \in Nat /\ Len(server') \in Nat
      /\ Len(server') <= MaxSessions /\ MaxSessions \in Nat /\ server \in Seq(Session)
  BY SessionsStay, WebSessionAssumption DEF Next, Before, TypeOK, Stay
<1>1. s \notin stray /\ s \in Sid /\ ~Mislaid(s) /\ ~TooSlow(s)
  <2>1. s \in Sid /\ s \in DOMAIN server'
    BY <1>0 DEF Stay, Sid
  <2> QED
    BY <2>1 DEF Next
<1>2. CASE s \in 1..Len(server)
  <2>1. RaceSafe(s)
    BY <1>0, <1>1, <1>2 DEF Stay, RacesAreSafe
  <2> QED
    BY <1>0, <1>1, <1>2, <2>1, RefreshRaces, TabRaces, GraceRaces, CallRaces, PanelRaces DEF Step
<1>3. CASE s \notin 1..Len(server)
  <2>1. Len(server') # Len(server)
    BY <1>0, <1>3
  <2>2. PICK t \in Tab, p \in Person : Login(t, p)
    BY <1>0, <2>1 DEF Stay
  <2>3. /\ Len(server') = Len(server) + 1 /\ attempts' = attempts
        /\ server'[Len(server) + 1] = [who |-> p, key |-> 1, recent |-> {}, live |-> TRUE, mfa |-> FALSE, open |-> FALSE]
        /\ jar' = [sid |-> Len(server'), key |-> 1]
    BY <1>0, <2>2 DEF Login
  <2>4. s = Len(server) + 1
    BY <1>0, <1>3, <2>3
  <2>5. \A a \in attempts : a.cookie.sid # s
    BY <1>0, <2>4, AttemptType DEF Before, AttemptsTold, Told
  <2>6. OutOf(s)' = {} /\ GrantedOf(s)' = {}
    BY <2>3, <2>5 DEF OutOf, GrantedOf
  <2> QED
    BY <2>3, <2>4, <2>6 DEF RaceSafe
<1> QED
  BY <1>2, <1>3

-----------------------------------------------------------------------------
(* The invariant and what it shows.                                        *)

(***************************************************************************)
(* The inductive invariant: one attempt per tab, what is known of it, of   *)
(* the cookie, the tabs and the requests, who waits for what, and how      *)
(* often a request was made.                                               *)
(***************************************************************************)
IInv == Before /\ \A c \in Call : Counted(call[c])

\* It holds when the browser is opened.
LEMMA IInvInit == Init => IInv
<1> SUFFICES ASSUME Init PROVE IInv
  OBVIOUS
<1>1. TypeOK
  BY NothingYet, WebSessionAssumption DEF Init, TypeOK
<1>2. OneAttemptPerTab /\ AttemptsTold
  BY DEF Init, OneAttemptPerTab, AttemptsTold
<1>3. \A c \in Call : call[c].at = "idle" /\ Counted(call[c])
  BY DEF Init, NoCall, Counted
<1>4. WaitersAreServed /\ RequestsKnown
  BY <1>3 DEF WaitersAreServed, RequestsKnown
<1>5. CookieKnown /\ TabsKnown
  BY DEF Init, CookieKnown, TabsKnown, NoCookie, NoTab
<1> QED
  BY <1>1, <1>2, <1>3, <1>4, <1>5 DEF IInv, Before

\* Every step keeps it.
LEMMA IInvNext == IInv /\ [Next]_vars => IInv'
<1> SUFFICES ASSUME IInv, [Next]_vars PROVE IInv'
  OBVIOUS
<1>1. CASE UNCHANGED vars
  BY <1>1 DEF vars, sessionVars, IInv, Before, TypeOK, OneAttemptPerTab, AttemptsTold, WaitersAreServed,
              CookieKnown, TabsKnown, RequestsKnown
<1>2. CASE Next
  <2>0. Step /\ stray' \subseteq Sid
    BY <1>2 DEF Next, IInv, Before, TypeOK
  <2>1. Before
    BY DEF IInv
  <2>2. Stay /\ AttemptsKeep /\ TabsKeep /\ jar' \in Cookie /\ CookieKnown'
    BY <2>0, <2>1, SessionsStay, AttemptsSteps, TabsSteps, CookieSteps DEF Before
  <2>3. call' \in [Call -> CallState] /\ \A c \in Call : Counted(call'[c])
    BY <2>0, <2>1, RequestsKeep DEF IInv
  <2>4. TypeOK'
    BY <2>0, <2>2, <2>3 DEF TypeOK, Stay, AttemptsKeep, TabsKeep
  <2>5. WaitersAreServed'
    BY <2>2 DEF WaitersAreServed, AttemptsKeep, TabsKeep
  <2>6. RequestsKnown'
    <3>1. \A c \in Call : call'[c].at # "idle" => call'[c].sid \in 1..Len(server)
      BY <2>0, <2>1, RequestsStayKnown
    <3>2. Len(server) \in Nat /\ Len(server') \in Nat /\ Len(server) <= Len(server')
      BY <2>1, <2>2 DEF Stay, Before, TypeOK
    <3> QED
      BY <3>1, <3>2 DEF RequestsKnown
  <2> QED
    BY <2>2, <2>3, <2>4, <2>5, <2>6 DEF IInv, Before, AttemptsKeep, TabsKeep
<1> QED
  BY <1>1, <1>2

LEMMA Invariant == Spec => []IInv
  BY IInvInit, IInvNext, PTL DEF Spec

\* Every variable of the session keeps its type.
THEOREM TypeCorrect == Spec => []TypeOK
<1>1. IInv => TypeOK
  BY DEF IInv, Before
<1> QED
  BY <1>1, Invariant, PTL

(***************************************************************************)
(* All the requests of a tab share one attempt to renew the token, however *)
(* many are refused at once (refreshSession of AuthContext.tsx).           *)
(***************************************************************************)
THEOREM OneAttempt == Spec => []OneAttemptPerTab
<1>1. IInv => OneAttemptPerTab
  BY DEF IInv, Before
<1> QED
  BY <1>1, Invariant, PTL

(***************************************************************************)
(* No request waits for a token or a code that nobody is asking for        *)
(* (apiFetch and TotpGateProvider), whatever the other tabs, the services  *)
(* and the person did in between.                                          *)
(***************************************************************************)
THEOREM NobodyWaitsForNothing == Spec => []WaitersAreServed
<1>1. IInv => WaitersAreServed
  BY DEF IInv, Before
<1> QED
  BY <1>1, Invariant, PTL

(***************************************************************************)
(* A request is made three times at the most and carried out at the most   *)
(* once: the two retries of apiFetch never feed each other.                *)
(***************************************************************************)
THEOREM RetriesEnd == Spec => []NeverInALoop
<1>1. ASSUME IInv PROVE NeverInALoop
  BY <1>1 DEF IInv, Counted, NeverInALoop
<1> QED
  BY <1>1, Invariant, PTL

(***************************************************************************)
(* Both at once: a request that was refused waits for something that comes *)
(* and is not made for ever.                                               *)
(***************************************************************************)
THEOREM RequestsStayServed == Spec => []RequestsAreServed
<1>1. RequestsAreServed <=> WaitersAreServed /\ NeverInALoop
  BY DEF RequestsAreServed
<1> QED
  BY <1>1, NobodyWaitsForNothing, RetriesEnd, PTL

(***************************************************************************)
(* However many tabs race for the cookie, whichever way their requests and *)
(* answers cross, no session ends but by who closes it or by the lock of   *)
(* the panel, as long as its newest key reached the browser in time.       *)
(***************************************************************************)
THEOREM NoRaceEndsASession == Spec => SessionEndsForCause
<1>1. Init => RacesAreSafe
  BY DEF Init, RacesAreSafe
<1>2. ASSUME IInv, RacesAreSafe, [Next]_vars PROVE RacesAreSafe'
  <2>1. CASE Next
    BY <1>2, <2>1, RacesStaySafe DEF IInv
  <2>2. CASE UNCHANGED vars
    BY <1>2, <2>2 DEF vars, sessionVars, RacesAreSafe, RaceSafe, OutOf, GrantedOf
  <2> QED
    BY <1>2, <2>1, <2>2
<1>3. ASSUME IInv, RacesAreSafe, [Next]_vars,
             NEW s \in DOMAIN server, server[s].live, ~server'[s].live, s \notin stray
      PROVE  \E t \in Tab : closeSession(t) \/ SessionLocked(t)
  <2>0. Before /\ TypeOK /\ s \in 1..Len(server) /\ server \in Seq(Session) /\ RaceSafe(s) /\ s \in Nat
    BY <1>3 DEF IInv, Before, TypeOK, RacesAreSafe
  <2>1. server' # server
    BY <1>3
  <2>2. Step
    BY <1>3, <2>1 DEF Next, vars, sessionVars
  <2>3. ASSUME NEW a \in attempts, ServerRefresh(a) PROVE FALSE
    <3> DEFINE x == a.cookie.sid
    <3>1. x \in Nat
      BY <2>0, AttemptType
    <3>2. CASE server' = [server EXCEPT ![x] = ReuseCloses(@)] /\ x # 0 /\ (a.cookie.key # server[x].key \/ Raced(x, a.cookie.key)) /\ ~Raced(x, a.cookie.key)
      <4>1. x = s
        BY <1>3, <2>0, <3>2
      <4>2. a \in OutOf(s)
        BY <2>3, <4>1 DEF ServerRefresh, OutOf
      <4> QED
        BY <2>0, <3>2, <4>1, <4>2 DEF RaceSafe, Raced
    <3>3. CASE server' = [server EXCEPT ![x].key = a.cookie.key + 1, ![x].recent = @ \cup {a.cookie.key}]
      <4> DEFINE new == [server[x] EXCEPT !.key = a.cookie.key + 1, !.recent = @ \cup {a.cookie.key}]
      <4>1. server' = [server EXCEPT ![x] = new]
        BY <3>3, Zenon
      <4>2. x \in 1..Len(server) => new.live = server[x].live
        <5> SUFFICES ASSUME x \in 1..Len(server) PROVE new.live = server[x].live
          OBVIOUS
        <5>1. server[x] \in Session
          BY <2>0
        <5> QED
          BY <5>1, Zenon DEF Session
      <4> HIDE DEF new
      <4> QED
        BY <1>3, <2>0, <4>1, <4>2
    <3> QED
      BY <2>1, <2>3, <3>2, <3>3 DEF ServerRefresh
  <2>4. ASSUME NEW new, NEW x \in Nat, server' = [server EXCEPT ![x] = new],
               x \in 1..Len(server) => new.live = server[x].live
        PROVE  FALSE
    BY <1>3, <2>0, <2>4
  <2>5. ASSUME NEW x \in 1..Len(server)
        PROVE  /\ [server[x] EXCEPT !.recent = {}].live = server[x].live
               /\ [server[x] EXCEPT !.open = FALSE].live = server[x].live
               /\ [server[x] EXCEPT !.mfa = TRUE, !.open = TRUE].live = server[x].live
    <3>1. server[x] \in Session
      BY <2>0
    <3> QED
      BY <3>1, Zenon DEF Session
  <2>6. ASSUME NEW x \in Sid, GraceEnds(x) \/ PanelCloses(x) PROVE FALSE
    <3>1. x \in Nat
      BY WebSessionAssumption DEF Sid
    <3>2. \/ server' = [server EXCEPT ![x] = [server[x] EXCEPT !.recent = {}]]
          \/ server' = [server EXCEPT ![x] = [server[x] EXCEPT !.open = FALSE]]
      BY <2>6, Zenon DEF GraceEnds, PanelCloses
    <3> QED
      BY <2>4, <2>5, <3>1, <3>2
  <2>7. ASSUME NEW t \in Tab, CodeAtTheDoor(t) \/ CodeInTheDialog(t) PROVE FALSE
    <3>1. tab[t].sid \in Nat
      BY <2>0, WebSessionAssumption DEF TypeOK, TabState, Sid
    <3>2. server' = [server EXCEPT ![tab[t].sid] = [server[tab[t].sid] EXCEPT !.mfa = TRUE, !.open = TRUE]]
      BY <2>7, Zenon DEF CodeAtTheDoor, CodeInTheDialog
    <3> QED
      BY <2>4, <2>5, <3>1, <3>2
  <2>8. ASSUME NEW t \in Tab, NEW p \in Person, Login(t, p) PROVE FALSE
    BY <1>3, <2>0, <2>8 DEF Login
  <2>9. ASSUME NEW c \in Call, Send(c) \/ CallStep(c) PROVE FALSE
    BY <2>1, <2>9 DEF Send, CallStep, ServerCall, Unauthorized, retryAfterCode, Answered
  <2>10. ASSUME NEW a \in attempts, RefreshStep(a) PROVE FALSE
    BY <2>1, <2>3, <2>10
       DEF RefreshStep, RefreshLost, RefreshGranted, RefreshRefused, SignedOut, RefreshPauses, RefreshAgain
  <2>11. ASSUME NEW t \in Tab, TabStep(t) PROVE closeSession(t) \/ SessionLocked(t)
    BY <2>1, <2>7, <2>8, <2>11
       DEF TabStep, Load, SessionClosed, CloseFails, EnterPanel, LeavePanel, CodeNeedsToken
  <2> QED
    BY <2>2, <2>6, <2>9, <2>10, <2>11 DEF Step
<1>4. IInv /\ RacesAreSafe /\ [Next]_vars =>
         [\A s \in DOMAIN server : server[s].live /\ ~server'[s].live =>
             s \in stray \/ \E t \in Tab : closeSession(t) \/ SessionLocked(t)]_vars
  BY <1>3
<1> QED
  BY <1>1, <1>2, <1>4, Invariant, PTL DEF Spec, SessionEndsForCause
=============================================================================
