----------------------------- MODULE WebSession -----------------------------
(***************************************************************************)
(* The session of the web app: the tabs of one browser, the refresh cookie *)
(* they share, the AuthProvider of each tab and the requests of apiFetch.  *)
(*                                                                         *)
(* A tab never sees the cookie.  It asks identity-service for an access    *)
(* token, and the answer changes the cookie of the whole browser before    *)
(* the tab hears of it.  A request that is refused waits for one renewal   *)
(* of the token, or for the 2FA code, and is made again.  Between a        *)
(* request, its answer and the moment the tab reads it, any other step of  *)
(* any tab may come.                                                       *)
(*                                                                         *)
(* An access token is not kept apart from its session: whether it has      *)
(* expired when a service reads it is a choice of ServerCall.  A name      *)
(* ending in Mutant is a broken variant of the definition after it.        *)
(***************************************************************************)
EXTENDS Naturals, Sequences

CONSTANTS
    Tab,         \* the open tabs of the browser
    Call,        \* the requests, each made by one tab
    home,        \* the tab of each request
    Query,       \* the requests whose answer is for the query cache
    Mutation,    \* the requests that write theirs into it when they are done
    Panel,       \* the tabs where the teacher's panel is used
    Person,      \* who signs in on this browser
    MaxSessions, \* the bound on the sessions
    MaxKey       \* the bound on the rotations of a session

ASSUME WebSessionAssumption ==
    /\ home \in [Call -> Tab]
    /\ Query \subseteq Call
    /\ Mutation \subseteq Call
    /\ Panel \subseteq Tab
    /\ MaxSessions \in Nat
    /\ MaxKey \in Nat \ {0}

VARIABLES
    server,      \* identity-service: the sessions started so far
    jar,         \* the refresh cookie, one for the whole browser
    tab,         \* the AuthProvider of each tab, and its portal
    attempts,    \* the attempts of refreshSession that are under way
    call,        \* the requests
    stray        \* history: the open sessions whose newest key never reached the
                 \* browser, or reached it too late; no step reads it

sessionVars == <<server, jar, tab, attempts, call>>
vars == <<sessionVars, stray>>

NoCookie == [sid |-> 0, key |-> 0]
Sid      == 1..MaxSessions
Cookie   == {NoCookie} \cup [sid : Sid, key : 1..MaxKey]

Session == [who : Person, key : 1..MaxKey, recent : SUBSET (1..MaxKey),
            live : BOOLEAN, mfa : BOOLEAN, open : BOOLEAN]
TabState == [loading : BOOLEAN, sid : {0} \cup Sid, mfa : BOOLEAN, portal : BOOLEAN,
             asking : BOOLEAN, closing : BOOLEAN, cache : SUBSET Person]
Attempt == [tab : Tab, tries : {1, 2}, cookie : Cookie, at : {"out", "back", "pause"},
            answer : {"none", "token", "token_mfa", "token_recien_usado", "invalid"}]
CallState == [at : {"idle", "out", "ok", "401", "403", "renew", "code"},
              sid : {0} \cup Sid, kept : BOOLEAN, isRetry : BOOLEAN, isRetry2fa : BOOLEAN,
              sends : Nat, done : Nat]

NoTab == [loading |-> FALSE, sid |-> 0, mfa |-> FALSE, portal |-> FALSE,
          asking |-> FALSE, closing |-> FALSE, cache |-> {}]
NoCall == [at |-> "idle", sid |-> 0, kept |-> FALSE, isRetry |-> FALSE,
           isRetry2fa |-> FALSE, sends |-> 0, done |-> 0]

Live(s) == s \in DOMAIN server /\ server[s].live

\* A session that is over opens no panel any more.
Ended(session) == [session EXCEPT !.live = FALSE, !.mfa = FALSE, !.open = FALSE]

Init ==
    /\ server = << >>
    /\ jar = NoCookie
    /\ tab = [t \in Tab |-> NoTab]
    /\ attempts = {}
    /\ call = [c \in Call |-> NoCall]
    /\ stray = {}

-----------------------------------------------------------------------------
(* What AuthProvider does inside one tab.                                  *)

\* setSession keeps the token and who it is of.  The query cache stays.
setSession(rec, s, mfa) == [rec EXCEPT !.sid = s, !.mfa = mfa,
                                       !.portal = @ /\ mfa, !.asking = @ /\ mfa]

\* Without a session the guards of the router leave no portal mounted.
clearSession(rec) == [rec EXCEPT !.sid = 0, !.mfa = FALSE, !.portal = FALSE,
                                 !.asking = FALSE, !.cache = {}]

\* The requests of tab t that stand at a point, after f was done to them.
Moving(t, at, f(_)) == [c \in Call |-> IF home[c] = t /\ call[c].at = at THEN f(call[c]) ELSE call[c]]

\* The provider of the panel is unmounted, or its dialog closed without a
\* code: nobody waits for it any more.
finishMutant(t) == call
finish(t) == Moving(t, "code", LAMBDA r : NoCall)

\* Without the query cache, a query that was under way lands nowhere.
Dropped(calls, t) == [c \in Call |-> IF home[c] = t THEN [calls[c] EXCEPT !.kept = FALSE] ELSE calls[c]]

SendAgain(r, renewed, coded) ==
    [r EXCEPT !.at = "out", !.isRetry = @ \/ renewed, !.isRetry2fa = @ \/ coded, !.sends = @ + 1]

\* One attempt at a time per tab, all its requests wait for the same one.
startRefresh(t) ==
    IF \E a \in attempts : a.tab = t THEN attempts
    ELSE attempts \cup {[tab |-> t, tries |-> 1, cookie |-> jar, at |-> "out", answer |-> "none"]}

-----------------------------------------------------------------------------
(* A tab is opened or loaded again: what it held and waited for is gone,   *)
(* and it asks who is signed in.                                           *)
Load(t) ==
    /\ tab' = [tab EXCEPT ![t] = [NoTab EXCEPT !.loading = TRUE]]
    /\ attempts' = {a \in attempts : a.tab # t} \cup
                   {[tab |-> t, tries |-> 1, cookie |-> jar, at |-> "out", answer |-> "none"]}
    /\ call' = [c \in Call |-> IF home[c] = t THEN NoCall ELSE call[c]]
    /\ UNCHANGED <<server, jar>>

\* A key seen again in the seconds of grace after it was used is a race.
RacedMutant(s, key) == FALSE
Raced(s, key) == s # 0 /\ key \in server[s].recent

\* Whoever brings an old key has a copy of it: the session is closed.
ReuseCloses(session) == Ended(session)

\* identity-service refreshes the key of a cookie.  A key is used once; seen
\* again, the session is closed, unless it was a race.
ServerRefresh(a) ==
    /\ a.at = "out"
    /\ LET s == a.cookie.sid
           key == a.cookie.key
           blacklisted == s # 0 /\ (key # server[s].key \/ Raced(s, key))
           answered(answer, cookie) == (attempts \ {a}) \cup
               {[a EXCEPT !.at = "back", !.answer = answer, !.cookie = cookie]}
       IN  \/ /\ ~blacklisted /\ ~Live(s)
              /\ attempts' = answered("invalid", a.cookie)
              /\ UNCHANGED server
           \/ /\ blacklisted /\ Raced(s, key)
              /\ attempts' = answered("token_recien_usado", a.cookie)
              /\ UNCHANGED server
           \/ /\ blacklisted /\ ~Raced(s, key)
              /\ server' = [server EXCEPT ![s] = ReuseCloses(@)]
              /\ attempts' = answered("invalid", a.cookie)
           \/ /\ ~blacklisted /\ Live(s) /\ key < MaxKey
              /\ server' = [server EXCEPT ![s].key = key + 1, ![s].recent = @ \cup {key}]
              /\ attempts' = answered(IF server[s].mfa THEN "token_mfa" ELSE "token", [a.cookie EXCEPT !.key = key + 1])
    /\ UNCHANGED <<jar, tab, call>>

\* An answer is there.  The browser changes the cookie first; a refusal
\* deletes it, except the one of a race.
WithToken(c, a) ==
    IF home[c] # a.tab THEN call[c]
    ELSE IF call[c].at = "renew" THEN SendAgain([call[c] EXCEPT !.sid = a.cookie.sid], TRUE, FALSE)
    ELSE IF call[c].at = "code" /\ a.answer = "token" THEN NoCall ELSE call[c]
RefreshGranted(a) ==
    /\ a.at = "back" /\ a.answer \in {"token", "token_mfa"}
    /\ jar' = a.cookie
    /\ tab' = [tab EXCEPT ![a.tab] = [setSession(@, a.cookie.sid, a.answer = "token_mfa") EXCEPT !.loading = FALSE]]
    /\ call' = [c \in Call |-> WithToken(c, a)]
    /\ attempts' = attempts \ {a}
    /\ UNCHANGED server

\* Without a token the tab forgets the session, and its requests end.
WithoutToken(c, t) ==
    IF home[c] # t THEN call[c]
    ELSE IF call[c].at \in {"renew", "code"} THEN NoCall ELSE [call[c] EXCEPT !.kept = FALSE]
SignedOutMutant(a) ==
    /\ tab' = [tab EXCEPT ![a.tab] = clearSession(@)]
    /\ attempts' = attempts \ {a}
    /\ UNCHANGED <<server, call>>
SignedOut(a) ==
    /\ tab' = [tab EXCEPT ![a.tab] = [clearSession(@) EXCEPT !.loading = FALSE]]
    /\ call' = [c \in Call |-> WithoutToken(c, a.tab)]
    /\ attempts' = attempts \ {a}
    /\ UNCHANGED server
RefreshRefused(a) ==
    /\ a.at = "back"
    /\ a.answer = "invalid" \/ (a.answer = "token_recien_usado" /\ a.tries = 2)
    /\ jar' = IF a.answer = "invalid" THEN NoCookie ELSE jar
    /\ SignedOut(a)

\* The request, or the answer with the new cookie, is lost.
RefreshLost(a) ==
    /\ a.at = "out" \/ a.answer \in {"token", "token_mfa"}
    /\ SignedOut(a)
    /\ UNCHANGED jar

\* Another tab used the key a moment ago: wait and try once more, with the
\* cookie the browser holds by then.
RefreshPauses(a) ==
    /\ a.at = "back" /\ a.answer = "token_recien_usado" /\ a.tries = 1
    /\ attempts' = (attempts \ {a}) \cup {[a EXCEPT !.at = "pause", !.answer = "none"]}
    /\ UNCHANGED <<server, jar, tab, call>>
RefreshAgain(a) ==
    /\ a.at = "pause"
    /\ attempts' = (attempts \ {a}) \cup {[a EXCEPT !.at = "out", !.tries = 2, !.cookie = jar]}
    /\ UNCHANGED <<server, jar, tab, call>>

\* The grace of the keys used so far is over.
GraceEnds(s) ==
    /\ s \in DOMAIN server /\ server[s].recent # {}
    /\ server' = [server EXCEPT ![s].recent = {}]
    /\ UNCHANGED <<jar, tab, attempts, call>>

-----------------------------------------------------------------------------
(* Signing in and out.                                                     *)

\* The login form.  Nothing asks whether someone is signed in already.
Login(t, p) ==
    /\ Len(server) < MaxSessions
    /\ ~tab[t].portal
    /\ server' = Append(server, [who |-> p, key |-> 1, recent |-> {}, live |-> TRUE,
                                 mfa |-> FALSE, open |-> FALSE])
    /\ jar' = [sid |-> Len(server'), key |-> 1]
    /\ tab' = [tab EXCEPT ![t].sid = Len(server'), ![t].mfa = FALSE]
    /\ UNCHANGED <<attempts, call>>

\* closeSession: the server closes the session of the cookie, and then the
\* tab forgets it; if the server can't be reached the tab forgets it alone.
Blacklisted(session, key) == [session EXCEPT !.recent = @ \cup {key}]
closeSession(t) ==
    /\ tab[t].sid # 0 /\ ~tab[t].closing
    /\ server' = IF jar.sid = 0 THEN server
                 ELSE [server EXCEPT ![jar.sid] = Blacklisted(Ended(@), jar.key)]
    /\ tab' = [tab EXCEPT ![t].closing = TRUE]
    /\ UNCHANGED <<jar, attempts, call>>
SessionClosed(t) ==
    /\ tab[t].closing
    /\ jar' = NoCookie
    /\ tab' = [tab EXCEPT ![t] = [clearSession(@) EXCEPT !.closing = FALSE]]
    /\ call' = Dropped(finish(t), t)
    /\ UNCHANGED <<server, attempts>>
CloseFails(t) ==
    /\ tab[t].sid # 0 /\ ~tab[t].closing
    /\ tab' = [tab EXCEPT ![t] = clearSession(@)]
    /\ call' = Dropped(finish(t), t)
    /\ UNCHANGED <<server, jar, attempts>>

-----------------------------------------------------------------------------
(* The panel of the teacher, which asks for the 2FA code.                  *)

\* The full screen of the code, and the panel behind it.
CodeAtTheDoor(t) ==
    /\ t \in Panel
    /\ tab[t].sid # 0 /\ ~tab[t].mfa
    /\ server[tab[t].sid].live
    /\ server' = [server EXCEPT ![tab[t].sid].mfa = TRUE, ![tab[t].sid].open = TRUE]
    /\ tab' = [tab EXCEPT ![t].mfa = TRUE, ![t].portal = TRUE]
    /\ UNCHANGED <<jar, attempts, call>>
EnterPanel(t) ==
    /\ t \in Panel
    /\ tab[t].sid # 0 /\ tab[t].mfa /\ ~tab[t].portal /\ ~tab[t].loading
    /\ tab' = [tab EXCEPT ![t].portal = TRUE]
    /\ UNCHANGED <<server, jar, attempts, call>>
LeavePanel(t) ==
    /\ tab[t].portal
    /\ tab' = [tab EXCEPT ![t].portal = FALSE, ![t].asking = FALSE]
    /\ call' = finish(t)
    /\ UNCHANGED <<server, jar, attempts>>

\* Fifteen minutes without activity.
PanelCloses(s) ==
    /\ s \in DOMAIN server /\ server[s].open
    /\ server' = [server EXCEPT ![s].open = FALSE]
    /\ UNCHANGED <<jar, tab, attempts, call>>

\* The dialog: a good code opens the panel and every request that waited is
\* made again; cancelling leaves the panel and gives up on all of them.
\* Sending the code may itself ask for a new token, and the second lock
\* closes the session.
CodeInTheDialog(t) ==
    /\ tab[t].asking /\ server[tab[t].sid].live
    /\ server' = [server EXCEPT ![tab[t].sid].mfa = TRUE, ![tab[t].sid].open = TRUE]
    /\ tab' = [tab EXCEPT ![t].asking = FALSE]
    /\ call' = Moving(t, "code", LAMBDA r : SendAgain(r, FALSE, TRUE))
    /\ UNCHANGED <<jar, attempts>>
CodeNeedsToken(t) ==
    /\ tab[t].asking
    /\ attempts' = startRefresh(t)
    /\ UNCHANGED <<server, jar, tab, call>>
SessionLocked(t) ==
    /\ tab[t].asking /\ server[tab[t].sid].live
    /\ server' = [server EXCEPT ![tab[t].sid] = Ended(@)]
    /\ tab' = [tab EXCEPT ![t] = clearSession(@)]
    /\ call' = Dropped(finish(t), t)
    /\ UNCHANGED <<jar, attempts>>

-----------------------------------------------------------------------------
(* apiFetch.                                                               *)

Send(c) ==
    /\ call[c].at = "idle" /\ tab[home[c]].sid # 0
    /\ call' = [call EXCEPT ![c] = [NoCall EXCEPT !.at = "out", !.sid = tab[home[c]].sid,
                                                  !.kept = c \in Query, !.sends = 1]]
    /\ UNCHANGED <<server, jar, tab, attempts>>

\* A service answers: 401 for a dead session or an expired token, 403 when
\* the panel is closed, or any other error, which ends the request.  Only a
\* request that is let in is carried out.
ServerCall(c) ==
    /\ call[c].at = "out"
    /\ LET s == call[c].sid IN
       \/ call' = [call EXCEPT ![c].at = "401"]
       \/ call' = [call EXCEPT ![c] = NoCall]
       \/ /\ server[s].live /\ ~server[s].open
          /\ call' = [call EXCEPT ![c].at = "403"]
       \/ /\ server[s].live /\ server[s].open
          /\ call' = [call EXCEPT ![c].at = "ok", ![c].done = @ + 1]
    /\ UNCHANGED <<server, jar, tab, attempts>>

\* A 401 waits for the token to be renewed, once.
Unauthorized(c) ==
    /\ call[c].at = "401"
    /\ IF call[c].isRetry
       THEN /\ call' = [call EXCEPT ![c] = NoCall]
            /\ UNCHANGED attempts
       ELSE /\ call' = [call EXCEPT ![c].at = "renew"]
            /\ attempts' = startRefresh(home[c])
    /\ UNCHANGED <<server, jar, tab>>

\* A closed panel waits for the code, once, and only while it is on screen.
retryAfterCode(c) ==
    /\ call[c].at = "403"
    /\ IF ~call[c].isRetry2fa /\ tab[home[c]].portal
       THEN /\ call' = [call EXCEPT ![c].at = "code"]
            /\ tab' = [tab EXCEPT ![home[c]].asking = TRUE]
       ELSE /\ call' = [call EXCEPT ![c] = NoCall]
            /\ UNCHANGED tab
    /\ UNCHANGED <<server, jar, attempts>>

\* The answer of a query lands in the cache it was asked for, the one of a
\* mutation in whatever cache is there now.
Answered(c) ==
    /\ call[c].at = "ok"
    /\ call' = [call EXCEPT ![c] = NoCall]
    /\ tab' = IF call[c].kept \/ c \in Mutation
              THEN [tab EXCEPT ![home[c]].cache = @ \cup {server[call[c].sid].who}]
              ELSE tab
    /\ UNCHANGED <<server, jar, attempts>>

-----------------------------------------------------------------------------
RefreshStep(a) ==
    \/ ServerRefresh(a) \/ RefreshLost(a) \/ RefreshGranted(a)
    \/ RefreshRefused(a) \/ RefreshPauses(a) \/ RefreshAgain(a)
CallStep(c) == ServerCall(c) \/ Unauthorized(c) \/ retryAfterCode(c) \/ Answered(c)
TabStep(t) ==
    \/ Load(t) \/ closeSession(t) \/ SessionClosed(t) \/ CloseFails(t)
    \/ CodeAtTheDoor(t) \/ EnterPanel(t) \/ LeavePanel(t)
    \/ CodeInTheDialog(t) \/ CodeNeedsToken(t) \/ SessionLocked(t)
    \/ \E p \in Person : Login(t, p)

Step ==
    \/ \E a \in attempts : RefreshStep(a)
    \/ \E c \in Call : Send(c) \/ CallStep(c)
    \/ \E t \in Tab : TabStep(t)
    \/ \E s \in Sid : GraceEnds(s) \/ PanelCloses(s)

\* What the history remembers: an answer with a new key that never reached the
\* browser, and a grace that was over before the browser had the new key, or
\* with the old one still on its way; of a session that ended, nothing.
Granted(a) == a.answer \in {"token", "token_mfa"}
Mislaid(s) == \E a \in attempts \ attempts' : Granted(a) /\ a.cookie.sid = s /\ jar' # a.cookie
TooSlow(s) ==
    /\ s \in DOMAIN server /\ server[s].recent # {} /\ server'[s].recent = {}
    /\ \E a \in attempts :
          a.cookie.sid = s /\ (Granted(a) \/ (a.at = "out" /\ a.cookie.key \in server[s].recent))

Next ==
    /\ Step
    /\ stray' = {s \in Sid : /\ s \in stray \/ Mislaid(s) \/ TooSlow(s)
                             /\ s \in DOMAIN server' /\ server'[s].live}

(* The network, the services, the timers and the tab's own code go on;     *)
(* nothing is assumed of the person, of expiry or of reloads.              *)
Fairness ==
    /\ \A c \in Call : WF_sessionVars(CallStep(c))
    /\ \A t \in Tab : WF_sessionVars(\E a \in attempts : a.tab = t /\ RefreshStep(a))
    /\ \A t \in Tab : WF_sessionVars(SessionClosed(t))

Spec == Init /\ [][Next]_vars /\ Fairness
-----------------------------------------------------------------------------
(* What the session of the web app promises.                               *)

\* Every variable has its type.
TypeOK ==
    /\ server \in Seq(Session) /\ Len(server) <= MaxSessions
    /\ jar \in Cookie
    /\ tab \in [Tab -> TabState]
    /\ attempts \subseteq Attempt
    /\ call \in [Call -> CallState]
    /\ stray \subseteq Sid

(***************************************************************************)
(* A tab never has two attempts to renew the token at once: they would     *)
(* send the same key, and the second would sign out the tab that the first *)
(* one had just served (the shared promise of refreshSession).             *)
(***************************************************************************)
OneAttemptPerTab == \A a, b \in attempts : a.tab = b.tab => a = b

(***************************************************************************)
(* Whatever a request waits for is still going to answer it: one that      *)
(* waits for a token has an attempt under way in its tab, and one that     *)
(* waits for the code has the dialog in front of the person.               *)
(***************************************************************************)
WaitersAreServed == \A c \in Call :
    /\ call[c].at = "renew" => \E a \in attempts : a.tab = home[c]
    /\ call[c].at = "code" => tab[home[c]].asking /\ tab[home[c]].portal

\* A request is sent three times at the most, once as it was, once with a new
\* token and once after the code, and it is carried out once at the most.
NeverInALoop == \A c \in Call : call[c].sends <= 3 /\ call[c].done <= 1

\* A request that was refused waits for something that comes, and is not made for ever.
RequestsAreServed == WaitersAreServed /\ NeverInALoop

(***************************************************************************)
(* Two tabs that race for the same cookie cost nobody their session        *)
(* (AuthContext.tsx:49, the grace of identity-service): a session only     *)
(* ends when someone closes it or the panel locks it, unless its newest    *)
(* key once never reached the browser, or not within the grace.            *)
(***************************************************************************)
SessionEndsForCause == [][\A s \in DOMAIN server : server[s].live /\ ~server'[s].live =>
    s \in stray \/ \E t \in Tab : closeSession(t) \/ SessionLocked(t)]_vars

(***************************************************************************)
(* Every request ends, unless the person is being asked for the code: none *)
(* is left waiting for a token or a code that nobody asks for any more.    *)
(***************************************************************************)
RequestsEnd == \A c \in Call : call[c].at # "idle" ~> (call[c].at = "idle" \/ tab[home[c]].asking)

(***************************************************************************)
(* Nothing the previous person loaded is there for the next one            *)
(* (AuthContext.tsx:36-38): the query cache of a tab only holds data of    *)
(* whoever is signed in in it.  The code does not hold it: a login over a  *)
(* session that is open keeps the cache (SomeoneElsesData.cfg).            *)
(***************************************************************************)
NobodyElsesData == \A t \in Tab :
    tab[t].sid # 0 => tab[t].cache \subseteq {server[tab[t].sid].who}
=============================================================================
