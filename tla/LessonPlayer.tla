---------------------------- MODULE LessonPlayer ----------------------------
(***************************************************************************)
(* A lesson the way a kid goes through it: its pages, the questions of its *)
(* activity one by one and its extras; the page they are on, told to       *)
(* content-service one save at a time (useReachedPages); the answers       *)
(* checked one by one and the whole try sent at the end (QuizStep).        *)
(*                                                                         *)
(* A mount is one life of the player on screen: leaving, reloading and a   *)
(* new copy of the lesson start another one, and what the old one sent     *)
(* still arrives.                                                          *)
(***************************************************************************)
EXTENDS Naturals, FiniteSets

CONSTANTS
    Extra,     \* the extras of the lesson; with "" they are its parts
    pages,     \* [part -> how many pages]
    questions, \* [part -> how many questions, 0 without activity]
    MaxMounts, MaxTurns, MaxTries, MaxVersions \* the bounds

Part == Extra \cup {""}
Mount == 1..MaxMounts
PlayerAssumption ==
    /\ "" \notin Extra /\ pages \in [Part -> Nat] /\ questions \in [Part -> Nat]
    /\ pages[""] > 0 /\ questions[""] > 0 /\ \A x \in Part : pages[x] > 0 \/ questions[x] > 0
    /\ MaxMounts \in Nat /\ MaxTurns \in Nat /\ MaxTries \in Nat /\ MaxVersions \in Nat

VARIABLES
    now,     \* the mount on screen (0: none), how many there were, and the copy of the activity it has
    step,    \* the step, its part, and the page or the question
    known,   \* how it goes in each part, as the player knows it
    reach,   \* [mount -> useReachedPages]
    quiz,    \* the phase of the question, the answers so far, the try
    asks,    \* the checks and the tries on their way
    server,  \* what content-service has
    turns    \* the page turns so far

vars == <<now, step, known, reach, quiz, asks, server, turns>>

Start(x) == [kind |-> x, part |-> "", at |-> 0]
Asking == [phase |-> "asking", answers |-> {}, try |-> 0]
Init ==
    /\ now = [mount |-> 0, count |-> 0, version |-> 1]
    /\ step = Start("intro")
    /\ known = [seen |-> [x \in Part |-> 0], last |-> [x \in Part |-> 0], done |-> {}, invite |-> TRUE]
    /\ reach = [m \in Mount |-> [sent |-> [x \in Part |-> 0], waiting |-> {}, flying |-> {}]]
    /\ quiz = Asking
    /\ asks = {}
    /\ server = [last |-> [x \in Part |-> [page |-> 0, n |-> 0, by |-> 0]], seen |-> [x \in Part |-> 0],
                 kept |-> {}, version |-> 1]
    /\ turns = 0

Larger(a, b) == IF a > b THEN a ELSE b
Smaller(a, b) == IF a < b THEN a ELSE b
Here(kind) == now.mount # 0 /\ step.kind = kind
\* readPercent is 100: with less than 200 pages it only rounds up to it there.
readAll(x) == pages[x] > 0 /\ known.seen[x] >= pages[x]
resumePage(last) == Larger(last, 1)

-----------------------------------------------------------------------------
(* The page and its mounts.                                                *)

\* The question leaves the screen: its pause is stopped.
stopPauses == {a \in asks : a.state # "pause" \/ a.mount # now.mount}
\* What the lesson brings: how far the kid got in each part.
LessonViewerPage ==
    /\ now.count < MaxMounts
    /\ now' = [mount |-> now.count + 1, count |-> now.count + 1, version |-> server.version]
    /\ step' = Start("intro")
    /\ quiz' = [Asking EXCEPT !.try = quiz.try]
    /\ known' = [seen |-> server.seen, last |-> [x \in Part |-> server.last[x].page],
                 done |-> {t.part : t \in server.kept}, invite |-> server.seen[""] < pages[""]]
    /\ reach' = [reach EXCEPT ![now.count + 1].sent = known'.last]
    /\ asks' = stopPauses
    /\ UNCHANGED <<server, turns>>
\* Opened, or the same page with a newer copy of the lesson: read again when
\* the connection comes back, or when the kid asks for it.
openLesson == now.mount = 0 /\ LessonViewerPage
refetch == now.mount # 0 /\ LessonViewerPage
\* Back to the lessons from the hub, or away by the browser from anywhere.
exit ==
    /\ now.mount # 0
    /\ now' = [now EXCEPT !.mount = 0]
    /\ asks' = stopPauses
    /\ UNCHANGED <<step, known, reach, quiz, server, turns>>
TeacherChanges ==
    /\ server.version < MaxVersions
    /\ server' = [server EXCEPT !.version = @ + 1]
    /\ UNCHANGED <<now, step, known, reach, quiz, asks, turns>>

-----------------------------------------------------------------------------
(* useReachedPages: one save at a time, only the newest page waits.        *)

Waits(r, x) == \E w \in r.waiting : w.part = x
flushMutant(r) ==
    IF r.waiting = {} THEN r
    ELSE LET next == CHOOSE w \in r.waiting : TRUE IN
         [r EXCEPT !.waiting = @ \ {next}, !.flying = @ \cup {next}]
flush(r) ==
    IF r.waiting = {} \/ r.flying # {} THEN r
    ELSE LET next == CHOOSE w \in r.waiting : TRUE IN
         [r EXCEPT !.waiting = @ \ {next}, !.flying = @ \cup {next}]
reachPage(r, x, page, n) ==
    IF ~Waits(r, x) /\ r.sent[x] = page THEN r
    ELSE flush([r EXCEPT !.waiting = {w \in @ : w.part # x} \cup {[part |-> x, page |-> page, n |-> n, at |-> "asked"]}])
\* The furthest page never goes back, and the page they are on is the last
\* one told.
Now(m, f, at) == [reach EXCEPT ![m].flying = (@ \ {f}) \cup {[f EXCEPT !.at = at]}]
ServerReaches(m, f) ==
    /\ f.at = "asked"
    /\ server' = [server EXCEPT !.last[f.part] = [page |-> f.page, n |-> f.n, by |-> m],
                                !.seen[f.part] = Larger(@, f.page)]
    /\ reach' = Now(m, f, "saved")
    /\ UNCHANGED <<now, step, known, quiz, asks, turns>>
ReachFails(m, f) ==
    /\ f.at \in {"asked", "saved"}
    /\ reach' = Now(m, f, "failed")
    /\ UNCHANGED <<now, step, known, quiz, asks, server, turns>>
ReachAnswer(m, f) ==
    /\ f.at \in {"saved", "failed"}
    /\ reach' = [reach EXCEPT ![m] = flush([reach[m] EXCEPT !.flying = @ \ {f},
                                                            !.sent[f.part] = IF f.at = "saved" THEN f.page ELSE @])]
    /\ UNCHANGED <<now, step, known, quiz, asks, server, turns>>

-----------------------------------------------------------------------------
(* The steps.                                                              *)

Goes(to) == step' = to /\ UNCHANGED <<now, known, reach, quiz, asks, server, turns>>
Home(x) == Start(IF x = "" THEN "hub" ELSE "extras")

\* Every page shown is where they come back to, and maybe further on.
showPage(x, page) ==
    /\ turns < MaxTurns
    /\ turns' = turns + 1
    /\ step' = [kind |-> "pages", part |-> x, at |-> page]
    /\ known' = [known EXCEPT !.last[x] = page, !.seen[x] = Larger(@, page)]
    /\ reach' = [reach EXCEPT ![now.mount] = reachPage(@, x, page, turns + 1)]
    /\ UNCHANGED <<now, quiz, asks, server>>
open(x) ==
    IF pages[x] > 0 THEN showPage(x, Smaller(resumePage(known.last[x]), pages[x]))
    ELSE Goes([kind |-> "briefing", part |-> x, at |-> 0])

toHub == (Here("intro") \/ Here("invite") \/ Here("extras")) /\ Goes(Start("hub"))
openContent == Here("hub") /\ open("")
openActivity == Here("hub") /\ readAll("") /\ Goes([kind |-> "briefing", part |-> "", at |-> 0])
openExtras == Here("hub") /\ Extra # {} /\ "" \in known.done /\ Goes(Start("extras"))
openExtra(x) == Here("extras") /\ open(x)
pageBack ==
    /\ Here("pages")
    /\ IF step.at = 1 THEN Goes(Home(step.part)) ELSE showPage(step.part, step.at - 1)
pagesBefore == Here("pages") /\ Goes(Home(step.part))
\* The invitation to the activity comes only the first time all is read.
afterPages ==
    /\ Here("pages") /\ step.at = pages[step.part]
    /\ IF step.part = "" /\ known.invite
       THEN step' = Start("invite") /\ known' = [known EXCEPT !.invite = FALSE]
       ELSE step' = Home(step.part) /\ UNCHANGED known
    /\ UNCHANGED <<now, reach, quiz, asks, server, turns>>
pageNext == Here("pages") /\ step.at < pages[step.part] /\ showPage(step.part, step.at + 1)
briefingBack == (Here("briefing") \/ Here("result")) /\ Goes(Home(step.part))
startQuiz ==
    /\ Here("briefing") \/ Here("result")
    /\ questions[step.part] > 0 /\ quiz.try < MaxTries
    /\ step' = [step EXCEPT !.kind = "quiz", !.at = 1]
    /\ quiz' = [phase |-> "asking", answers |-> {}, try |-> quiz.try + 1]
    /\ UNCHANGED <<now, known, reach, asks, server, turns>>
onLeave == Here("quiz") /\ quiz.phase = "asking" /\ Goes([step EXCEPT !.kind = "leaving"])
stay == Here("leaving") /\ Goes([step EXCEPT !.kind = "quiz"])
leave == Here("leaving") /\ Goes(Home(step.part))

-----------------------------------------------------------------------------
(* QuizStep.                                                               *)

Ask(kind, m, part, at, answers, try, version) ==
    [kind |-> kind, mount |-> m, part |-> part, at |-> at, answers |-> answers, try |-> try,
     version |-> version, state |-> "asked"]
choose ==
    /\ Here("quiz") /\ quiz.phase = "asking"
    /\ quiz' = [quiz EXCEPT !.phase = "checking"]
    /\ asks' = asks \cup {Ask("check", now.mount, step.part, step.at, quiz.answers \cup {step.at}, quiz.try, now.version)}
    /\ UNCHANGED <<now, step, known, reach, server, turns>>
\* Right or wrong is the same to the player; the question may be gone from
\* the activity, and then it changed under the kid.
ServerChecks(a, state) ==
    /\ a.kind = "check" /\ a.state = "asked"
    /\ state \in {"ok", "failed"} \cup IF a.version # server.version THEN {"changed"} ELSE {}
    /\ asks' = (asks \ {a}) \cup {[a EXCEPT !.state = state]}
    /\ UNCHANGED <<now, step, known, reach, quiz, server, turns>>
Same(a) == a.mount = now.mount
isLast(a) == a.at = questions[a.part]
CheckAnswerMutant(a) ==
    /\ a.kind = "check" /\ a.state \in {"ok", "failed", "changed"}
    /\ asks' = (asks \ {a}) \cup IF a.state = "ok" THEN {[a EXCEPT !.state = "pause"]} ELSE {}
    /\ IF ~Same(a) THEN UNCHANGED <<quiz, step>>
       ELSE /\ quiz' = [quiz EXCEPT !.phase = IF a.state = "ok" THEN "answered" ELSE @]
            /\ step' = IF a.state = "changed" THEN Start("changed") ELSE step
    /\ UNCHANGED <<now, known, reach, server, turns>>
CheckAnswer(a) ==
    /\ a.kind = "check" /\ a.state \in {"ok", "failed", "changed"}
    /\ asks' = (asks \ {a}) \cup IF a.state = "ok" THEN {[a EXCEPT !.state = "pause"]} ELSE {}
    /\ IF ~Same(a) THEN UNCHANGED <<quiz, step>>
       ELSE /\ quiz' = [quiz EXCEPT !.phase = IF a.state = "ok" THEN "answered"
                                              ELSE IF a.state = "failed" THEN "asking" ELSE @]
            /\ step' = IF a.state = "changed" THEN Start("changed") ELSE step
    /\ UNCHANGED <<now, known, reach, server, turns>>
\* The pause ends: the grade after the last question, or the next one.  One
\* that starts when the question is already gone is stopped by nobody.
Submit(a) == Ask("submit", a.mount, a.part, 0, a.answers, a.try, a.version)
onNext(a) == [quiz EXCEPT !.phase = "asking", !.answers = a.answers]
pauseEnds(a) ==
    /\ a.state = "pause"
    /\ asks' = (asks \ {a}) \cup IF isLast(a) THEN {Submit(a)} ELSE {}
    /\ IF ~Same(a) THEN UNCHANGED <<quiz, step>>
       ELSE IF isLast(a) THEN quiz' = [quiz EXCEPT !.phase = "grading", !.answers = a.answers] /\ UNCHANGED step
       ELSE quiz' = onNext(a) /\ step' = [step EXCEPT !.at = @ + 1]
    /\ UNCHANGED <<now, known, reach, server, turns>>
\* Every question once, or the activity changed; a kept try is kept.
ServerGrades(a) ==
    /\ a.kind = "submit" /\ a.state = "asked"
    /\ IF a.version = server.version /\ a.answers = 1..questions[a.part]
       THEN /\ server' = [server EXCEPT !.kept = @ \cup {[part |-> a.part, mount |-> a.mount, try |-> a.try]}]
            /\ asks' = (asks \ {a}) \cup {[a EXCEPT !.state = "ok"]}
       ELSE /\ asks' = (asks \ {a}) \cup {[a EXCEPT !.state = "changed"]}
            /\ UNCHANGED server
    /\ UNCHANGED <<now, step, known, reach, quiz, turns>>
SubmitFails(a) ==
    /\ a.kind = "submit" /\ a.state \in {"asked", "ok"}
    /\ asks' = (asks \ {a}) \cup {[a EXCEPT !.state = "failed"]}
    /\ UNCHANGED <<now, step, known, reach, quiz, server, turns>>
SubmitAnswer(a) ==
    /\ a.kind = "submit" /\ a.state \in {"ok", "failed", "changed"}
    /\ asks' = asks \ {a}
    /\ IF ~Same(a) THEN UNCHANGED <<quiz, step, known>>
       ELSE /\ quiz' = [quiz EXCEPT !.phase = IF a.state = "failed" THEN "not_sent" ELSE @]
            /\ step' = IF a.state = "ok" THEN [step EXCEPT !.kind = "result"]
                       ELSE IF a.state = "changed" THEN Start("changed") ELSE step
            /\ known' = IF a.state = "ok" THEN [known EXCEPT !.done = @ \cup {a.part}] ELSE known
    /\ UNCHANGED <<now, reach, server, turns>>
sendAgain ==
    /\ Here("quiz") /\ quiz.phase = "not_sent"
    /\ quiz' = [quiz EXCEPT !.phase = "grading"]
    /\ asks' = asks \cup {Ask("submit", now.mount, step.part, 0, quiz.answers, quiz.try, now.version)}
    /\ UNCHANGED <<now, step, known, reach, server, turns>>

Next ==
    \/ openLesson \/ refetch \/ exit \/ TeacherChanges
    \/ \E m \in Mount : \E f \in reach[m].flying : ServerReaches(m, f)
    \/ \E m \in Mount : \E f \in reach[m].flying : ReachFails(m, f)
    \/ \E m \in Mount : \E f \in reach[m].flying : ReachAnswer(m, f)
    \/ toHub \/ openContent \/ openActivity \/ openExtras
    \/ \E x \in Extra : openExtra(x)
    \/ pageBack \/ pagesBefore \/ afterPages \/ pageNext
    \/ briefingBack \/ startQuiz \/ onLeave \/ stay \/ leave
    \/ choose
    \/ \E a \in asks : \E state \in {"ok", "failed", "changed"} : ServerChecks(a, state)
    \/ \E a \in asks : CheckAnswer(a)
    \/ \E a \in asks : pauseEnds(a)
    \/ \E a \in asks : ServerGrades(a)
    \/ \E a \in asks : SubmitFails(a)
    \/ \E a \in asks : SubmitAnswer(a)
    \/ sendAgain

\* Requests end and pauses too; nobody has to go on with the lesson.
Fairness ==
    /\ \A m \in Mount : WF_vars(\E f \in reach[m].flying : ServerReaches(m, f) \/ ReachAnswer(m, f))
    /\ WF_vars(\E a \in asks : pauseEnds(a) \/ CheckAnswer(a) \/ SubmitAnswer(a) \/ ServerGrades(a)
                              \/ \E state \in {"ok", "failed", "changed"} : ServerChecks(a, state))
Spec == Init /\ [][Next]_vars /\ Fairness

-----------------------------------------------------------------------------
(* Properties.                                                             *)

\* useReachedPages.ts:5 "One save at a time, only the newest one waits": the
\* page content-service has never goes back to an earlier turn of the mount,
\* though saves fail and more pages are turned meanwhile.
NewestPageWins ==
    [][\A x \in Part : server'.last[x].by = server.last[x].by => server'.last[x].n >= server.last[x].n]_vars

\* A question that was answered is not left waiting: it goes on to the next
\* one, to the grade, or asks again.
AnswersComeBack == now.mount # 0 /\ step.kind = "quiz" /\ quiz.phase \in {"checking", "grading"}
    ~> ~(now.mount # 0 /\ step.kind = "quiz" /\ quiz.phase \in {"checking", "grading"})

\* useReachedPages.ts:4 "Tells the server the page the kid is on [...] so they
\* come back there": after a turn, the last save of the part that waits or is
\* on its way is of that page, or nothing is and the server has it. The code
\* does not hold it when the kid goes back to the page before.
ServerKnowsThePage ==
    [][turns' > turns =>
         LET r == reach'[now.mount]
             x == step'.part
         IN  IF Waits(r, x) THEN \E w \in r.waiting : w.part = x /\ w.page = step'.at
             ELSE IF \E f \in r.flying : f.part = x THEN \E f \in r.flying : f.part = x /\ f.page = step'.at
             ELSE r.sent[x] = step'.at]_vars

\* QuizStep.tsx:60: "Only here it's kept: leaving before this leaves no record."
\* The code does not hold it: a check that ends after leaving starts a pause.
LeavingLeavesNoRecord ==
    [][\A a \in asks' \ asks : a.kind = "submit" /\ a.state = "asked" => a.mount = now.mount]_vars
=============================================================================
