---------------------------- MODULE LessonEditor ----------------------------
(***************************************************************************)
(* The lesson editor of the teacher: what is on screen saves by itself     *)
(* (useAutosave), once for the details, once for the slides and once for   *)
(* the activity; the lesson is published, deleted, left and opened again   *)
(* while saves are on their way.                                           *)
(*                                                                         *)
(* What a part holds is a number.  A visit is one mount of the editor: its *)
(* timers and answers may outlive it.  Edits are counted, so that two      *)
(* equal texts written at different moments are told apart.                *)
(***************************************************************************)
EXTENDS Naturals, FiniteSets

CONSTANTS
    Doc,        \* the parts that save on their own
    Value,      \* what a part may hold
    Unready,    \* the values that are held back (a required field is empty)
    Complete,   \* the values with nothing missing to publish
    MaxEdits, MaxRetries, MaxVisits \* the bounds: edits of a visit, timers set again, mounts

EditorAssumption ==
    /\ Complete \subseteq Value \ Unready /\ Value \ Unready # {}
    /\ MaxEdits \in Nat /\ MaxRetries \in Nat /\ MaxVisits \in Nat

VARIABLES
    visit,   \* the mount on screen, 0 when the teacher is elsewhere, and how many there were
    hooks,   \* [visit -> [part -> useAutosave]]
    sent,    \* the saves on their way
    op,      \* publish and delete: at rest, asked, done at the server, refused
    server,  \* the lesson in content-service
    cache    \* the lesson in the query cache

vars == <<visit, hooks, sent, op, server, cache>>

Visit == 1..MaxVisits
Text == [value : Value, n : 0..MaxEdits]
Ready(v) == v \notin Unready

\* useAutosave as it starts: the value just loaded is never saved again.
seeded(v) == [shown |-> [value |-> v, n |-> 0], last |-> v, timer |-> FALSE, retries |-> 0,
              saving |-> FALSE, state |-> "idle"]
Untouched(d) == CHOOSE v \in Value : Ready(v)

Init ==
    /\ visit = [now |-> 0, count |-> 0]
    /\ hooks = [i \in Visit |-> [d \in Doc |-> seeded(Untouched(d))]]
    /\ sent = {}
    /\ op = [publish |-> "no", delete |-> "no", lesson |-> [text |-> [d \in Doc |-> Untouched(d)], status |-> "gone"]]
    /\ server = [text |-> [d \in Doc |-> [value |-> Untouched(d), n |-> 0, by |-> 0]], status |-> "borrador"]
    /\ cache = [text |-> [d \in Doc |-> Untouched(d)], status |-> "borrador"]

Here == visit.now # 0
hook(d) == hooks[visit.now][d]
lessonOf(s) == [text |-> [d \in Doc |-> s.text[d].value], status |-> s.status]
missing(lesson) == \E d \in Doc : lesson.text[d] \notin Complete

-----------------------------------------------------------------------------
(* useAutosave.                                                            *)

\* The effect of a change: the timer before it is cleared, and set again
\* unless the value is the saved one or is held back.
change(h, v) ==
    [h EXCEPT !.shown = [value |-> v, n |-> @.n + 1],
              !.timer = v # h.last /\ Ready(v)]
edit(d, v) ==
    /\ Here /\ v # hook(d).shown.value /\ hook(d).shown.n < MaxEdits
    /\ hooks' = [hooks EXCEPT ![visit.now][d] = change(@, v)]
    /\ UNCHANGED <<visit, sent, op, server, cache>>

save(i, d, text, quiet) ==
    [visit |-> i, doc |-> d, text |-> text, quiet |-> quiet, at |-> "asked",
     lesson |-> [text |-> [x \in Doc |-> Untouched(x)], status |-> "gone"]]

ToSend(h) == h.shown.value # h.last /\ Ready(h.shown.value)
\* run: one save at a time; while one is on its way it sets itself again, and
\* that timer is nobody's to clear.
runMutant(i, d, h) ==
    /\ hooks' = [hooks EXCEPT ![i][d] = IF ToSend(h) THEN [h EXCEPT !.saving = TRUE, !.state = "saving"] ELSE h]
    /\ sent' = IF ToSend(h) THEN sent \cup {save(i, d, h.shown, FALSE)} ELSE sent

run(i, d, h) ==
    IF h.saving
    THEN /\ h.retries < MaxRetries
         /\ hooks' = [hooks EXCEPT ![i][d] = [h EXCEPT !.retries = @ + 1]]
         /\ UNCHANGED sent
    ELSE IF ToSend(h)
    THEN /\ hooks' = [hooks EXCEPT ![i][d] = [h EXCEPT !.saving = TRUE, !.state = "saving"]]
         /\ sent' = sent \cup {save(i, d, h.shown, FALSE)}
    ELSE /\ hooks' = [hooks EXCEPT ![i][d] = h]
         /\ UNCHANGED sent
TimerFires(i, d) ==
    /\ hooks[i][d].timer
    /\ run(i, d, [hooks[i][d] EXCEPT !.timer = FALSE])
    /\ UNCHANGED <<visit, op, server, cache>>
RetryFires(i, d) ==
    /\ hooks[i][d].retries > 0
    /\ run(i, d, [hooks[i][d] EXCEPT !.retries = @ - 1])
    /\ UNCHANGED <<visit, op, server, cache>>

-----------------------------------------------------------------------------
(* content-service: a published lesson only saves complete.                *)

Accepts(s) ==
    /\ server.status # "gone" /\ Ready(s.text.value)
    /\ server.status = "publicada" =>
         /\ s.text.value \in Complete
         /\ \A d \in Doc \ {s.doc} : server.text[d].value \in Complete
ServerSaves(s) ==
    /\ s.at = "asked"
    /\ IF Accepts(s)
       THEN LET stored == [server EXCEPT !.text[s.doc] = [value |-> s.text.value, n |-> s.text.n, by |-> s.visit]]
            IN  /\ server' = stored
                /\ sent' = (sent \ {s}) \cup {[s EXCEPT !.at = "saved", !.lesson = lessonOf(stored)]}
       ELSE /\ sent' = (sent \ {s}) \cup {[s EXCEPT !.at = "failed"]}
            /\ UNCHANGED server
    /\ UNCHANGED <<visit, hooks, op, cache>>
\* The connection fails before the request gets there, or after; a save that
\* the browser gave up on while content-service still has it is left out.
RequestFails(s) ==
    /\ s.at \in {"asked", "saved"}
    /\ sent' = (sent \ {s}) \cup {[s EXCEPT !.at = "failed"]}
    /\ UNCHANGED <<visit, hooks, op, server, cache>>

\* then, catch and finally of run; useStoreLesson puts the whole lesson of
\* the answer in the cache, also for the save sent on leaving.
settleMutant(h, s) ==
    [h EXCEPT !.state = IF s.at = "saved" THEN "saved" ELSE "error",
              !.last = IF s.at = "saved" THEN s.text.value ELSE @]
settle(h, s) ==
    [h EXCEPT !.saving = FALSE,
              !.state = IF s.at = "saved" THEN "saved" ELSE "error",
              !.last = IF s.at = "saved" THEN s.text.value ELSE @]
AnswerArrives(s) ==
    /\ s.at \in {"saved", "failed"}
    /\ sent' = sent \ {s}
    /\ hooks' = IF s.quiet THEN hooks ELSE [hooks EXCEPT ![s.visit][s.doc] = settle(@, s)]
    /\ cache' = IF s.at = "saved" THEN s.lesson ELSE cache
    /\ UNCHANGED <<visit, op, server>>

-----------------------------------------------------------------------------
(* The page.                                                               *)

\* The editor's own copy is seeded once from what was loaded: what the cache
\* has, or the server's when it was dropped from it.
LessonEditorContent(fresh) ==
    /\ ~Here /\ visit.count < MaxVisits
    /\ cache' = IF fresh THEN lessonOf(server) ELSE cache
    /\ cache'.status # "gone"
    /\ visit' = [now |-> visit.count + 1, count |-> visit.count + 1]
    /\ hooks' = [hooks EXCEPT ![visit.count + 1] = [d \in Doc |-> seeded(cache'.text[d])]]
    /\ UNCHANGED <<sent, op, server>>
\* The lesson in the cache is read again behind the editor.
useLessonDetail ==
    /\ Here /\ server.status # "gone"
    /\ cache' = lessonOf(server)
    /\ UNCHANGED <<visit, hooks, sent, op, server>>

\* Leaving with a change still waiting: it is saved right away, unless one
\* is being saved.
unmount(h) == [h EXCEPT !.timer = FALSE]
leaves(i) == {save(i, d, hooks[i][d].shown, TRUE) : d \in {x \in Doc : ToSend(hooks[i][x]) /\ ~hooks[i][x].saving}}
goBack ==
    /\ Here
    /\ hooks' = [hooks EXCEPT ![visit.now] = [d \in Doc |-> unmount(@[d])]]
    /\ sent' = sent \cup leaves(visit.now)
    /\ visit' = [visit EXCEPT !.now = 0]
    /\ UNCHANGED <<op, server, cache>>

combineSaveStates ==
    LET states == {hook(d).state : d \in Doc} IN
    IF "error" \in states THEN "error"
    ELSE IF "saving" \in states THEN "saving"
    ELSE IF "saved" \in states THEN "saved" ELSE "idle"
busy == combineSaveStates = "saving" \/ op.publish # "no"

doPublish ==
    /\ Here /\ cache.status = "borrador" /\ ~busy /\ ~missing(cache)
    /\ op' = [op EXCEPT !.publish = "asked"]
    /\ UNCHANGED <<visit, hooks, sent, server, cache>>
ServerPublishes ==
    /\ op.publish = "asked"
    /\ IF server.status # "gone" /\ ~missing(lessonOf(server))
       THEN /\ server' = [server EXCEPT !.status = "publicada"]
            /\ op' = [op EXCEPT !.publish = "done", !.lesson = lessonOf(server')]
       ELSE /\ op' = [op EXCEPT !.publish = "refused"]
            /\ UNCHANGED server
    /\ UNCHANGED <<visit, hooks, sent, cache>>
PublishAnswer ==
    /\ op.publish \in {"done", "refused"}
    /\ cache' = IF op.publish = "done" THEN op.lesson ELSE cache
    /\ op' = [op EXCEPT !.publish = "no"]
    /\ UNCHANGED <<visit, hooks, sent, server>>

\* The dialog closes at once; the editor goes on until the answer, which
\* drops the lesson from the cache and leaves, if the page is still there.
doDelete ==
    /\ Here /\ op.delete = "no"
    /\ op' = [op EXCEPT !.delete = "asked"]
    /\ UNCHANGED <<visit, hooks, sent, server, cache>>
ServerDeletes(ok) ==
    /\ op.delete = "asked"
    /\ op' = [op EXCEPT !.delete = IF ok THEN "done" ELSE "refused"]
    /\ server' = IF ok THEN [server EXCEPT !.status = "gone"] ELSE server
    /\ UNCHANGED <<visit, hooks, sent, cache>>
DeleteAnswer ==
    /\ op.delete \in {"done", "refused"}
    /\ op' = [op EXCEPT !.delete = "no"]
    /\ IF op.delete = "done" /\ Here
       THEN /\ hooks' = [hooks EXCEPT ![visit.now] = [d \in Doc |-> unmount(@[d])]]
            /\ sent' = sent \cup leaves(visit.now)
            /\ visit' = [visit EXCEPT !.now = 0]
       ELSE UNCHANGED <<visit, hooks, sent>>
    /\ cache' = IF op.delete = "done" THEN [cache EXCEPT !.status = "gone"] ELSE cache
    /\ UNCHANGED server

Next ==
    \/ \E d \in Doc, v \in Value : edit(d, v)
    \/ \E i \in Visit, d \in Doc : TimerFires(i, d)
    \/ \E i \in Visit, d \in Doc : RetryFires(i, d)
    \/ \E s \in sent : ServerSaves(s)
    \/ \E s \in sent : RequestFails(s)
    \/ \E s \in sent : AnswerArrives(s)
    \/ \E fresh \in BOOLEAN : LessonEditorContent(fresh)
    \/ useLessonDetail
    \/ goBack
    \/ doPublish
    \/ ServerPublishes
    \/ PublishAnswer
    \/ doDelete
    \/ \E ok \in BOOLEAN : ServerDeletes(ok)
    \/ DeleteAnswer

\* Timers go off and requests end; nobody has to type, publish or leave.
Fairness ==
    /\ \A i \in Visit, d \in Doc : WF_vars(TimerFires(i, d)) /\ WF_vars(RetryFires(i, d))
    /\ WF_vars(\E s \in sent : ServerSaves(s) \/ AnswerArrives(s))
Spec == Init /\ [][Next]_vars /\ Fairness

-----------------------------------------------------------------------------
(* Properties.                                                             *)

TypeOK ==
    /\ visit \in [now : 0..MaxVisits, count : 0..MaxVisits]
    /\ hooks \in [Visit -> [Doc -> [shown : Text, last : Value, timer : BOOLEAN, retries : 0..MaxRetries,
                                   saving : BOOLEAN, state : {"idle", "saving", "saved", "error"}]]]
    /\ \A s \in sent : s.visit \in Visit /\ s.doc \in Doc /\ s.text \in Text

\* useAutosave.ts:15 saves "one save at a time": the saves of a part of one
\* visit may not overtake each other, so content-service never goes back from
\* a later edit of the visit to an earlier one, whatever timers and leaving do.
OlderNeverWins ==
    [][\A d \in Doc : server'.text[d].by = server.text[d].by => server'.text[d].n >= server.text[d].n]_vars

\* "Cambios guardados" (SaveStatus) is about what content-service really has
\* of this visit, also when the teacher went on typing during the save.
SavedIsStored ==
    \A d \in Doc :
        Here /\ hook(d).state = "saved" /\ server.text[d].by = visit.now
            => hook(d).last = server.text[d].value

\* A save that started ends, and the part can save again (useAutosave.ts:54),
\* also after the editor is left.
SavingEnds == \A i \in Visit, d \in Doc : hooks[i][d].saving ~> ~hooks[i][d].saving

\* useAutosave.ts:61: "Leaving the editor with a change still waiting: it's
\* saved right away, so nothing typed is lost." The code does not hold it: not
\* while a save is on its way.
NothingTypedIsLost ==
    [][Here /\ visit'.now = 0 /\ op.delete = "no" =>
         \A d \in Doc : ToSend(hook(d)) =>
            \/ hooks'[visit.now][d].retries > 0
            \/ \E s \in sent' : s.visit = visit.now /\ s.doc = d /\ s.text = hook(d).shown]_vars

\* useAutosave.ts:76: "One state for several autosaves: saving if any is". The
\* code does not hold it: an error hides the part that is saving.
SavingIsShown == Here /\ (\E d \in Doc : hook(d).saving) => combineSaveStates = "saving"
=============================================================================
