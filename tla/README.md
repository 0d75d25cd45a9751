# A formal model of IRIS

IRIS is a set of FastAPI services (identity, classroom, content, notification,
behind an api-gateway) and a React web app: teachers keep classes, families ask
for a place in them, kids follow the lessons of their classes. This directory
holds TLA+ modules translated from the source, the TLC instances that check
them, and theorems about them that TLAPS proves for every value of the
constants.

What makes the services hard is the same in all of them. A use case is a
coroutine: it reads with SELECTs (READ COMMITTED, no row locks, no version
column), awaits another service or Redis, decides with what it read, writes the
whole entity back and commits. Other requests run at every `await`. There is no
retry and no background worker that repairs: a handler that fails leaves what
it had committed. What makes the web app hard is that every screen outlives its
requests: an answer comes back to a page that was edited, left, opened again or
signed out of, through a cache that other requests are filling, and windows,
timers and the gaze act in between.

- [Inventory](#inventory)
- [Modules](#modules)
- [From code to model](#from-code-to-model)
- [Runs](#runs)
- [Where the code and its documentation disagree](#where-the-code-and-its-documentation-disagree)
- [Proofs](#proofs)
- [What is not modelled](#what-is-not-modelled)
- [Plan](#plan)

## Inventory

| Component | State it keeps | Operations | Interacts with |
|---|---|---|---|
| classroom-service, classes and enrollments (`classroom_service.py`) | tables classrooms, enrollments, audit log; logo files in a bucket | create, update, logo, archive, restore, delete; remove, answer, ask, leave; erase kids, teacher left | content-service (deletes the lessons of a class), identity-service (asks it to erase), Redis channel (events) |
| classroom-service, messages and announcements | none (rate limit keys) | send, announce, report | Redis channel to notification-service |
| identity-service, sessions (`auth_service.py`, `session_service.py`) | signed tokens held by clients; Redis keys blacklist, session-revoked, sessions-not-before; table session_history | login, refresh, logout, revoke one, close all | every service validates tokens against it |
| identity-service, locks (`redis_gateway.py`) | counters, levels and locks with expiry | record failure, record success, ask how long | login, PIN, password, two-factor |
| identity-service, two-factor and portal (`totp_service.py`) | TOTP secret, single-use codes, portal access | setup, verify, confirm, extend | locks, sessions |
| identity-service, passwords, PINs, profiles | people, students | change | locks, sessions |
| identity-service, account erasure (`account_erasure.py`) | none: a saga | delete guardian, delete teacher | classroom-, content-, notification-service |
| content-service, units and lessons (`unit_service.py`, `lesson_service.py`) | tables units, lessons, blocks, activities; cache of answers of classroom-service | create, update, move, reorder, complete, publish, delete; empty a class | classroom-service (may this class be edited?) |
| content-service, extras and images | tables extras; image files | add, change, delete, upload | classroom-service (audience, announcements) |
| content-service, progress and statistics | pages seen, attempts | reach page, submit, count | classroom-service (reports) |
| circuit breakers | failures in a row, open until | call | every HTTP client |
| notification-service | trays of people | record event, read, delete, erase | Redis channel |
| api-gateway | rate limit keys | proxy | all |
| web app, session and requests (`AuthContext.tsx`, `httpClient.ts`, `TeacherAccessProvider.tsx`) | per tab: the session, one shared promise of a refresh, the dialog of the code; the cookie of the browser; the query cache | load, refresh, login, logout, code, request with its two retries | identity-service, every hook |
| web app, sign up (`GuardianRegistrationWizard.tsx`, `TeacherRegistrationWizard.tsx`) | fields, their checks, question of the email, PIN, card of studies, two-factor set up | type, leave a field, next, confirm | identity-service |
| web app, my profile (`TeacherProfileSection.tsx`, `MiPerfilSection.tsx`) | fields with their pencil, profile being edited, question of the portal | edit, save, discard, leave, delete the account | identity-service, query cache |
| web app, lesson editor (`LessonEditorPage.tsx`, `useAutosave.ts`, `SlidesEditor.tsx`, `ActivityEditor.tsx`) | three documents with a timer each, slides, uploads, questions | type, save by itself, publish, delete, leave | content-service, query cache |
| web app, units of a class (`UnitsPanel.tsx`, `UnitFormDialog.tsx`, `UnitDbaPicker.tsx`) | lists, the window on top, DBA and evidences | reorder, create, change, delete | content-service, query cache |
| web app, classes (`ClassroomSpace.tsx`, `ClassroomFormDialog.tsx`, `ImageCropper.tsx`) | the class opened, its windows, the picture being cropped | create, edit, archive, delete, accept, take out; crop | classroom-service, query cache |
| web app, notifications and messages (`NotificacionesSection.tsx`, `TeacherInbox.tsx`) | pages of a tray, ticks, the one opened, the answer being written | read, delete, answer, write, accept a request | notification- and classroom-service, query cache |
| web app, the kid's lessons (`LessonPlayer.tsx`, `QuizStep.tsx`, `useReachedPages.ts`) | step, page reached, answers, the try | turn the page, answer, submit, leave | content-service |
| web app, choosing with the gaze (`useDwellSelect.ts`, `dwellProgress.ts`, `EyeGesturesGazeSource.ts`, `CalibrationPage.tsx`) | what is filling, what was chosen, the held spot; the state of the eye tracker | sample, choose; start, calibrate, stop | every screen of the kid; a library |
| web app, the kid's notifications (`KidTray.tsx`, `PagedChoices.tsx`) | three cards, the one read, the question | turn, read, delete | notification-service, query cache |

What makes each of the modelled ones correct:

- **Classes and enrollments.** An enrollment is in one class, has one place, and
  that place moves only forwards: asked, answered once, gone. Nobody gets a place
  through a closed door. Archiving or losing the teacher empties the queue. A
  logo that is shown exists. The audit log tells the state.
- **Sessions.** A session has one living key. What was used, revoked or closed
  stays dead although every key that says so expires. The history never says
  more than Redis.
- **Locks.** The failure that reaches the maximum locks, whatever others do to the
  counter meanwhile. A lock and a counter end. A success gives back no guesses on
  the account. The second lock of a portal session closes it.
- **Units and lessons.** Positions are a permutation; a lesson is in a unit, a
  unit is in a class that exists; a published lesson is complete and was
  announced once; a closed class does not change.
- **Account erasure.** Once the account is gone, nothing that was there when its
  deletion was asked for is left at any service, whichever step failed before.
- **Session and requests.** Whoever waits for a refresh or a code is answered; a
  request is tried three times at most; tabs that race for one cookie end nobody's
  session; what one person loaded is not shown to the next.
- **Lesson editor.** Of one document, an older save never lands on a newer one,
  whatever visits, retries and answers do; saving ends; an upload that ends undoes
  no edit; what is saved comes back as the same slides; the activity that is saved
  can be passed.
- **The kid's lesson.** The server ends up with the newest page; an answer that was
  sent is answered or can be sent again.
- **Gaze.** Between two choices the gaze was somewhere else, so nothing that comes
  to the same place chooses itself. No calibration is left that nothing could end.
- **Forms and screens.** A cross or a check is of what is written now; what is shown
  as saved is what the service has, also when one of two requests failed; the
  evidences are of the DBA; a deletion leaves the person on a page with something on
  it; a message arrives once; the picture sent is the one shown; what the teacher did
  is what the screen shows once it is at rest.

The hazards of the code, each at its line, are listed in `PROJECT.json` with the
properties that cover them; those of components not modelled yet say so.

## Modules

| Module | What it is |
|---|---|
| `ClassroomService` | the handlers of classroom-service |
| `EnrollmentPromise` | what classroom-service promises, without handlers: doors and places |
| `ClassroomProperties` | its invariants, action properties and the refinement mapping |
| `MC_Classroom` | small instances for TLC |
| `ClassroomProofs` | theorems, any number of classes, kids and handlers; one handler at a time; the refinement |
| `Sessions` | refresh tokens, Redis keys and history of one adult |
| `SessionsProperties`, `MC_Sessions`, `SessionsProofs` | as above |
| `Lockout` | the locks of wrong passwords, PINs and codes, and the forms that use them |
| `LockoutProperties`, `MC_Lockout`, `LockoutProofs` | as above |
| `ContentService` | units and lessons of one class, the cached permission to edit it, and the deletion of the class |
| `ContentProperties`, `MC_Content`, `ContentProofs` | as above |
| `WebSession`, `WebSessionProofs`, `MC_WebSession` | the tabs, their refreshes, requests and the cookie; theorems for any number of them |
| `LessonEditor` | autosave, publication and deletion of a lesson over several visits |
| `LessonSlides`, `LessonActivity`, `EditorLists` | the documents it saves, and the operators of `editorModel.ts` they share with the units |
| `LessonPlayer` | the kid's way through a lesson |
| `GazeEngine` | the eye tracker and the page that calibrates it |
| `LessonScreens`, `LessonScreensProofs` | these screens side by side, each an instance of its module; theorems about each, for any sizes |
| `MC_LessonScreens` | small instances of them for TLC, one screen per behaviour |
| `Dwell` | choosing with the gaze, over any screens |
| `KidTray` | the kid's notifications |
| `Registration`, `Profile` | sign up and my profile |
| `Units`, `MC_Units` | units of a class |
| `Classrooms`, `ClassLogo` | the classes, and the picture of one |
| `Tray`, `Messages` | the tray of the adults, the conversations and the requests |
| `PortalScreens`, `PortalScreensProofs` | the screens of the portals side by side; theorems about each, for any sizes |
| `AccountErasure` | deleting an account for good, over four services; it runs and is proved beside the screens, as one of their parts |
| `MC_PortalScreens` | small instances of them for TLC, one screen per behaviour |

The properties of a service are in its `...Properties` module; those of a screen
end its module, after the line that says so.

A definition whose name ends in `Mutant` is the definition after it with a
plausible mistake (a guard dropped, a write too many, an off-by-one). No action
uses it: it is there to show that the properties would notice.

## From code to model

### A handler

A request that is being served occupies a slot of `Request`; `req[r]` holds its
local variables: which use case (`op`), where it is (`at`), and what it read. One
slot means that requests run one after the other, two that any two of them may
overlap at every step. A failed call, a refused check, a rollback and the death
of the process are the same step, `Abort` or `Fail`: what was committed stays,
the slot is free. Consecutive SELECTs of one transaction that nothing awaits
between are one step, and so are the re-SELECT, the UPDATE and the commit at the
end: the repositories read the row again only to find out whether it is still
there, and then assign every field, so a step in between changes nothing of the
result. The cost of a wrong granularity would be an interleaving missed, so every
await that another handler could tell apart is a step of its own.

### classroom-service

`classrooms`, `enrollments` and `audit` are the tables, `stored` the bucket,
`minted` the ids ever given out (uuid4 never repeats). The five descriptive
fields of a class are one value `details`; `archived` and `left` stand for
`archived_at` and `teacher_left_at` being set. All classes belong to one teacher.
`WriteBack` is `ClassroomRepository.update`: it writes every field of the entity
that was read, which is where stale state comes from. `RequestInsertCommit` has
the unique constraint (student, class) and the foreign key in its guard: where
they refuse, the handler can only abort. `AfterCommit` is what runs after the
transaction (deleting the old logo). Events are not stored here.

`EnrollmentPromise` has a door per class and a place per enrollment. The mapping
reads the door from the audit log and the row, and the place from the row of the
enrollment: an id that was given out and is in no row is gone.

### identity-service, sessions

`now` is whole seconds, as in the tokens. `issued[j]` is the token with id `j`
(its session and its date). A Redis key is the second in which it was set:
`Alive` says whether it has expired. All keys live `RefreshTtl` seconds because
the code gives them that of a refresh token. `closed` is the second of
"close all"; the mark is one second later (`BeforeClose`). `history` is the row
of the session. A refresh is six steps: decode, blacklist, revoked, mark,
invalidate, issue, one per Redis call. `was` is not in the code: it remembers how
the token was already dead when the refresh began, and only properties read it.

### identity-service, locks

An attempt key (`Key`) has the three Redis keys of `RedisAttemptLockout`: `fails`,
`level` and `until`. Each holds its value and the time it has left (`failsLeft`,
`levelLeft`, and `until` itself, whose value is never read), which `Tick` counts
down; a key made by INCR has no expiry (`Never`) until EXPIRE gives it one. Time is
in the whole seconds that TTL answers.

A form is one use of the locks by one person: `Locks` gives the attempt keys it
asks and counts on, one (PIN, change of PIN) or two, its own and the one of the
account (login, change of password, code of the portal); `Clears` the key that
`change_student_pin` clears besides; `Closing` the forms of `_check_code`, which
closes the session at the second lock. All of them have the same handler:

| Code | Actions |
|---|---|
| `segundos_bloqueado` of each lock | `AskLock` |
| the password, PIN or code is right, wrong, or there is nothing to compare it with | `Verify`, `Refuse` |
| `registrar_exito` | `Forget`, `Clear` |
| `registrar_fallo`, one action for each Redis command | `Count`, `ExpireFails`, `AskLeft`, `RaiseLevel`, `ExpireLevel`, `SetLock`, `DeleteFails` |
| `nivel`, `revoke_session` | `AskLevel`, `RevokeSession` |
| a Redis error, the end of the process | `Die` |

Two counters are cut where no larger value makes a difference: `fails` one above
the maximum (`FailsTop`) and `level` at the last wait or the level that closes,
whichever is higher (`LevelTop`). In the code they only grow, and only until they
expire. A lock that already refuses is not followed by the question to the second
one, which reads and changes nothing.

### content-service

One class, its units and lessons. A lesson is its unit, position, status, and
whether its pages and activity are complete (`missing_to_publish` reduced to two
booleans). `cache` holds the last answer of classroom-service to "is this its
teacher" and "may it be edited"; it may expire at any time (`Forget`), since the
30 s are longer or shorter than anything a handler does. An answer may be on its
way (`Ask`) when the class changes; it is cached when it arrives (`Returns`). An
open breaker or an HTTP error is `Fail`: the service denies without caching.
`class` and `deletion` are the class in classroom-service and how far its
deletion is: the class is read as archived, emptied by the call, then dropped
whatever became of it, as in `delete_classroom`. `announced` counts to two.
`UnitsStand` is the foreign key lessons.unit_id, checked when a handler commits.

### identity-service, account erasure

`role` is whose account it is, `account` and `kid` its rows in identity-service.
A row of `rows` is anything that another service keeps of the person or of a kid: an
enrollment or a class with its teacher, the progress of a kid, a notification, a
session (`teacher_left` takes the teacher off a class, so that row goes as well).
`asked[f]` is a deletion under way: at which step it is, and the kids that
were read with the account. `Answers` is a step that succeeds. `Fails` is
`ErasureUnavailable` as well as the death of the process: the deletion ends and
the step was done, was not, or will be done after the answer was given up (`late`,
`ComesLate`). The person may ask again, and from two tabs at once. The other services
keep no account, so they write rows meanwhile, after the account is gone too, with a
token or an event that outlives it; a handler there that writes back what was just
erased counts as a new row (`Write`). `since` and `took` are not in the code: they
say what a deletion found written, and only the property reads them. The code and the
password that come before, and the locks on them, are those of `Lockout`.

### the web app

A screen is modelled with the part of its services it talks to, as the handlers
above show it: one answer a request may get, refusals included. What a person may
do is an action with the conditions under which the code shows it and leaves it
enabled; what the code does later, a timer, an answer that arrives, an effect or
the callback of an animation, is another action. So a request is at least two
steps, the server's and the answer's, and everything the person can still do comes
between them. A mutation's `onSuccess` and the `invalidateQueries` of its hook
are part of the step of the answer. Effects that React runs in the same commit as
the change they depend on are part of the step that changes it. A part that
is unmounted loses its state and not its requests, which come back to the
next mount or to nobody.

- **WebSession.** `server` is identity-service as the cookie sees it: the sessions
  started, which key each accepts, whether its panel is open. It is the abstraction
  of `Sessions` to one device, with the seconds of grace (`recent`) in which a
  key just used is refused without closing anything. `stray`, which no step reads,
  remembers the open sessions that such a race may end all the same: a new key never
  reached the browser, or the grace ended before it did. `jar` is the cookie, `tab`
  the AuthProvider and the TeacherAccessProvider of each tab, `attempts` the
  refreshes under way with their pause and second try (`AuthContext.tsx:49`),
  `call` the requests of `apiFetch` with their two flags `_isRetry` and
  `_isRetry2fa`. An access token has no life of its own: whether it is refused is
  a choice of `ServerCall`. `cache` is whose data the query cache of the tab holds.
- **LessonEditor.** A document is what it holds and which edit of the visit wrote it. `hooks` are the
  `useAutosave` of each visit with timer, retries and the value last saved; `sent`
  the saves on their way; `Complete` says which values have all that is asked to
  publish.
- **LessonSlides, LessonActivity.** Slides have a key and blocks; a block is its
  kind, its key and whether something is written in it. `toBlocks` is what is sent,
  as rows, and `toPages` what is read back. Questions are lists of right and wrong options.
- **LessonPlayer.** `reach` is `useReachedPages` of each mount, `asks` the checks
  and attempts on their way, `content` what content-service has. The server may
  answer that the copy of the lesson is old.
- **Dwell.** The screen is a line of spots; a target covers some of them and some
  are under a window. A `sample` runs every target's hook, fills, chooses at most
  what is full, and lets the screen become any other one, which is what a
  choice does in the app. `moved` remembers, for the property, whether the gaze was
  far from the last choice.
- **GazeEngine.** The states of the engine, what the library says (that it works, that
  it calibrated, nothing, or an error), the mouse that takes its place, and the
  page with its phases. Nothing is assumed of the library: its script may never come,
  it may never find a camera nor say a word, so there is no fairness and no claim that
  a calibration ends. What can be claimed is that none is left that could not end.
- **Registration.** A value of a field is a number that stands for a class of
  values the checks tell apart: empty, wrong, right, another right one. `Verdict`
  is the check, `Rechecks` which other fields a field checks again.
- **Profile.** Both portals: the guardian's fields save in one request, the teacher's
  in two, and the question before leaving has its own flag in the portal. A save is
  two steps for each part, identity-service's (`ServerStores`) and the answer's
  (`AccountSaved`, `ProfileSaved`), and it goes on when its section is left. The queries
  of the section read what is stored (`Refetch`) and answer later (`Refetched`). The
  form is filled only when it is mounted, and an answer writes the cache whatever was
  written there since: a save that ends after its section was left and opened again
  leaves the old values in the form, and a read begun before a save that lands after
  it puts the old ones back in the cache. `unsure`, which no step reads, remembers that
  such a thing happened.
- **Units, Classrooms, Tray, KidTray, Messages.** `server` is what the service
  has, `cache` the answer shown and whether it is stale: a stale answer is read
  again by a step of its own, and until then it is what the screen shows. Windows
  have the phases of `useModalDialog`: open, leaving, gone. What a deletion of the tray
  does when its answer comes (close the reader, go to the page before) was decided from
  the rows of when it was accepted, and travels with it in `requests`.
- **ClassLogo.** Whole pixels and whole zooms: the arithmetic of `cropMath` on
  a frame of two. The timer of `ImageCropper` starts an encoder whenever it goes off,
  also with others at work: `encoding` are the crops being made in the order they were
  begun, and any of them may be ready first (`takeCrop`). `passed` and `outdated`, which
  no step reads, remember whether the last one to come was older than one before it.

The screens share no variable: they meet only through the services, and a service
they share is in each of them as that screen sees it. The two MC modules therefore
instantiate many of them at once and follow one of them in each behaviour
(`part`): one run with the properties of all of them, and no product of their
states.

## Runs

Every bound is a CONSTANT of the cfg. `MaxAudit` and `MaxTime` are guards; the
others are the sizes of the sets. Symmetry permutes ids and slots, which are only
compared; it is used only where no liveness is checked, so not for the locks,
where it would be unsound. Deadlock is checked for the locks alone, where time
always goes on: elsewhere a service without requests, with all ids given out,
rightly stops.

| Run | Instance | Shows |
|---|---|---|
| `classroom_serial` | 2 classes, 2 kids, 2 enrollments, 2 files, 1 slot, 4 audit lines | with one handler at a time (and any of them dying half way) the queue of a closed class is empty, the audit log tells the state, logos are stored, and every step is a step of `EnrollmentPromise` |
| `classroom_concurrent` | 1 class, 2 kids, 2 enrollments, 1 file, 2 slots | what survives any interleaving: integrity of the rows, nobody comes back except by asking, nobody gets in except through an open door and an answer, a deleted class is gone |
| `sessions_serial` | 2 sessions, 3 tokens, 1 slot, TTL 2, clock 0..3 | a revoked session stays revoked after its Redis key expired |
| `sessions_concurrent` | 1 session, 2 tokens, 2 slots, TTL 2, clock 0..3 | no dead token is used, the history never runs ahead |
| `content_serial` | 3 units, 1 lesson, 1 slot, complete and incomplete saves | with one handler at a time (and any of them dying half way) the units of the class are at 0, 1, 2..., a published lesson stays complete and is announced once |
| `content_concurrent` | 2 units, 1 lesson, 2 slots, bound `FewWhenClosed` | what survives any interleaving: no position below zero, a lesson keeps a unit, nothing deleted comes back, a closed class freezes |
| `lockout_healthy` | 1 form of the portal, the keys of its session and its account, 1 and 2 failures, waits of 1 and 2 seconds, 2 slots, nobody dies | a full counter is being locked and gets its lock, counters and levels get their expiry, the second lock closes the session, locks and counters end, and a success takes nothing off the account |
| `lockout_deaths` | the PIN of a kid and the form that changes it, 2 failures, waits of 1 and 2, 1 slot, deaths between any two commands | types, and a lock that ends wherever its handler dies |
| `session_and_lessons` | two tabs, one request, one session with two keys; one document with two edits, a retry and a visit; slides of one kind of block, two at most, with an upload and two mounts; two questions of two or three options; a lesson of two pages and two questions with an extra of one question, two mounts, two turns, one try and a lesson that changes once; three starts of the eye tracker | requests that wait are served, end, and never loop; a session ends for a cause; older saves and pages never win; saves and answers end, and a calibration can; what is saved can be read and passed (201,986 states) |
| `portals` | the gaze over four spots and two screens of three targets; two kid's notifications, one to a screen, one deleted here and one elsewhere; a sign up with five fields of two or three values and a taken email; one field of the profile, a finished card and an unfinished one, one save and both reads; two units, a lesson and two DBA; two notifications and one deletion; two messages, a request, a text and a lost answer; a wide and a tall picture, three picks, changes or changes of mode and two encoders at once; two classes, one kid, two changes and a lost answer; an account of either kind with one kid, two rows, two tabs that delete it and one late call | the property of each screen, and of the erasure, under [what makes each correct](#inventory) (889,149 states) |

`unit_window` and `lesson_order` are the counterexamples of the next section.

Why these are enough: two slots show every pairwise race, and the races of this
code are pairwise (each is one stale read and one write); two kids, two classes
or two units are what it takes for one to be taken for the other; three units are
the least for which a wrong shift and a wrong permutation differ; the clock runs
past the life of a key. For the deletion of an account, two tabs and a call that comes
late are what it takes for one deletion to be overtaken by another. For the locks, two failures are the least for which a
failure that locks differs from one that does not, one is the boundary at which
the first failure locks as well; waits of one and two seconds are the least for
which a lock that is set again may never run out. The theorems below remove the bounds from the properties
that hold under any interleaving.

On the screens, one request on its way and one answer lost are the least for every
overlap of an answer with what the person does meanwhile, two edits and two turns
the least for an older one and a newer one, two mounts for an answer that comes
to the next visit, two tabs for a cookie two refreshes race for. Three tabs are
too many for the code itself: of three refreshes at once the third one may lose
twice and its tab forgets the session; the cookie and the session stay, and
`SessionEndsForCause` is proved for any number of tabs. Two encoders and three picks or
changes are the least for a crop that is overtaken by one of another picture. A frame
of two pixels has a middle and an odd and an even side.

The profile of the run has two more bounds, in `MC_PortalScreens`: a behaviour is not
followed once an answer was lost or crossed another (`unsure`), where `ShownAsSaved`
says nothing, and no query of the section is under way while a question or a card of
danger is on top of it (`ReadsOnFreeScreen`), which they do not look at. Larger
instances were run by hand with each of the screens alone, and nothing was found:

| Screen | Bounds | Distinct states |
|---|---|---|
| `WebSession` | two sessions, three keys | 6.6 million |
| `Profile` | without `ReadsOnFreeScreen` | 1.2 million |
| `Profile` | two saves under way | 18.6 million |
| `ClassLogo` | four picks, changes or changes of mode | 1.0 million |
| `Tray` | the two boxes | 0.9 million |
| `Tray` | pages of two and three numbers; two deletions at once | over 15 million each, not finished |

With these bounds a few branches are reached by no run: the other box of the tray
and turning past its page, an order of units that is refused, a window of units
that closes for a last time, a picture that cannot be read, the way home from a
lesson without extras, and an autosave with nothing to send. They are translated
all the same, and no property is said to hold of them.

`SessionsProperties` has a second specification, `PromptSpec`, with one
assumption: a refresh finishes before the token it was given expires. Without it
the service can be held between two awaits for the whole life of a token, 7 days
as configured, and a token that was decoded in its last second may find the keys
that killed it expired. The assumption is needed only for the properties that
speak of what a client can do with the tokens it got, and is used only there.

The closing of the class and two units multiply, so `content_concurrent` has the
constraint `FewWhenClosed`: while the class is not open at most one unit and one
lesson, or two units, have been given out. With the class open every
interleaving of two handlers over two units is explored, and the closing,
reopening and deletion over the rest.

Fairness is assumed where something has to happen. Of the services that is only
the locks: `WF(Tick)`, since time passes, and `WF(Step(r))` for every handler,
since the event loop comes back to a coroutine whose Redis call was answered. The
people are not fair: nobody has to try, or to be right. Where a handler may die
(`Spec`), the fairness of its steps says nothing of one that died. `HealthySpec`
leaves deaths out, because without them the counters have properties that a
death destroys, as the next section shows. In the other services nothing has
to happen: a handler is driven by its client, may die, and no worker takes up
what it left. On the screens what is fair is what the browser does by itself: a
timer goes off, a request ends with an answer or as lost (`fetch` rejects), an
answer that came is read, an animation calls back. Per refresh and per request
in `WebSession`, per visit and document and for the saves sent in `LessonEditor`, per mount in
`LessonPlayer`. Nobody has to type, click, look, sign in or leave, and no service has
to answer well. The library of `GazeEngine` is somebody else's and the code guarantees
nothing of it, so nothing is fair there.

## Where the code and its documentation disagree

Each of these is an instance in which TLC finds a statement of the repository
violated by what the code does. Two are runs of `PROJECT.json`, where the finding
quotes the statement:

| Run | Property | What happens |
|---|---|---|
| `unit_window` | `WindowsGoAway` | after a unit is created or changed its window closes, and nobody takes it away |
| `lesson_order` | `NewLessonIsLast` | one handler at a time: after a deletion a new lesson is not the last of its unit |

Others have their configuration here and are started by hand,
`tlc -config RaceArchiveRequest.cfg MC_Classroom.tla`:

| Configuration | Module | Property | What happens |
|---|---|---|---|
| `RaceArchiveRequest` | `MC_Classroom` | `NobodyWaitsOutside` | a request committed between the reading and the archiving waits in an archived class |
| `OrphanLesson` | `MC_Content` | `NoLessonWithoutItsClass` | a lesson is created after the class was emptied |
| `SomeoneElsesData` | `MC_WebSession` | `NobodyElsesData` | a login over an open session keeps the data of the person before |

For the rest it is enough to name the property in a configuration that is here.
In `RaceArchiveRequest`: `OnlyArchivedIsDeleted` (restored while its lessons are
deleted), `LogoIsStored` and `LeftForGood` (an update writes back what was
replaced), `OneAnswer` and `AcceptedBlocksANewRequest` (two answers, or a request
read before its answer). In `SessionsConcurrent` with `PromptSpec` and a third
token: `OneKeyPerSession` (two refreshes of one token both succeed),
`ClosedStaysClosed` and `RevokedStaysRevoked` (a refresh overlaps the closing). In
`OrphanLesson` with a second slot and `Saved = {TRUE, FALSE}`: `PublishedIsComplete`
and `AnnouncedOnce` (a save or a publication overlaps a publication). In
`LockoutHealthy`: `SeesTheLock` (a failure past the maximum asks for the lock before
it was set) and, with `Spec`, `CountersFade` and `FullCounterIsBeingLocked` (a handler
dies between two commands). In `PortalScreens`: the three of `Dwell` below. Those of
the other screens in their own module, with the sizes they have in the runs, but
two documents for `SavingIsShown`, three turns for `ServerKnowsThePage`, and images
and six keys for the two of `LessonSlides`; each is beside the code's words:

| Module | Property | What the code does instead |
|---|---|---|
| `LessonEditor` | `NothingTypedIsLost` | leaving while a save is on its way drops what came after it |
| `LessonEditor` | `SavingIsShown` | an error of one part hides that another is saving |
| `LessonSlides` | `ImageGoesWhereAsked` | a picture lands on whatever slide is at that place when it arrives |
| `LessonSlides` | `OldPagesStayGone` | an upload of a tab that was left brings its pages back |
| `LessonPlayer` | `ServerKnowsThePage` | going back to the page before is not told |
| `LessonPlayer` | `LeavingLeavesNoRecord` | a check that ends after leaving still keeps the try |
| `GazeEngine` | `OneSourceAtATime` | a library stopped while it loads starts all the same |
| `Dwell` | `TimeAwayDoesNotCount` | the timer runs from the last sample, whenever it was |
| `Dwell` | `HeldUntilMoved` | only a sample inside a target lets the spot go |
| `Dwell` | `UnderAWindowNothingIsChosen` | the gaze looks at rectangles, not at what is inert |
| `Messages` | `AnswerGoesWhereWritten` | the arrows of the reader keep what was written under one message for the next one |
| `KidTray`, `Tray` | `EmptyMeansEmpty` | a page left behind by deletions says that there is nothing |
| `Registration` | `CheckedWhenConfirmed` | what is typed while the email is asked for is not checked again |
| `Profile` | `LeavingAsksFirst` | the flag of the portal is cleared by the question and not set again |
| `Profile` | `QuestionsAreAnswered` | the second of two questions in a row cannot be answered |
| `AccountErasure` | `NoKidIsForgotten` | a kid created after the kids were read goes with the account, and the other services are not told |

The arrows of the reader of the tray walk the page that was listed when the
notification was opened; once that page is read again they may stay on an old
one. Past the edge they ask for another page and open its first or its last
notification when it comes, also when the person went back to the list meanwhile
(`pendingEdge`). A notification that was opened after its own deletion was asked for
from the list stays open when the answer comes. The form of the profile and its cache may
show older values than were saved, as told above, and of two encoders of a picture the
older one may be ready last. The models follow all of these; the properties name them
as their exceptions, or say nothing of them.

## Proofs

TLAPS checks every leaf. The theorems hold for any sets of ids, files, slots and
saves, finite or not unless an assumption says so:

- `ClassroomAssumption`: the value for "no class" is not a class and the one for
  "no file" not a file; an id of an enrollment is not the name of a file.
- `SessionsAssumption`: keys live at least a second, `None` is not a number nor
  a token.
- `LockoutAssumption`: a form has one or two locks, maxima, windows and waits are
  at least 1, the own key of a form that closes sessions is used by no other form,
  `Never` is not a number.
- `ContentAssumption`: units and lessons are finite sets (their positions are
  counted), `None` is none of the values.
- `WebSessionAssumption`: every request has its tab, and a session at least one key.
- `DwellAssumption`: spots are positive numbers, a target is a set of spots on each
  screen, a target takes at least a tick to fill.
- `LessonAssumption`, one part per screen. Editor: what is complete is something
  that can be saved, and something is. Slides: the kinds of a piece are among the five
  of the code. Activity: a question may have two options, which is what a new one has.
  Player: the lesson has pages and questions, every extra one or the other.
- `PortalAssumption`, one part per screen. The kid's notifications: a screen shows at
  least one, their numbers are positive and finitely many (places are counted). Sign up:
  a field that looks at another has it. My profile: there is something right to type in
  each field, "no card" is not a card. Units: the two values for "no DBA of the
  catalog" are not in it. Tray: pages have at least one. Messages: letters and members
  have distinct positive numbers. Picture: the frame has an even side and one side of
  each picture is the unit of length. Classes: their numbers are positive. Erasure: the
  person is not one of the kids.

Every theorem about a screen is of that screen's own specification; the runs of the
screens run one of them per behaviour.

Some properties are true only when the requests of one service come one after the
other, which is what the tests of the repository do; the table above shows how two
overlapping ones break them. Their theorems say so: they assume `OneHandler`, that
the slots are one, and hold for every number of classes, kids, files, tokens,
sessions, seconds, units and lessons. A handler may still die between any two of
its steps, and what is not a handler (the clock, the teacher who leaves, the class
that is archived and deleted in the other service) still comes between them.

**classroom-service** (`ClassroomProofs`). The inductive invariant is `TypeOK`,
`Integrity` and `HandlersHoldOpenClasses`. `Integrity` alone is not inductive: an
answer writes rows by id, and one must know that the rows a handler holds were
minted and that a row with the same id has not moved to another class. With that,
`NoRevival`, `ThroughTheDoor` and `DeletedStaysDeleted` are facts about one step
from a state of the invariant, one case per action.

One handler at a time, the invariant is `Serial`: what the handler read (`InStep`) is
still what the tables say, nobody waits in a class without door, the audit log tells
the state, and every logo shown is stored. None of them is inductive alone: that the
queue is empty after `archive_classroom` needs that the rows it ended were all
the rows, that is, that no request was inserted since it read them. The logos need
one fact more: a file that a handler is about to delete is shown by no class
(`Spare`), and a file that was uploaded and is not yet shown has no other name.
All that changes the tables is one of a few atomic changes (`Change`), so each part is
proved once per change and not once per handler.

`PromiseIsKept` is the refinement: every step of a handler opens, closes or deletes a
door or moves one place as `EnrollmentPromise` allows, or is a stutter. The step that
answers a request is where it is needed that the queue tells the truth; the one that
archives moves every waiting place at once. The door is read from the class and
its audit log, so the mapping uses `AuditTellsState` too.

**Sessions** (`SessionsProofs`). That no dead token is used is an argument about
time: a handler that saw no blacklist key has a token that was not used before it
looked, or one that expired since. `IInv` says for each phase what has been
excluded, with the dates that make it last: issue dates and key dates are never
in the future, and a token's date never comes after the second in which it was
used. Every key lives as long as the youngest token it kills, so a key that
expired kills only tokens that expired.

One handler at a time, `Serial` adds what Redis and the history tell of the tokens of
one session: all but one were used (`OneLive`); none was issued after the session was
revoked (`NoneAfterRevoked`); "close all" came after all of them or before all of them
(`SameSide`), after all of them if the history says so (`EndedByAll`). `Knows` is what the
refresh has read and still is so. With it a token that refresh accepts was never used,
revoked or closed at all (`AcceptedFacts`), and `RevokedForGood`, `OneKey`, `ClosedForGood`
and `HistoryIsTrue` follow. The last three are proved and not run: TLC checked them on
the instance of `sessions_serial`, where the configuration names the first.

**Locks** (`LockoutProofs`). `TypeOK` is inductive by itself, deaths included: a
key is gone exactly when its value is 0, and the handler that sets a lock holds
the level that INCR gave it, so the wait it looks up exists and the lock ends.
`GuessesAreNotGivenBack` is a fact about one step. When no handler dies, `IInv`
adds who is about to do what is left to do: the handler that made a key without
expiry is at its EXPIRE; the one whose failure filled a counter is on its way to
the lock, and only a handler that fills a counter reaches the maximum exactly; the
one that locked a session twice carries `shut` to the question for the level.
The three hold together with `OthersStay`: a step moves one handler, and the
others go on being where the invariant needs them. The cases follow the phases.

**content-service** (`ContentProofs`). `IInv` has the types, what each handler
holds by use case (`Holds`) and `LessonsHaveUnits`. `Holds` is what makes the
types inductive: a position is decreased only for units after the one deleted,
and that one had a position when it was read, so none goes below zero.
`ClosedStaysFrozen` needs in addition that a question asked while the class is
closed is answered no.

One handler at a time, `Serial` has the positions as a permutation of 0 to n - 1
(`Numbered`), which is what is inductive: `UnitsInOrder`, that none is left out, follows
by counting (`OrdersCover`, a function without repetitions between sets of the same
size reaches all of them). `OneMoreUnit`, `OneUnitLess` and `NewOrder` are the three
things a commit does to them. That a published lesson stays complete, and is announced
once, needs that the entity a handler checked is like the row it writes (`LikeTable`),
that only published lessons were announced (`Heard`), and that an id never comes
back (`Minted`): a lesson created again under an old id would be announced again.

**Session of the web app** (`WebSessionProofs`). `IInv` has the types, one attempt
per tab, that sessions named by the cookie, a tab, an attempt or a request are
sessions of the server, what a refused attempt was told, and how often each
request was made with which flags (`Counted`). A request that waits has an attempt
in its tab, because the attempt that ends moves every request that waits for it,
and the dialog that goes away ends those that wait for the code. That needs no case
for each pair of steps: `RequestsMove` says what any step but the two that begin to
wait does to a request, and is proved once. `NoRaceEndsASession` is an argument about
who holds which key (`RaceSafe`, for each session that lives and is not astray): the
newest key is in the browser, or in the one answer that brings it, and then whoever is
still on the way to identity-service presents a key whose grace is not over; so no
attempt can present a key that passes for a stolen one. It needs that a tab starts an
attempt only with the cookie of the browser (`Quiet`), that the key just used is in its
grace (`LetIn`), and that sessions that ended never live again (`Stay`). That the newest
key is lost, or comes after the grace, is when the argument fails, and the code as
well. `RequestsStayServed` puts together
that those who wait are served (`NobodyWaitsForNothing`) and that nobody asks without
end (`RetriesEnd`), the two halves of `RequestsAreServed`.

**Autosave** (`LessonScreensProofs`). `OlderNeverWins` is about two saves, so `EditorInv`
says what the saves on their way have to do with each other and with the screen: a
part has at most one (`OneSave`), but for the one sent on leaving; that one and any
other of the part then hold the last edit, because nobody types in a visit that is
over (`LastSave`); nothing sent or stored is newer than what is shown
(`NotNewer`), or of a visit to come. Then what content-service has is never ahead of
a save it may still do (`Ahead`). The constants are unbounded: any parts, texts, visits,
edits and timers set again. A save that the browser gave up on is taken to be over
at content-service too: were it saved after the next one, the older text would win,
and nothing in the code would notice.

**Slides** (`LessonScreensProofs`). `SlidesInv`: the keys of slides and pieces are
distinct, in the slides on screen and in the ones each upload remembers, and all are
below the next key. The second half is what makes it inductive: an upload that ends
after the tab was left puts back the slides it knew. `PicturesUndoNothing` is then a
fact about one step. The lemmas on lists (`RemovedOne`, `MovedOne`,
`InsertedOne`) say which pieces a list has after the operators of `editorModel.ts`, and
where. `SlidesAlwaysComeBack` adds what content-service gives back (`ReadBack`). The rows
sent are a set, as a table keeps them, and reading them in order is picking the i-th by its
rank: the one that i of them do not come after. That is what a sort of them gives, and
needs no recursion: of a finite set of numbers each has a rank of its own
(`PlacesDiffer`), the rows of a slide up to a place are as many as the place says
(`RowsCounted`), and the numbers of the slides sent are those of the slides with
something on them (`RowsSent`), so a slide that is empty moves the later ones up.

**Activity** (`LessonScreensProofs`). `Reachable`: the threshold is between one and the
number of questions, every question has as many options as the limits allow and
one right answer at most. Each edit sets the questions through `setQuestions`, which
lowers the threshold (`QuestionsSet`).

**The kid's lesson** (`LessonScreensProofs`). The argument is that of autosave with the
queue of `useReachedPages`: the saves of one mount stand in line (`Line`), one on its
way, one of each part waiting and newer than the one of its part that flies, and
none is older than what content-service has of that mount (`LaterThan`).

**Gaze** (`PortalScreensProofs`). `Held`: since the last choice the gaze was far from it,
or its spot is still held; what is full is not on a held spot.

**Units of a class**. `UnitsInv`: wherever a DBA is (content-service, cache, window, what
the window sent) its evidences are of it. All four are needed: each is filled from another.

**Messages**. `InboxInv`: a text is written in one box, and is on its way once
(`OnceOnItsWay`); a text that may still be delivered has arrived once less than the
others may (`Arrivals`). That is what an answer that was lost leaves behind: the
text is still in its box, and may have arrived.

**My profile**. `ProfileInv`: of each part (`Settled`), while an answer is on its way with
something stored, what identity-service has is what one of those saves sent; else the
cache, every read under way, and the saved values of the form on screen are what it
has. `ShownAsSaved` is the second half. It is not inductive without the first, which is
what the answer of a save has to find; nor without what the parts do to each other: the
answer of the account starts the request of the profile, and the form is filled from
the cache when the section is opened.

**Sign up**. `WizardInv`: the property itself with the types. A step has to check again the
field that is typed and every field that looks at it; `ProblemOf` says which those are
not.

**Lists cut in screens or pages**. The kid's tray and the adults' are cut alike, so one
section proves what both need: a set of numbers cut in pieces of a size (`Divided`) has
something on a piece when more numbers than the ones of the pieces before are there
(`ScreenHasSome`), by ranking: the place of a number is one-to-one onto the first
numbers (`PlaceOfItsOwn`), by the pigeonhole facts of finite sets.

**Tray of the adults**. `TrayInv`: while the person stays on the page where the only
deletion under way was accepted (`unmoved`), the box keeps what the answer counts on
(`Remains`): without what is deleted, as many as fill the pages before, if the answer
goes to the page before, and more than those, if it stays. Arrivals only add to it,
and reading the page again does not change what the answer will do. `Divided` then
gives a page with something on it, unless the box is empty (`DeletionsLeaveAPage`).

**Picture of a class**. `LogoInv`: the frame is covered by the view on screen, by the one a
gesture began with and by those of the crops being made and of the last one; and
(`CropFollows`) unless one more will be made, the newest crop being made is of what is
on screen, or, when it came already, the last one to come is, unless an older one came
after it. `passed` is what tells the two cases apart: the crops before it in the queue
are older than one that came. Any number of them may be at work.

**Classes**. `ClassesInv`: what the cache has of each class is to be read again, or is
what classroom-service has, or an answer about that class is on its way, or an answer
was lost. The last disjunct is the code's: nothing is read again when `fetch` rejects.

**The kid's notifications**. `DeletionLandsSomewhere` is arithmetic on screens: a deletion
takes one from the server, and the kid is left on a screen that may be the last.
`KidInv` says that while the kid waits for a deletion asked for from the list as it is,
no other is under way, the screen stays, and the server still has everything that is
before and on it, less what was deleted (`StillThere`); then `ScreenHasSome` says that
the screen is not empty.

**Deleting an account** (`PortalScreensProofs`). `NothingIsLeftBehind` is about rows that
were there when the deletion began, so `ErasureInv` follows those while it is under
way: each is of the person or of a kid that was read, and at a service the deletion
has still to go to; when the sessions are closed none is left. That the kids read are all
whose rows there may be holds because no kid leaves while the account is here. Anything
else that happens only takes rows away or writes newer ones (`OnlyLess`,
`ErasureMeanwhile`), other deletions and late calls included: they need no case each.

**The eye tracker** (`LessonScreensProofs`). `CalibrationCanEnd` with the types, and
that the library was made only if its script came, and that it runs while the eyes are
ready: a page that goes on without the camera stops it, and is never one that could
have known better.

Every safety property of the passing runs is proved. Only model-checked, being liveness
under fairness, are `LockEnds`, `CounterForgotten`, `SavingEnds`, `AnswersComeBack` and
`RequestsEnd`.

The attempts to prove found these faults in the model, all mended:

- the mapping of a door was a CASE whose guards overlapped (a class may be archived and
  without teacher), which leaves the value open in TLA+ while TLC takes the first; it
  is an IF now;
- `CropIsWhatIsShown` was false while a picture picked earlier is picked again and still
  loads, which takes three picks; it excludes that moment now;
- in `Classrooms` deleting a class left its space and its window open, so that a later
  save could be asked with no class; deleting takes them away, as the code does. With
  `MaxSaves = 4`, `MaxLosses = 1` and two classes TLC finds nothing wrong (9.2 million
  states, started by hand);
- two assumptions were missing and hold in the code: that each field of my profile
  accepts something, and that the kid's notifications are finitely many.

## What is not modelled

- Of the modelled components: reading use cases (they change nothing), code
  rotation and display of a class, titles, descriptions, DBA in content-service,
  the kid's own checks in identity-service before a request, what handlers publish
  on Redis, the `mfa` claim, students' sessions.
- Of the screens: layout, wording, styles, focus, what is announced to screen
  readers, the search and sorting of lists, pictures drawn, the smoothing of the
  gaze, the preview of a lesson and the dialog of its extras, announcements and
  reports, and timers that read a list again now and then (a stale answer may be
  read again at any time where that matters).
- `TwoFactor`, `CircuitBreaker`, `ContentExtras`, `Progress`,
  `Notifications` and the rate limiters: the components with `not_modelled` in
  `PROJECT.json`, each with its reason there. Nothing stands in the way; they are
  the plan. Statistics, help, landing and settings show what they read, and
  `shared-types` only declares types: there is nothing to check.
- HTTP, schemas, logging, storage signing: no property is about them.
- Several teachers: ownership is a comparison of one field that never changes.

## Plan

In this order, each a module with properties, runs and, where the property holds
under interleaving, proofs:

1. `WebSession` over `Sessions`: that `server` is what `Sessions` shows to one
   device, as a refinement.
2. `TwoFactor` and portal access: setup racing verify, single-use codes, the
   window that is extended; `RateLimiter` beside `Lockout`.
3. `Notifications` (channel, listener and trays) under `Tray` and `KidTray`.
4. `ContentExtras`, `Progress` and the rules of statistics, `CircuitBreaker`.
