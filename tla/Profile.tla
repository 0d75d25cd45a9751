------------------------------ MODULE Profile ------------------------------
(***************************************************************************)
(* "Mi perfil" in the portals of the web app, the teacher's and the        *)
(* guardian's: the fields with their pencil, the teacher profile and its   *)
(* cards, the bar that saves both, the security and deletion cards, and    *)
(* the portal around them, which asks before unsaved changes are lost.     *)
(*                                                                         *)
(* A value is a number, and which ones the rules refuse is a constant.  A  *)
(* save goes on when its section is closed, so two may be under way.  A    *)
(* name ending in Mutant is a broken variant of the definition after it.   *)
(***************************************************************************)
EXTENDS Naturals, FiniteSets

CONSTANTS
    Typed,     \* [field -> what the person may type in it]
    Wrong,     \* the values the rules of a field refuse
    Card,      \* what the card of the teacher profile may hold, 0 is no card
    Finished,  \* the cards with nothing to fix
    MaxSaves   \* the bound on the saves under way

ProfileAssumption ==
    /\ Finished \subseteq Card /\ 0 \notin Card /\ MaxSaves \in Nat
    /\ \A f \in DOMAIN Typed : Typed[f] \ Wrong # {}  \* there is something right to type

VARIABLES
    portal,   \* the section on screen, what it knows of changes, its question
    fields,   \* useProfileForm
    teaching, \* the teacher profile while it is edited
    saves,    \* the runs of handleConfirm under way
    stored,   \* what identity-service has: the account and the profile
    cache,    \* what the query cache has of them
    danger,   \* the cards of the password and the deletion
    reads,    \* [part -> what its query under way read on the server, if there is one]
    unsure    \* history: whether an answer was lost or crossed another; no step reads it

vars == <<portal, fields, teaching, saves, stored, cache, danger, reads, unsure>>

Field == DOMAIN Typed
Section == {"inicio", "otra", "perfil", "out"}
Part == {"account", "profile"}
InitialAccount == [f \in Field |-> CHOOSE v \in Typed[f] : v \notin Wrong]
InitialProfile == 0

NotEditing == [open |-> FALSE, card |-> 0, editing |-> FALSE, confirmed |-> 0, touched |-> FALSE]
NoDanger == [which |-> "none", complete |-> FALSE, asking |-> FALSE]
Fresh(account) == [values |-> account, original |-> account, editing |-> "none", confirmed |-> FALSE]

Init ==
    /\ portal \in [who : {"teacher", "guardian"}, section : {"inicio"}, dirty : {FALSE},
                   ask : {"none"}, sure : {"none"}, closing : {"no"}, animated : BOOLEAN]
    /\ fields = Fresh(InitialAccount)
    /\ teaching = NotEditing
    /\ saves = {}
    /\ stored = [account |-> InitialAccount, profile |-> InitialProfile]
    /\ cache = stored
    /\ danger = NoDanger
    /\ reads = [part \in Part |-> {}] /\ unsure = FALSE

-----------------------------------------------------------------------------
(* What counts as a change.                                                *)

FieldsDirty(f) == f.values # f.original

\* Cards count as they were confirmed; what is half typed doesn't show the
\* bar, but it is lost all the same when the section is left.
confirmedProfileText(t) == IF t.editing THEN t.confirmed ELSE t.card
TeachingDirty(t, saved) == t.open /\ confirmedProfileText(t) # saved.profile
IsDirty(f, t, saved) == FieldsDirty(f) \/ TeachingDirty(t, saved)
Unsaved(f, t, saved) == IsDirty(f, t, saved) \/ t.touched

Mounted == portal.section = "perfil"
HasErrors(f) == \E x \in Field : f.values[x] \in Wrong

\* The effect that tells the portal, which only runs when the flag changes.
report(f, t, saved) ==
    [portal EXCEPT !.dirty = IF Unsaved(f, t, saved) = Unsaved(fields, teaching, cache) THEN @
                             ELSE Unsaved(f, t, saved)]

\* Nothing is behind a question but the question.
Free == portal.section # "out" /\ portal.ask = "none" /\ portal.sure = "none" /\ danger.which = "none"
AtHand == Mounted /\ Free

-----------------------------------------------------------------------------
(* The fields: a pencil opens one, a click outside, Tab or Enter keep what *)
(* was typed, Cancelar or Esc put the saved value back.                    *)

startEditing(f) ==
    /\ AtHand
    /\ fields' = [fields EXCEPT !.editing = f]
    /\ UNCHANGED <<portal, teaching, saves, stored, cache, danger>>
setField(f, v) ==
    /\ AtHand /\ fields.editing = f
    /\ fields' = [fields EXCEPT !.values[f] = v]
    /\ portal' = report(fields', teaching, cache)
    /\ UNCHANGED <<teaching, saves, stored, cache, danger>>
finishEditing ==
    /\ AtHand /\ fields.editing # "none"
    /\ fields' = [fields EXCEPT !.editing = "none"]
    /\ UNCHANGED <<portal, teaching, saves, stored, cache, danger>>
cancelEditing ==
    /\ AtHand /\ fields.editing # "none"
    /\ fields' = [fields EXCEPT !.editing = "none", !.values[fields.editing] = fields.original[fields.editing]]
    /\ portal' = report(fields', teaching, cache)
    /\ UNCHANGED <<teaching, saves, stored, cache, danger>>

-----------------------------------------------------------------------------
(* The teacher profile.                                                    *)

Busy == \E s \in saves : s.here
draftFromProfile(profile) ==
    [open |-> TRUE, card |-> profile, editing |-> FALSE, confirmed |-> profile, touched |-> FALSE]
openTeaching ==
    /\ AtHand /\ portal.who = "teacher" /\ ~teaching.open
    /\ teaching' = draftFromProfile(cache.profile)
    /\ UNCHANGED <<portal, fields, saves, stored, cache, danger>>

entryErrors(card) == card \notin Finished
\* A card is added open; typed in; closed with the check once nothing in it
\* is to fix; opened again with the pencil; or removed.
TeachingChange(new) ==
    /\ AtHand /\ teaching.open /\ ~(\E s \in saves : s.here /\ s.at = "profile")
    /\ teaching' = [new EXCEPT !.touched = TRUE, !.confirmed = IF new.editing THEN @ ELSE new.card]
    /\ portal' = report(fields, teaching', cache)
    /\ UNCHANGED <<fields, saves, stored, cache, danger>>
addEntry(c)   == teaching.card = 0 /\ TeachingChange([teaching EXCEPT !.card = c, !.editing = TRUE])
ExperienceCard(c) == teaching.editing /\ TeachingChange([teaching EXCEPT !.card = c])
confirm       == teaching.editing /\ ~entryErrors(teaching.card)
EntryHeader ==
    \/ confirm /\ TeachingChange([teaching EXCEPT !.editing = FALSE])
    \/ teaching.card # 0 /\ ~teaching.editing /\ TeachingChange([teaching EXCEPT !.editing = TRUE])
    \/ teaching.card # 0 /\ TeachingChange([teaching EXCEPT !.card = 0, !.editing = FALSE])

\* "Cancelar" of the editor, which asks if anything was typed.
closeTeaching ==
    /\ AtHand /\ teaching.open /\ ~(\E s \in saves : s.here /\ s.at = "profile")
    /\ teaching' = NotEditing
    /\ portal' = report(fields, teaching', cache)
    /\ UNCHANGED <<fields, saves, stored, cache, danger>>

-----------------------------------------------------------------------------
(* The bar.                                                                *)

SaveBar ==
    /\ AtHand /\ IsDirty(fields, teaching, cache)
    /\ fields' = [fields EXCEPT !.confirmed = ~@]
    /\ UNCHANGED <<portal, teaching, saves, stored, cache, danger>>

discardChanges ==
    /\ AtHand /\ IsDirty(fields, teaching, cache)
    /\ fields' = Fresh(fields.original)
    /\ teaching' = NotEditing
    /\ portal' = report(fields', teaching', cache)
    /\ UNCHANGED <<saves, stored, cache, danger>>

\* The profile is looked at first: nothing is saved while it has an open
\* card, or one with a mistake, unless it wouldn't be saved anyway.
teachingToSave == ~teaching.editing /\ (teaching.card = 0 \/ ~entryErrors(teaching.card))
SaveButton == AtHand /\ IsDirty(fields, teaching, cache) /\ fields.confirmed /\ ~Busy /\ Cardinality(saves) < MaxSaves

handleConfirm ==
    /\ portal.who = "teacher" /\ SaveButton
    /\ FieldsDirty(fields) => ~HasErrors(fields)
    /\ TeachingDirty(teaching, cache) => teachingToSave
    /\ saves' = saves \cup {[here |-> TRUE, at |-> IF FieldsDirty(fields) THEN "account" ELSE "profile",
                             values |-> fields.values, more |-> TeachingDirty(teaching, cache),
                             profile |-> teaching.card, done |-> FALSE]}
    /\ UNCHANGED <<portal, fields, teaching, stored, cache, danger>>
handleConfirmProfile ==
    /\ portal.who = "guardian" /\ SaveButton /\ ~HasErrors(fields)
    /\ saves' = saves \cup {[here |-> TRUE, at |-> "account", values |-> fields.values, more |-> FALSE,
                             profile |-> 0, done |-> FALSE]}
    /\ UNCHANGED <<portal, fields, teaching, stored, cache, danger>>

\* identity-service stores the part that was sent; its answer comes later.
ServerStores(s) ==
    /\ ~s.done
    /\ saves' = (saves \ {s}) \cup {[s EXCEPT !.done = TRUE]}
    /\ stored' = IF s.at = "account" THEN [stored EXCEPT !.account = s.values]
                 ELSE [stored EXCEPT !.profile = s.profile]
    /\ UNCHANGED <<portal, fields, teaching, cache, danger, unsure>>

\* An answer crosses another one about the same part, or comes to a section
\* that was left, with the form of a new one on screen.
Crosses(s) ==
    \/ reads[s.at] # {} \/ \E other \in saves \ {s} : other.done /\ other.at = s.at
    \/ s.at = "account" /\ Mounted /\ ~s.here

\* The account is stored.  What was typed meanwhile gives way to it, and the
\* teacher profile, when there is one to save, goes next.
markSaved(saved) == Fresh(saved)
AccountSavedMutant(s) ==
    /\ s.at = "account" /\ s.done
    /\ cache' = [cache EXCEPT !.account = s.values]
    /\ saves' = (saves \ {s}) \cup (IF s.more THEN {[s EXCEPT !.at = "profile", !.done = FALSE]} ELSE {})
    /\ fields' = IF s.here /\ ~s.more THEN markSaved(s.values) ELSE fields
    /\ portal' = IF s.here THEN report(fields', teaching, cache') ELSE portal
    /\ unsure' = (unsure \/ Crosses(s))
    /\ UNCHANGED <<teaching, stored, danger>>
AccountSaved(s) ==
    /\ s.at = "account" /\ s.done
    /\ cache' = [cache EXCEPT !.account = s.values]
    /\ saves' = (saves \ {s}) \cup (IF s.more THEN {[s EXCEPT !.at = "profile", !.done = FALSE]} ELSE {})
    /\ fields' = IF s.here THEN markSaved(s.values) ELSE fields
    /\ portal' = IF s.here THEN report(fields', teaching, cache') ELSE portal
    /\ unsure' = (unsure \/ Crosses(s))
    /\ UNCHANGED <<teaching, stored, danger>>
ProfileSaved(s) ==
    /\ s.at = "profile" /\ s.done
    /\ cache' = [cache EXCEPT !.profile = s.profile]
    /\ saves' = saves \ {s}
    /\ fields' = IF s.here THEN [fields EXCEPT !.confirmed = FALSE] ELSE fields
    /\ teaching' = IF s.here THEN NotEditing ELSE teaching
    /\ portal' = IF Mounted THEN report(fields', teaching', cache') ELSE portal
    /\ unsure' = (unsure \/ Crosses(s))
    /\ UNCHANGED <<stored, danger>>

\* A save that fails, before or after the server stored it, ends there: what
\* was typed stays, and so does the part that was saved.
SaveFails(s) ==
    /\ saves' = saves \ {s}
    /\ unsure' = (unsure \/ s.done)
    /\ UNCHANGED <<portal, fields, teaching, stored, cache, danger>>

\* The queries of the section ask again when it is opened and they are old,
\* or the connection is back.  They answer later, or fail.
Refetch(part) ==
    /\ Mounted /\ reads[part] = {} /\ (part = "profile" => portal.who = "teacher")
    /\ reads' = [reads EXCEPT ![part] = {stored[part]}]
    /\ UNCHANGED <<portal, fields, teaching, saves, stored, cache, danger, unsure>>
Refetched(part, had) ==
    /\ reads' = [reads EXCEPT ![part] = {}]
    /\ cache' \in {cache, [cache EXCEPT ![part] = had]}
    /\ portal' = IF Mounted THEN report(fields, teaching, cache') ELSE portal
    /\ UNCHANGED <<fields, teaching, saves, stored, danger, unsure>>

-----------------------------------------------------------------------------
(* The portal around it.                                                   *)

\* The section is unmounted, and with it what was typed.  A save goes on.
Leave(section) ==
    /\ portal' = [portal EXCEPT !.section = section, !.dirty = FALSE, !.ask = "none", !.sure = "none",
                               !.closing = "no"]
    /\ fields' = Fresh(cache.account)
    /\ teaching' = NotEditing
    /\ saves' = {[s EXCEPT !.here = FALSE] : s \in saves}
    /\ danger' = NoDanger
    /\ UNCHANGED <<stored, cache>>
Asks(question) ==
    /\ portal' = question
    /\ UNCHANGED <<fields, teaching, saves, stored, cache, danger>>

\* A dialog that stays on screen after it closed is never new again.
Closed(dialog) == IF portal.animated /\ dialog \in {"back", "logout"} THEN "done" ELSE "no"

\* What each way out does, once there is nothing to lose or it was accepted:
\* another section, or a second question.
Way(shell, dialog) ==
    CASE dialog = "section" -> Leave("otra")
      [] dialog = "account" -> Leave("perfil")
      [] OTHER -> Asks([shell EXCEPT !.ask = "none", !.sure = dialog])

select ==
    /\ portal.who = "teacher" /\ Free
    /\ \E dialog \in {"section", "account"} :
        /\ dialog = "account" => ~Mounted
        /\ IF portal.dirty THEN Asks([portal EXCEPT !.ask = dialog]) ELSE Way(portal, dialog)
\* The guardian's portal starts a section over when it is selected again.
selectSection ==
    /\ portal.who = "guardian" /\ Free
    /\ \E dialog \in {"section", "account"} :
        IF portal.dirty THEN Asks([portal EXCEPT !.ask = dialog]) ELSE Way(portal, dialog)
requestBack ==
    /\ portal.who = "guardian" /\ Free
    /\ IF portal.dirty THEN Asks([portal EXCEPT !.ask = "back"]) ELSE Way(portal, "back")
requestLogout ==
    /\ Free
    /\ IF portal.dirty THEN Asks([portal EXCEPT !.ask = "logout"]) ELSE Way(portal, "logout")

\* What the buttons of the question do: of the first one, "Continuar sin
\* guardar", which may bring the second one, and of the second, leaving.
Accepted == IF portal.ask # "none" THEN Way([portal EXCEPT !.dirty = FALSE, !.closing = Closed(portal.ask)], portal.ask)
            ELSE Leave("out")
Cancelled == Asks([portal EXCEPT !.ask = "none", !.sure = "none", !.closing = "no"])

\* A question closes once: at once, or after its animation.  The one that
\* comes next is drawn by the same dialog, which was closed already.
ConfirmDialog ==
    /\ (portal.ask # "none" \/ portal.sure # "none") /\ portal.closing = "no"
    /\ IF portal.animated
       THEN \E answer \in {"accept", "cancel"} : Asks([portal EXCEPT !.closing = answer])
       ELSE Accepted \/ Cancelled
closeThen ==
    \/ portal.closing = "accept" /\ Accepted
    \/ portal.closing = "cancel" /\ Cancelled

-----------------------------------------------------------------------------
(* The cards that end the session: the password, every session, and the    *)
(* deletion.  The first and the last are a form, and then the 2FA code.    *)

DangerOnly(new) == danger' = new /\ UNCHANGED <<portal, fields, teaching, saves, stored, cache>>
OpenDanger == AtHand /\ \E w \in {"password", "all", "erase"} : DangerOnly([NoDanger EXCEPT !.which = w])
FillDanger == danger.which \in {"password", "erase"} /\ ~danger.asking /\ DangerOnly([danger EXCEPT !.complete = ~@])
CancelDanger ==
    /\ danger.which # "none"
    /\ DangerOnly(IF danger.asking THEN [danger EXCEPT !.asking = FALSE] ELSE NoDanger)
handleSubmit == danger.which = "password" /\ danger.complete /\ DangerOnly([danger EXCEPT !.asking = TRUE])
submit == danger.which = "erase" /\ danger.complete /\ DangerOnly([danger EXCEPT !.asking = TRUE])
\* A wrong password goes back to its field, which is emptied.
showFormError == danger.asking /\ DangerOnly([danger EXCEPT !.asking = FALSE, !.complete = FALSE])
changeWithCode == danger.which = "password" /\ danger.asking /\ Leave("out")
deleteWithCode == danger.which = "erase" /\ danger.asking /\ Leave("out")
closeEverywhere == danger.which = "all" /\ Leave("out")

-----------------------------------------------------------------------------
\* What the person does.
PersonStep ==
    \/ \E f \in Field : startEditing(f)
    \/ \E f \in Field : \E v \in Typed[f] : setField(f, v)
    \/ finishEditing \/ cancelEditing
    \/ openTeaching \/ closeTeaching \/ EntryHeader
    \/ \E c \in Card : addEntry(c) \/ ExperienceCard(c)
    \/ SaveBar \/ discardChanges \/ handleConfirm \/ handleConfirmProfile
    \/ select \/ selectSection \/ requestBack \/ requestLogout \/ ConfirmDialog \/ closeThen
    \/ OpenDanger \/ FillDanger \/ CancelDanger \/ handleSubmit \/ submit
    \/ showFormError \/ changeWithCode \/ deleteWithCode \/ closeEverywhere

SaveStep(s) == ServerStores(s) \/ AccountSaved(s) \/ ProfileSaved(s) \/ SaveFails(s)

Next ==
    \/ PersonStep /\ UNCHANGED <<reads, unsure>>
    \/ \E s \in saves : SaveStep(s) /\ UNCHANGED reads
    \/ \E part \in Part : Refetch(part) \/ \E had \in reads[part] : Refetched(part, had)

Spec == Init /\ [][Next]_vars
-----------------------------------------------------------------------------
(***************************************************************************)
(* What is shown as saved is what the server has, also when only one of    *)
(* the two requests of a save succeeds (TeacherProfileSection.tsx:263):    *)
(* once no save is under way, the query cache and the saved values of the  *)
(* form are those of identity-service, unless an answer was lost, crossed  *)
(* another one, or came to a section that was left and opened again.       *)
(***************************************************************************)
ShownAsSaved == (saves = {} /\ ~unsure) =>
    /\ cache = stored
    /\ Mounted => fields.original = stored.account

(***************************************************************************)
(* Leaving Mi perfil with unsaved changes, by any way, asks first: once no *)
(* question is open, the portal knows of the changes on screen             *)
(* (TeacherPortalPage.tsx:69).  The code does not hold it: the portal is   *)
(* only told when the flag changes, and a question clears it on its own.   *)
(***************************************************************************)
LeavingAsksFirst == (AtHand /\ Unsaved(fields, teaching, cache)) => portal.dirty

(***************************************************************************)
(* A question on screen can be answered, by its buttons or by Escape, and  *)
(* the page behind it, which is inert, comes back (useModalDialog.ts:38).  *)
(* The code does not hold it: the second of two questions in a row.        *)
(***************************************************************************)
QuestionsAreAnswered == (portal.ask # "none" \/ portal.sure # "none") => portal.closing # "done"
=============================================================================
