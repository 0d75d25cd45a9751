-------------------------- MODULE MC_PortalScreens --------------------------
(***************************************************************************)
(* A small instance of PortalScreens.  A behaviour follows one of the      *)
(* screens (part), with the others still at their start: their properties  *)
(* are checked side by side in one run.                                    *)
(***************************************************************************)
EXTENDS PortalScreens, TLC

VARIABLE part

\* Two things on the first screen, and the question over them.
Home  == [area |-> ("bar" :> {1}) @@ ("card" :> {2, 3}) @@ ("yes" :> {}), under |-> {}]
Question == [area |-> ("bar" :> {1}) @@ ("card" :> {2, 3}) @@ ("yes" :> {3}), under |-> {"bar", "card"}]
TwoScreens == {Home, Question}

\* The kid reads one notification to a screen; the older one is in two parts.
TwoParts == (1 :> 2) @@ (2 :> 1)

\* The guardian's account, with one email that is taken.
GuardianTyped == [f \in WizardField |->
    CASE f = "name" -> {1} [] f = "kid" -> {0, 1} [] f = "email" -> {1, 2} [] OTHER -> {0, 1, 2}]
Numbers == <<{1}, {1, 2}>>

NameTyped == "name" :> {0, 1, 2}
TwoDba == ("dba1" :> {"e1"}) @@ ("dba2" :> {"e2"})
OneReceived == "received" :> {1}
Letters == (1 :> "message") @@ (2 :> "message") @@ (3 :> "request")

\* A wide picture and a tall one, in a frame of two.
Pictures == ("wide" :> [width |-> 2, height |-> 1]) @@ ("tall" :> [width |-> 1, height |-> 2])

wizardVars == <<who, page, form, status, checking, answers, consent, pin, card, account, totp>>
profileVars == <<portal, fields, teaching, saves, stored, profileCache, danger, reads, unsure>>
unitsVars == <<unitServer, unitCache, reorder, unitWindow, saving, made, animated>>
trayVars == <<trays, trayCache, last, at, opened, toDelete, confirmingMany, picked, pendingEdge, requests, unmoved>>
inboxVars == <<letter, reply, compose, members, joining, known, asking, resolving, wire, texts, writtenAt, delivered, lost>>
logoVars == <<mode, file, image, loading, view, gesture, timer, encoding, crop, logo, touches, passed, outdated>>
classesVars == <<classServer, enrolled, list, detail, openId, option, classWindow, busyKids, ops, asked, lostAnswers>>
kidVars == <<kidTray, unread, kidCache, listed, lastListed, notification, kidPage, confirming, kidRequests, deletions, hasty, elsewhere>>
erasureVars == <<leaver, accountRow, kidRows, rowsLeft, rowsWritten, erasures, lateCalls, took>>
portalVars == <<part, vars, wizardVars, profileVars, unitsVars, trayVars, inboxVars, logoVars, classesVars, kidVars, erasureVars>>

\* The teacher's windows close with an animation, the guardian's at once.
PortalInit ==
    /\ part \in {"dwell", "kid", "wizard", "profile", "units", "tray", "inbox", "logo", "classes", "erasure"}
    /\ Init /\ (part # "dwell" => screen = Home)
    /\ KidNotifications!Init
    /\ Wizard!Init /\ (part # "wizard" => who = "guardian")
    /\ MyProfile!Init /\ portal.animated = (portal.who = "teacher") /\ (part # "profile" => portal.animated)
    /\ ClassUnits!Init /\ animated = (unitServer.order["units"] # <<>>) /\ (part # "units" => animated)
    /\ Notifications!Init /\ (part # "tray" => opened = 0)
    /\ Inbox!Init
    /\ Picture!Init /\ (part # "logo" => mode = "initials")
    /\ MyClasses!Init /\ (part # "classes" => openId = 1 /\ enrolled["kid"] = "in")
    /\ Deletion!Init /\ (part # "erasure" => leaver = "guardian")

\* The bounds of the profile: it is followed until an answer was lost or crossed
\* another one, after which its property says nothing, and nothing is on top of
\* the section while one of its queries is under way.
ReadsOnFreeScreen == (\E p \in MyProfile!Part : reads[p] # {}) => MyProfile!Free

PortalNext ==
    \/ /\ part = "dwell" /\ Next
       /\ UNCHANGED <<part, wizardVars, profileVars, unitsVars, trayVars, inboxVars, logoVars, classesVars, kidVars, erasureVars>>
    \/ /\ part = "kid" /\ KidNotifications!Next
       /\ UNCHANGED <<part, vars, wizardVars, profileVars, unitsVars, trayVars, inboxVars, logoVars, classesVars, erasureVars>>
    \/ /\ part = "wizard" /\ Wizard!Next
       /\ UNCHANGED <<part, vars, profileVars, unitsVars, trayVars, inboxVars, logoVars, classesVars, kidVars, erasureVars>>
    \/ /\ part = "profile" /\ ~unsure /\ MyProfile!Next /\ ReadsOnFreeScreen'
       /\ UNCHANGED <<part, vars, wizardVars, unitsVars, trayVars, inboxVars, logoVars, classesVars, kidVars, erasureVars>>
    \/ /\ part = "units" /\ ClassUnits!Next
       /\ UNCHANGED <<part, vars, wizardVars, profileVars, trayVars, inboxVars, logoVars, classesVars, kidVars, erasureVars>>
    \/ /\ part = "tray" /\ Notifications!Next
       /\ UNCHANGED <<part, vars, wizardVars, profileVars, unitsVars, inboxVars, logoVars, classesVars, kidVars, erasureVars>>
    \/ /\ part = "inbox" /\ Inbox!Next
       /\ UNCHANGED <<part, vars, wizardVars, profileVars, unitsVars, trayVars, logoVars, classesVars, kidVars, erasureVars>>
    \/ /\ part = "logo" /\ Picture!Next
       /\ UNCHANGED <<part, vars, wizardVars, profileVars, unitsVars, trayVars, inboxVars, classesVars, kidVars, erasureVars>>
    \/ /\ part = "classes" /\ MyClasses!Next
       /\ UNCHANGED <<part, vars, wizardVars, profileVars, unitsVars, trayVars, inboxVars, logoVars, kidVars, erasureVars>>
    \/ /\ part = "erasure" /\ Deletion!Next
       /\ UNCHANGED <<part, vars, wizardVars, profileVars, unitsVars, trayVars, inboxVars, logoVars, classesVars, kidVars>>

PortalSpec == PortalInit /\ [][PortalNext]_portalVars
=============================================================================
