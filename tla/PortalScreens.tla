--------------------------- MODULE PortalScreens ---------------------------
(***************************************************************************)
(* The screens of the portals beside choosing with the gaze, which is      *)
(* everywhere for the kids (Dwell, extended): the tray of the kid and the  *)
(* adults', the messages, the classes with their picture and their units,  *)
(* the registration and the profile, with what deleting the account sets   *)
(* off in the services.  They share no state: each is an instance with     *)
(* variables and sizes of its own.                                         *)
(***************************************************************************)
EXTENDS Dwell

CONSTANTS
    kidTrayAtFirst, partsOf, KID_PER_SCREEN, MaxDeletions, MaxElsewhere,
    WizardField, WizardTyped, Registered, Adult, DocumentNumbers, Strong, Cards, Pin,
    ProfileTyped, Wrong, Card, Finished, MaxProfileSaves,
    Unit, Lesson, catalog, MaxNew,
    trayAtFirst, PAGE_SIZE, MaxNumber, MaxRequests,
    kindOf, Member, MaxTexts, MaxLosses,
    size, Broken, FRAME, MAX_ZOOM, STEP, MaxMaking, MaxTouches,
    Class, Kid, MaxClassSaves, MaxClassLosses,
    Child, DeletionForm, MaxRows, MaxLate

VARIABLES
    who, page, form, status, checking, answers, consent, pin, card, account, totp,
    portal, fields, teaching, saves, stored, profileCache, danger, reads, unsure,
    unitServer, unitCache, reorder, unitWindow, saving, made, animated,
    trays, trayCache, last, at, opened, toDelete, confirmingMany, picked, pendingEdge, requests, unmoved,
    letter, reply, compose, members, joining, known, asking, resolving, wire, texts, writtenAt, delivered, lost,
    mode, file, image, loading, view, gesture, timer, encoding, crop, logo, touches, passed, outdated,
    classServer, enrolled, list, detail, openId, option, classWindow, busyKids, ops, asked, lostAnswers,
    leaver, accountRow, kidRows, rowsLeft, rowsWritten, erasures, lateCalls, took,
    kidTray, unread, kidCache, listed, lastListed, notification, kidPage, confirming, kidRequests, deletions, hasty, elsewhere

KidNotifications == INSTANCE KidTray WITH
    server <- kidTray, cache <- kidCache, screen <- listed, last <- lastListed, open <- notification,
    page <- kidPage, requests <- kidRequests, initialTray <- kidTrayAtFirst, PER_SCREEN <- KID_PER_SCREEN

Wizard == INSTANCE Registration WITH
    Field <- WizardField, Typed <- WizardTyped, Accepted <- DocumentNumbers

MyProfile == INSTANCE Profile WITH
    cache <- profileCache, Typed <- ProfileTyped, MaxSaves <- MaxProfileSaves

ClassUnits == INSTANCE Units WITH server <- unitServer, cache <- unitCache, window <- unitWindow

Notifications == INSTANCE Tray WITH server <- trays, cache <- trayCache, initialTray <- trayAtFirst

Inbox == INSTANCE Messages WITH opened <- letter, requests <- joining

Picture == INSTANCE ClassLogo

MyClasses == INSTANCE Classrooms WITH
    server <- classServer, view <- option, window <- classWindow, busy <- busyKids, lost <- lostAnswers,
    MaxSaves <- MaxClassSaves, MaxLosses <- MaxClassLosses

Deletion == INSTANCE AccountErasure WITH
    role <- leaver, account <- accountRow, kid <- kidRows, rows <- rowsLeft, written <- rowsWritten,
    asked <- erasures, late <- lateCalls, Kid <- Child, Form <- DeletionForm

ASSUME PortalAssumption ==
    /\ KidNotifications!KidTrayAssumption /\ Wizard!RegistrationAssumption /\ MyProfile!ProfileAssumption
    /\ ClassUnits!UnitsAssumption /\ Notifications!TrayAssumption /\ Inbox!MessagesAssumption
    /\ Picture!LogoAssumption /\ MyClasses!ClassroomsAssumption
    /\ Deletion!ErasureAssumption

-----------------------------------------------------------------------------
(* Their properties, stated in each of them.                               *)

DeletionLandsSomewhere == KidNotifications!DeletionLandsSomewhere
CrossesTellTruth == Wizard!CrossesTellTruth
ShownAsSaved == MyProfile!ShownAsSaved
EvidencesOfTheDba == ClassUnits!EvidencesOfTheDba
DeletionLeavesAPage == Notifications!DeletionLeavesAPage
ArrivesOnce == Inbox!ArrivesOnce
LogoIsWhatIsShown == Picture!FrameIsCovered /\ Picture!CropIsWhatIsShown
OwnChangesShow == MyClasses!OwnChangesShow
NothingOlderIsLeft == Deletion!NothingOlderIsLeft
=============================================================================
