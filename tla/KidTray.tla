------------------------------- MODULE KidTray -------------------------------
(***************************************************************************)
(* The kid's tray of notifications: big cards, a screen at a time from the *)
(* server; one read whole, in parts with the arrows if it is long; and its *)
(* deletion, asked first in a window. The gaze goes through the windows:   *)
(* what is under one is chosen all the same (module Dwell).                *)
(*                                                                         *)
(* A notification is its number, newer ones have greater numbers.          *)
(***************************************************************************)
EXTENDS Naturals, FiniteSets

CONSTANTS
    initialTray,  \* the notifications there are at first
    partsOf,      \* [notification -> the parts of its message]
    PER_SCREEN,
    MaxDeletions, \* the bound on the deletions asked for
    MaxElsewhere  \* the bound on the ones deleted from another device

Number == DOMAIN partsOf

KidTrayAssumption ==
    /\ PER_SCREEN \in Nat \ {0} /\ MaxDeletions \in Nat /\ MaxElsewhere \in Nat
    /\ Number \subseteq Nat \ {0} /\ IsFiniteSet(Number) /\ initialTray \subseteq Number
    /\ \A n \in Number : partsOf[n] \in Nat \ {0}

VARIABLES
    server,     \* the notifications in notification-service
    unread,     \* the ones of them still unread
    cache,      \* the screens read so far
    screen,     \* the screen of the list, from 0
    last,       \* the last one listed that had been read: it stays meanwhile
    open,       \* the notification read whole, or 0
    page,       \* and the part of it
    confirming, \* whether the window of the deletion is there
    requests,   \* the deletions and the marks on their way
    deletions,  \* how many were asked for
    hasty,      \* whether one was asked for from an old list, or left behind under its window
    elsewhere   \* how many were deleted from another device

vars == <<server, unread, cache, screen, last, open, page, confirming, requests, deletions, hasty, elsewhere>>
tray == <<server, unread>>
list == <<cache, screen, last>>
reader == <<open, page, confirming>>
counts == <<deletions, hasty, elsewhere>>

ListPage == 0..(Cardinality(Number) - 1) \div PER_SCREEN
NoScreen == [items |-> {}, new |-> {}, total |-> 0, read |-> FALSE]
Newer(n) == {m \in server : m > n}
Fetched(s) ==
    LET here == {n \in server : Cardinality(Newer(n)) \div PER_SCREEN = s}
    IN  [items |-> here, new |-> here \cap unread, total |-> Cardinality(server), read |-> TRUE]
shown == IF cache[screen].read THEN cache[screen] ELSE cache[last]
screens == IF shown.total = 0 THEN 1 ELSE (shown.total + PER_SCREEN - 1) \div PER_SCREEN

Init ==
    /\ server = initialTray /\ unread = initialTray
    /\ cache = [s \in ListPage |-> NoScreen]
    /\ screen = 0 /\ last = 0
    /\ open = 0 /\ page = 0 /\ confirming = FALSE
    /\ requests = {} /\ deletions = 0 /\ hasty = FALSE /\ elsewhere = 0

-----------------------------------------------------------------------------
(* The list.                                                               *)

OnScreen(s, c) == screen' = s /\ cache' = c /\ last' = IF c[s].read THEN s ELSE last
useKidClassNotifications ==
    /\ OnScreen(screen, [cache EXCEPT ![screen] = Fetched(screen)])
    /\ UNCHANGED <<tray, reader, requests, counts>>
\* With nothing to show there are no arrows, only the way back.
AtTheList == open = 0 /\ shown.read /\ shown.items # {}
onScreen(s) ==
    /\ AtTheList /\ screens > 1
    /\ \/ s = screen + 1 /\ screen # screens - 1
       \/ s + 1 = screen
    /\ OnScreen(s, cache)
    /\ UNCHANGED <<tray, reader, requests, counts>>
\* The answer goes on with the screen, and how many it had, of this moment.
Asked(kind, n) == [kind |-> kind, id |-> n, by |-> "list", screen |-> screen,
                   items |-> Cardinality(shown.items), done |-> FALSE]
Mark(n) == [Asked("mark", n) EXCEPT !.screen = 0, !.items = 0]
\* Opening an unread one asks to mark it.
read(n) ==
    /\ AtTheList /\ n \in shown.items
    /\ open' = n /\ page' = 0 /\ confirming' = FALSE
    /\ requests' = IF n \in shown.new THEN requests \cup {Mark(n)} ELSE requests
    /\ UNCHANGED <<tray, list, counts>>

-----------------------------------------------------------------------------
(* The reader. Only the window waits for the deletion.                     *)

setPage(p) ==
    /\ open # 0 /\ p \in 0..partsOf[open] - 1 /\ (p = page + 1 \/ page = p + 1)
    /\ page' = p
    /\ UNCHANGED <<tray, list, open, confirming, requests, counts>>
\* The reader that asked is not there any more.
Left == {IF r.by = "reader" THEN [r EXCEPT !.by = "gone"] ELSE r : r \in requests}
onBack ==
    /\ open # 0
    /\ open' = 0 /\ page' = 0 /\ confirming' = FALSE
    /\ requests' = Left
    /\ hasty' = (hasty \/ Left # requests)
    /\ UNCHANGED <<tray, list, deletions, elsewhere>>
setConfirming(on) ==
    /\ open # 0 /\ on # confirming
    /\ on \/ \A r \in requests : r.by # "reader"
    /\ confirming' = on
    /\ UNCHANGED <<tray, list, open, page, requests, counts>>
Deletions == {r \in requests : r.kind = "delete"}
confirmDelete ==
    /\ confirming /\ \A r \in requests : r.by # "reader"
    /\ deletions < MaxDeletions
    /\ deletions' = deletions + 1
    /\ hasty' = (hasty \/ shown.items # Fetched(screen).items \/ open \notin shown.items)
    /\ requests' = requests \cup
         {[Asked("delete", open) EXCEPT !.by = "reader"]}
    /\ UNCHANGED <<tray, list, reader, elsewhere>>

-----------------------------------------------------------------------------
(* The answers.                                                            *)

ServerMarks(r) ==
    /\ r.kind = "mark"
    /\ requests' = requests \ {r}
    /\ unread' = unread \ {r.id}
    /\ UNCHANGED <<server, list, reader, counts>>
ServerDeletes(r) ==
    /\ r.kind = "delete" /\ ~r.done
    /\ server' = server \ {r.id} /\ unread' = unread \ {r.id}
    /\ requests' = (requests \ {r}) \cup {[r EXCEPT !.done = TRUE]}
    /\ UNCHANGED <<list, reader, counts>>
\* What is on screen is read again before the rest goes on.
BackFromMutant(r) == screen
BackFrom(r) == IF r.items <= 1 /\ r.screen > 0 THEN r.screen - 1 ELSE screen
onDeleted(r) ==
    /\ r.kind = "delete" /\ r.done
    /\ requests' = Left \ {r, [r EXCEPT !.by = "gone"]}
    /\ open' = 0 /\ page' = 0 /\ confirming' = FALSE
    /\ OnScreen(BackFrom(r), [cache EXCEPT ![screen] = Fetched(screen)])
    /\ UNCHANGED <<tray, counts>>
setFailed(r) ==
    /\ ~r.done
    /\ requests' = requests \ {r}
    /\ confirming' = (confirming /\ r.by # "reader")
    /\ UNCHANGED <<tray, list, open, page, counts>>

Arrives(n) ==
    /\ n \notin initialTray /\ \A m \in server : m < n
    /\ server' = server \cup {n} /\ unread' = unread \cup {n}
    /\ UNCHANGED <<list, reader, requests, counts>>
GoesElsewhere(n) ==
    /\ n \in server /\ elsewhere < MaxElsewhere
    /\ elsewhere' = elsewhere + 1
    /\ server' = server \ {n} /\ unread' = unread \ {n}
    /\ UNCHANGED <<list, reader, requests, deletions, hasty>>

Next ==
    \/ useKidClassNotifications
    \/ onBack
    \/ confirmDelete
    \/ \E s \in ListPage : onScreen(s)
    \/ \E n \in Number : read(n)
    \/ \E n \in Number : \E p \in 0..partsOf[n] - 1 : setPage(p)
    \/ \E on \in BOOLEAN : setConfirming(on)
    \/ \E r \in requests : ServerMarks(r)
    \/ \E r \in requests : ServerDeletes(r)
    \/ \E r \in requests : onDeleted(r)
    \/ \E r \in requests : setFailed(r)
    \/ \E n \in Number : Arrives(n)
    \/ \E n \in Number : GoesElsewhere(n)

Spec == Init /\ [][Next]_vars

-----------------------------------------------------------------------------
(* Properties.                                                             *)

SomethingToRead == server = {} \/ Fetched(screen).items # {}

\* "The last one of a screen: back to the one before it": a deletion leaves the
\* kid on a screen with something in it, or the tray is empty; whatever arrives
\* meanwhile. The exceptions are the ones deleted from another device, and what
\* is deleted from a list that was out of date, or left behind with the gaze
\* under its window (KidTray's onDeleted).
DeletionLandsSomewhere ==
    [][\A r \in Deletions \ requests' : (r.done /\ ~hasty' /\ elsewhere = 0) => SomethingToRead']_vars
\* "No tienes notificaciones por ahora" is said when there are none. The code
\* does not hold it: an arrow reaches a screen that is not there any more, and
\* from it there are no arrows back.
EmptyMeansEmpty ==
    (open = 0 /\ requests = {} /\ cache[screen].read /\ shown.items = {}) => shown.total = 0
=============================================================================
