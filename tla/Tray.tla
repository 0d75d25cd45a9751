-------------------------------- MODULE Tray --------------------------------
(***************************************************************************)
(* The tray of notifications of the guardian and teacher portals: its two  *)
(* boxes, a page at a time from the query cache, with the page before on   *)
(* screen while the next one comes; the notification opened, with arrows   *)
(* to the one before and after; the boxes ticked, and the deletions.       *)
(*                                                                         *)
(* A notification is its number, newer ones have greater numbers: a page   *)
(* is then a set, and its first one is its greatest.                       *)
(***************************************************************************)
EXTENDS Naturals, FiniteSets, FiniteSetsExt

CONSTANTS
    initialTray,  \* [box -> the notifications in it at first]
    PAGE_SIZE,
    MaxNumber,    \* the bound on the numbers of the notifications
    MaxRequests   \* the bound on the deletions on their way at once

Box == DOMAIN initialTray
Number == 1..MaxNumber

TrayAssumption ==
    /\ PAGE_SIZE \in Nat \ {0} /\ MaxNumber \in Nat /\ MaxRequests \in Nat
    /\ "received" \in Box /\ \A b \in Box : initialTray[b] \subseteq Number

VARIABLES
    server,         \* the notifications of each box in notification-service
    cache,          \* the pages read so far
    last,           \* the last page listed that had been read: it stays meanwhile
    at,             \* the box and the page listed
    opened,         \* the notification opened, or 0
    toDelete,       \* the one of the question, or 0
    confirmingMany, \* the question about the ticked ones
    picked,         \* the ticked ones, on this page or not
    pendingEdge,    \* which end of the page to come will be opened
    requests,       \* the deletions on their way
    unmoved          \* history: the deletion on its way is the only one, was accepted on a page
                    \* that was up to date, and the person stayed on it; no step reads it

trayVars == <<server, cache, last, at, opened, toDelete, confirmingMany, picked, pendingEdge, requests>>
vars == <<trayVars, unmoved>>
data == <<server, cache, last>>
question == <<toDelete, confirmingMany>>

LastPage == (MaxNumber + PAGE_SIZE - 1) \div PAGE_SIZE
Key == Box \X (1..LastPage)
NoPage == [items |-> {}, total |-> 0, read |-> FALSE]
\* GET /notifications/me: the newest first.
Fetched(k) ==
    LET here == {n \in server[k[1]] : Cardinality({m \in server[k[1]] : m > n}) \div PAGE_SIZE = k[2] - 1}
    IN  [items |-> here, total |-> Cardinality(server[k[1]]), read |-> TRUE]

isPlaceholderData == ~cache[at].read
tray == IF isPlaceholderData THEN cache[last] ELSE cache[at]
items == tray.items
box == at[1]
page == at[2]
totalPages == Max({1, (tray.total + PAGE_SIZE - 1) \div PAGE_SIZE})
selected == items \cap picked
allSelected == items # {} /\ selected = items

Init ==
    /\ server = initialTray
    /\ cache = [k \in Key |-> NoPage]
    /\ at = <<"received", 1>> /\ last = at
    /\ opened \in {0} \cup initialTray["received"]  \* initialNotification
    /\ toDelete = 0 /\ confirmingMany = FALSE
    /\ picked = {} /\ pendingEdge = "no" /\ requests = {} /\ unmoved = FALSE

-----------------------------------------------------------------------------
(* What is read, and what is opened.                                       *)

\* The page listed is the one that stays on screen from now on, once it is read.
Listed(k, c) == at' = k /\ cache' = c /\ last' = IF c[k].read THEN k ELSE last

\* Read at first, every minute, and again after every change.
useNotificationTray ==
    /\ Listed(at, [cache EXCEPT ![at] = Fetched(at)])
    /\ UNCHANGED <<server, opened, question, picked, pendingEdge, requests>>

\* That what is opened is marked as read, once, is left out: nothing else looks at it.
open(n) == opened' = n
\* Once the page asked for is here, its first one or its last one is opened.
EdgeIsHere == pendingEdge # "no" /\ ~isPlaceholderData /\ items # {}
openEdge ==
    /\ EdgeIsHere
    /\ pendingEdge' = "no"
    /\ open(IF pendingEdge = "first" THEN Max(items) ELSE Min(items))
    /\ UNCHANGED <<data, at, question, picked, requests>>

-----------------------------------------------------------------------------
(* What the person does, with no question on top.                          *)

AtHand == ~EdgeIsHere /\ toDelete = 0 /\ ~confirmingMany
AtTheList == AtHand /\ opened = 0 /\ tray.read
AtTheLetter == AtHand /\ opened # 0

NotificationRow(n) ==
    /\ AtTheList /\ n \in items
    /\ open(n)
    /\ UNCHANGED <<data, at, question, picked, pendingEdge, requests>>
onBack ==
    /\ AtTheLetter
    /\ opened' = 0
    /\ UNCHANGED <<data, at, question, picked, pendingEdge, requests>>

\* The arrows are there while the one opened is in the page on screen.
Place == Cardinality({n \in items : n > opened})
onPrev == Place > 0 \/ page > 1
onNext == Place < Cardinality(items) - 1 \/ page < totalPages
step(direction) ==
    LET beyond == {n \in items : IF direction = "next" THEN n < opened ELSE n > opened}
    IN  /\ AtTheLetter /\ opened \in items
        /\ IF direction = "next" THEN onNext ELSE onPrev
        /\ IF beyond # {}
           THEN /\ open(IF direction = "next" THEN Max(beyond) ELSE Min(beyond))
                /\ UNCHANGED <<data, at, picked, pendingEdge>>
           ELSE /\ pendingEdge' = IF direction = "next" THEN "first" ELSE "last"
                /\ picked' = {}
                /\ Listed(<<box, IF direction = "next" THEN page + 1 ELSE page - 1>>, cache)
                /\ UNCHANGED <<server, opened>>
        /\ UNCHANGED <<question, requests>>

changePage(p) ==
    /\ AtTheList /\ p \in 1..Max({page, totalPages}) \ {page}
    /\ picked' = {}
    /\ Listed(<<box, p>>, cache)
    /\ UNCHANGED <<server, opened, question, pendingEdge, requests>>
changeBox(b) ==
    /\ AtTheList /\ b # box
    /\ picked' = {} /\ pendingEdge' = "no"
    /\ Listed(<<b, 1>>, cache)
    /\ UNCHANGED <<server, opened, question, requests>>

Ticked(new) ==
    /\ AtTheList
    /\ picked' = new
    /\ UNCHANGED <<data, at, opened, question, pendingEdge, requests>>
toggle(n) == n \in items /\ Ticked(IF n \in picked THEN picked \ {n} ELSE picked \cup {n})
toggleAll == tray.total > 0 /\ Ticked(IF allSelected THEN {} ELSE items)

-----------------------------------------------------------------------------
(* Deleting one, or the ticked ones. The answer goes on with the page, the *)
(* opened and the rows that were on screen when it was accepted.           *)

askDelete(n) ==
    /\ AtHand /\ n # 0
    /\ n = opened \/ (opened = 0 /\ tray.read /\ n \in items)
    /\ toDelete' = n
    /\ UNCHANGED <<data, at, opened, confirmingMany, picked, pendingEdge, requests>>
askDeleteMany ==
    /\ AtTheList /\ selected # {} /\ \A r \in requests : ~r.many
    /\ confirmingMany' = TRUE
    /\ UNCHANGED <<data, at, opened, toDelete, picked, pendingEdge, requests>>
onCancel ==
    /\ toDelete # 0 \/ confirmingMany
    /\ toDelete' = 0 /\ confirmingMany' = FALSE
    /\ UNCHANGED <<data, at, opened, picked, pendingEdge, requests>>

\* The whole page goes: it was the only one, or every one was ticked.
WholePageMutant(ids, many) == many /\ Cardinality(items) = Cardinality(ids)
WholePage(ids, many) == Cardinality(items) = IF many THEN Cardinality(ids) ELSE 1
Send(ids, many) ==
    /\ ~EdgeIsHere /\ Cardinality(requests) < MaxRequests
    /\ requests' = requests \cup
         {[ids |-> ids, many |-> many, closes |-> opened \in ids,
           back |-> IF WholePage(ids, many) THEN page - 1 ELSE 0, done |-> FALSE, again |-> {}]}
    /\ toDelete' = 0 /\ confirmingMany' = FALSE
    /\ UNCHANGED <<data, at, opened, picked, pendingEdge>>
confirmDelete == toDelete # 0 /\ Send({toDelete}, FALSE)
confirmDeleteMany == confirmingMany /\ Send(selected, TRUE)

\* Only your own go; then the pages on screen are read again.
ServerDeletes(r) ==
    /\ ~r.done
    /\ server' = [b \in Box |-> server[b] \ r.ids]
    /\ requests' = (requests \ {r}) \cup {[r EXCEPT !.done = TRUE, !.again = {at}]}
    /\ UNCHANGED <<cache, last, at, opened, question, picked, pendingEdge>>
onDeleted(r) ==
    /\ r.done
    /\ requests' = requests \ {r}
    /\ Listed(IF r.back > 0 THEN <<box, r.back>> ELSE at,
              [k \in Key |-> IF k \in r.again THEN Fetched(k) ELSE cache[k]])
    /\ opened' = IF r.closes THEN 0 ELSE opened
    /\ picked' = IF r.many THEN {} ELSE picked
    /\ UNCHANGED <<server, question, pendingEdge>>
setActionError(r) ==
    /\ ~r.done
    /\ requests' = requests \ {r}
    /\ UNCHANGED <<data, at, opened, question, picked, pendingEdge>>

-----------------------------------------------------------------------------
(* Elsewhere: a new one, or one deleted from another device.               *)

Arrives(n) ==
    /\ \A b \in Box : \A m \in server[b] \cup initialTray[b] : m < n
    /\ server' = [server EXCEPT !["received"] = @ \cup {n}]
    /\ UNCHANGED <<cache, last, at, opened, question, picked, pendingEdge, requests>>
GoesElsewhere(n) ==
    /\ n \in server["received"]
    /\ server' = [server EXCEPT !["received"] = @ \ {n}]
    /\ UNCHANGED <<cache, last, at, opened, question, picked, pendingEdge, requests>>

Step ==
    \/ useNotificationTray
    \/ openEdge
    \/ onBack
    \/ toggleAll
    \/ askDeleteMany
    \/ onCancel
    \/ \E n \in Number : NotificationRow(n)
    \/ \E n \in Number : toggle(n)
    \/ \E n \in Number : askDelete(n)
    \/ \E n \in Number : Arrives(n)
    \/ \E d \in {"next", "previous"} : step(d)
    \/ \E p \in 1..LastPage : changePage(p)
    \/ \E b \in Box : changeBox(b)
    \/ \E r \in requests : ServerDeletes(r)
    \/ \E r \in requests : onDeleted(r)
    \/ \E r \in requests : setActionError(r)

\* What is listed is what the server has, and there is something.
UpToDate == ~isPlaceholderData /\ items = Fetched(at).items /\ items # {}

Next ==
    \/ Step /\ unmoved' = (unmoved /\ at' = at)
    \/ (confirmDelete \/ confirmDeleteMany) /\ unmoved' = (requests = {} /\ UpToDate)
    \/ \E n \in Number : GoesElsewhere(n) /\ unmoved' = FALSE

Spec == Init /\ [][Next]_vars

-----------------------------------------------------------------------------
(* Properties.                                                             *)

\* "It was the only one of its page, so the page before is shown": a deletion, of
\* one or of the ticked ones, leaves the person on a page with something on it,
\* or their box is empty; whatever arrived since it was accepted, and however
\* often the page was read again. The exceptions are what goes meanwhile with
\* another deletion or from another device, a page that was not up to date, or
\* empty, when it was accepted, and who moves to another one before the answer comes
\* (NotificacionesSection's and TeacherInbox's confirmDelete).
DeletionLeavesAPage ==
    [][\A r \in requests \ requests' : (r.done /\ unmoved) => (Fetched(at).items # {} \/ server[box] = {})']_vars

\* "No tienes notificaciones por ahora" is only said when the box has none.
\* The code does not hold it on a page that the deletions emptied.
EmptyMeansEmpty ==
    (opened = 0 /\ ~isPlaceholderData /\ items = {} /\ requests = {}) => tray.total = 0
=============================================================================
