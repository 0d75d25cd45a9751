----------------------------- MODULE Classrooms -----------------------------
(***************************************************************************)
(* "Mis clases" of the teacher portal: the list, the space of a class with *)
(* its options, the window that makes or changes a class, the questions    *)
(* before archiving, deleting and taking a kid out, the requests to enter, *)
(* and the query cache, which is read again after every change.            *)
(*                                                                         *)
(* The kids are those of the first class.                                  *)
(***************************************************************************)
EXTENDS Naturals

CONSTANTS
    Class,     \* the classes there may be, numbers
    Kid,       \* the kids of the first class, or waiting to enter it
    MaxSaves,  \* the bound on the changes asked for
    MaxLosses  \* the bound on the answers that do not come back

ClassroomsAssumption ==
    /\ Class \subseteq Nat \ {0} /\ 1 \in Class /\ MaxSaves \in Nat /\ MaxLosses \in Nat
    /\ "none" \notin Kid

VARIABLES
    server,   \* the classes in classroom-service: their state and how many times each one changed
    enrolled, \* the kids: "waiting", "in" or "out"
    list,     \* the classes in the query cache
    detail,   \* the details of each class there, and whether they are to be read again
    openId,   \* the class opened, or 0
    view,     \* the option opened
    window,   \* the window on top
    busy,     \* the kids whose row waits for its answer
    ops,      \* the changes on their way
    asked,    \* how many were asked for
    lost      \* how many answers did not come back

vars == <<server, enrolled, list, detail, openId, view, window, busy, ops, asked, lost>>
stored == <<server, enrolled>>
cached == <<list, detail>>
place == <<openId, view>>

Views == {"inicio", "miembros", "mensajes"}
NoWindow == [kind |-> "none", kid |-> "none", ready |-> FALSE, leaving |-> FALSE, made |-> 0]
NoClass == [state |-> "none", rev |-> 0, kids |-> [k \in Kid |-> "out"]]
Shown(c) == [state |-> server[c].state, rev |-> server[c].rev,
             kids |-> IF c = 1 THEN enrolled ELSE NoClass.kids]
NotRead == [value |-> NoClass, stale |-> TRUE]

Init ==
    /\ server = [c \in Class |-> [state |-> IF c = 1 THEN "active" ELSE "none", rev |-> 0]]
    /\ enrolled \in {[k \in Kid |-> s] : s \in {"waiting", "in"}}
    /\ list = [c \in Class |-> server[c].state]
    /\ detail = [c \in Class |-> NotRead]
    /\ openId \in {0, 1} /\ view = "inicio"
    /\ window \in {NoWindow} \cup (IF openId = 0 THEN {[NoWindow EXCEPT !.kind = "create"]} ELSE {})
    /\ busy = {} /\ ops = {} /\ asked = 0 /\ lost = 0

-----------------------------------------------------------------------------
(* The list and the space of a class.                                      *)

classroom == detail[openId].value
InSpace == openId # 0 /\ detail[openId].value.state \in {"active", "archived"}
archived == classroom.state = "archived"
Free == window.kind = "none"
\* The changes asked for from the space that is there now.
Here == {o \in ops : o.live}
isPending == \E o \in Here : o.kind \in {"archive", "restore", "delete"}
Gone == {[o EXCEPT !.live = FALSE] : o \in ops}

useTeacherClassrooms ==
    /\ list' = [c \in Class |-> server[c].state]
    /\ UNCHANGED <<stored, detail, place, window, busy, ops, asked, lost>>
useClassroomDetail ==
    /\ openId # 0 /\ detail[openId].stale
    /\ detail' = [detail EXCEPT ![openId] = [value |-> Shown(openId), stale |-> FALSE]]
    /\ UNCHANGED <<stored, list, place, window, busy, ops, asked, lost>>
onOpen(c) ==
    /\ openId = 0 /\ Free /\ list[c] \in {"active", "archived"}
    /\ openId' = c /\ view' = "inicio"
    \* Read again when it is opened, unless it was read a moment ago.
    /\ \E again \in BOOLEAN : detail' = [detail EXCEPT ![c].stale = @ \/ again]
    /\ UNCHANGED <<stored, list, window, busy, ops, asked, lost>>
\* The rows of Miembros forget what they wait for when it is left.
openView(v) ==
    /\ InSpace /\ Free /\ v # view
    \* From Miembros, "Escribir" goes to the messages.
    /\ \/ "inicio" \in {v, view}
       \/ v = "mensajes" /\ \E k \in Kid : classroom.kids[k] = "in"
    /\ archived => v # "mensajes"
    /\ view' = v /\ busy' = {}
    /\ UNCHANGED <<stored, cached, openId, window, ops, asked, lost>>
onBack ==
    /\ openId # 0 /\ Free /\ (InSpace => view = "inicio")
    /\ openId' = 0 /\ ops' = Gone /\ busy' = {}
    /\ UNCHANGED <<stored, cached, view, window, asked, lost>>

-----------------------------------------------------------------------------
(* The windows.                                                            *)

setWindow(w) == window' = w /\ UNCHANGED <<stored, cached, place, busy, ops, asked, lost>>
Opened(kind, kid) == Free /\ setWindow([NoWindow EXCEPT !.kind = kind, !.kid = kid])
setCreating == openId = 0 /\ Opened("create", "none")
setEditing == InSpace /\ view = "inicio" /\ ~archived /\ Opened("edit", "none")
setConfirming ==
    /\ InSpace /\ view = "inicio" /\ ~isPending
    /\ Opened(IF archived THEN "delete" ELSE "archive", "none")
setToRemove(k) ==
    /\ InSpace /\ view = "miembros" /\ ~archived /\ k \notin busy /\ classroom.kids[k] = "in"
    /\ Opened("remove", k)
setToReject(k) ==
    /\ InSpace /\ view = "miembros" /\ k \notin busy /\ classroom.kids[k] = "waiting"
    /\ Opened("reject", k)

Form == window.kind \in {"create", "edit"}
OfForm(o) == o.kind \in {"create", "update", "image"}
saving == \E o \in Here : OfForm(o)
\* What is written in the form: whether check() finds nothing.
setFields == Form /\ ~saving /\ ~window.leaving /\ setWindow([window EXCEPT !.ready = ~@])
close == ~Free /\ ~saving /\ ~window.leaving /\ setWindow(NoWindow)

-----------------------------------------------------------------------------
(* The changes, from the button to the answer.                             *)

Ask(kind, kid) ==
    /\ asked < MaxSaves
    /\ asked' = asked + 1
    /\ ops' = ops \cup {[kind |-> kind, class |-> openId, kid |-> kid, at |-> "asked", live |-> TRUE]}
\* With Enter also while the window closes, when it closes with its animation.
submit ==
    /\ Form /\ window.ready /\ ~saving
    /\ Ask(IF window.kind = "create" THEN "create" ELSE "update", "none")
    /\ UNCHANGED <<stored, cached, place, window, busy, lost>>
run ==
    /\ window.kind \in {"archive", "delete"}
    /\ window' = NoWindow
    /\ Ask(window.kind, "none")
    /\ UNCHANGED <<stored, cached, place, busy, lost>>
restore ==
    /\ InSpace /\ Free /\ view = "inicio" /\ archived /\ ~isPending
    /\ Ask("restore", "none")
    /\ UNCHANGED <<stored, cached, place, window, busy, lost>>
confirmRemove ==
    /\ window.kind \in {"remove", "reject"}
    /\ window' = NoWindow
    /\ busy' = busy \cup {window.kid}
    /\ Ask(window.kind, window.kid)
    /\ UNCHANGED <<stored, cached, place, lost>>
answer(k) ==
    /\ InSpace /\ Free /\ view = "miembros" /\ k \notin busy /\ classroom.kids[k] = "waiting"
    /\ busy' = busy \cup {k}
    /\ Ask("accept", k)
    /\ UNCHANGED <<stored, cached, place, window, lost>>

Unused == {c \in Class : server[c].state = "none"}
Can(o) ==
    CASE o.kind = "create" -> Unused # {}
      [] o.kind \in {"update", "image", "archive"} -> server[o.class].state = "active"
      [] o.kind \in {"restore", "delete"} -> server[o.class].state = "archived"
      [] o.kind \in {"accept", "reject"} -> server[1].state = "active" /\ enrolled[o.kid] = "waiting"
      [] o.kind = "remove" -> server[1].state = "active" /\ enrolled[o.kid] = "in"
After(o) ==
    CASE o.kind \in {"create", "restore"} -> "active"
      [] o.kind = "archive" -> "archived"
      [] o.kind = "delete" -> "gone"
      [] OTHER -> server[o.class].state
ServerDoes(o) ==
    /\ o.at = "asked" /\ Can(o)
    /\ LET c == IF o.kind = "create" THEN CHOOSE c \in Unused : TRUE ELSE o.class
           changed == o.kind \in {"update", "image"}
       IN  /\ server' = [server EXCEPT ![c] = [state |-> After(o), rev |-> IF changed THEN @.rev + 1 ELSE @.rev]]
           /\ ops' = (ops \ {o}) \cup {[o EXCEPT !.at = "done", !.class = c]}
    /\ enrolled' = [k \in Kid |-> IF o.kind = "archive" /\ o.class = 1 /\ enrolled[k] = "waiting" THEN "out"
                                  ELSE IF k # o.kid THEN enrolled[k]
                                  ELSE IF o.kind = "accept" THEN "in" ELSE "out"]
    /\ UNCHANGED <<cached, place, window, busy, asked, lost>>

\* The list and the details of the class are to be read again.
invalidateMutant(o) ==
    detail' = IF o.kind = "delete" THEN [detail EXCEPT ![o.class] = NotRead]
              ELSE IF o.kind \in {"archive", "restore"} THEN detail
              ELSE [detail EXCEPT ![o.class].stale = TRUE]
invalidate(o) ==
    detail' = IF o.kind = "delete" THEN [detail EXCEPT ![o.class] = NotRead]
              ELSE [detail EXCEPT ![o.class].stale = TRUE]
Told(o) == ops' = ops \ {o} /\ invalidate(o)

\* Closing takes a moment, and closes once: what was sent meanwhile is not told.
Closing(o) == IF o.live /\ ~window.leaving THEN [window EXCEPT !.leaving = TRUE, !.made = o.class] ELSE window
\* The picture goes after the class: the window closes also when it fails.
Saved(o) ==
    /\ OfForm(o) /\ o.at = "done"
    /\ \E more \in IF o.kind = "image" THEN {FALSE} ELSE BOOLEAN :
         /\ ops' = (ops \ {o}) \cup (IF more THEN {[o EXCEPT !.kind = "image", !.at = "asked"]} ELSE {})
         /\ window' = IF more THEN window ELSE Closing(o)
    /\ invalidate(o)
    /\ UNCHANGED <<stored, list, place, busy, asked, lost>>
\* A new class is opened, the window is gone.
onSaved ==
    /\ window.leaving
    /\ window' = NoWindow
    /\ ops' = {[o EXCEPT !.live = @ /\ ~OfForm(o)] : o \in ops}
    /\ IF window.kind = "create" THEN openId' = window.made /\ view' = "inicio" ELSE UNCHANGED place
    /\ UNCHANGED <<stored, cached, busy, asked, lost>>
\* After archiving or restoring, the options of the class; after deleting, the
\* list, and the space that was open goes away with its window.
Ran(o) ==
    /\ o.kind \in {"archive", "restore", "delete"} /\ o.at = "done"
    /\ invalidate(o)
    /\ IF o.kind = "delete" /\ openId # 0
       THEN /\ openId' = 0 /\ window' = NoWindow /\ busy' = {}
            /\ ops' = {[other EXCEPT !.live = FALSE] : other \in ops \ {o}}
            /\ UNCHANGED view
       ELSE /\ ops' = ops \ {o}
            /\ IF o.kind # "delete" /\ o.live THEN view' = "inicio" /\ busy' = {} ELSE UNCHANGED <<view, busy>>
            /\ UNCHANGED <<openId, window>>
    /\ UNCHANGED <<stored, list, asked, lost>>
Answered(o) ==
    /\ o.kid # "none" /\ o.at = "done"
    /\ Told(o)
    /\ busy' = busy \ {o.kid}
    /\ UNCHANGED <<stored, list, place, window, asked, lost>>
\* Refused, or done and its answer lost: only the error is shown. A picture that
\* fails closes the window all the same.
setError(o) ==
    /\ IF o.at = "asked" THEN lost' = lost ELSE lost < MaxLosses /\ lost' = lost + 1
    /\ ops' = ops \ {o}
    /\ busy' = busy \ {o.kid}
    /\ window' = IF o.kind = "image" THEN Closing(o) ELSE window
    /\ UNCHANGED <<stored, cached, place, asked>>

Next ==
    \/ useTeacherClassrooms
    \/ useClassroomDetail
    \/ onBack
    \/ setCreating
    \/ setEditing
    \/ setConfirming
    \/ setFields
    \/ close
    \/ submit
    \/ run
    \/ restore
    \/ confirmRemove
    \/ onSaved
    \/ \E c \in Class : onOpen(c)
    \/ \E v \in Views : openView(v)
    \/ \E k \in Kid : setToRemove(k)
    \/ \E k \in Kid : setToReject(k)
    \/ \E k \in Kid : answer(k)
    \/ \E o \in ops : ServerDoes(o)
    \/ \E o \in ops : Saved(o)
    \/ \E o \in ops : Ran(o)
    \/ \E o \in ops : Answered(o)
    \/ \E o \in ops : setError(o)

Spec == Init /\ [][Next]_vars

-----------------------------------------------------------------------------
(* Properties.                                                             *)

\* What the teacher changed is what they see: with nothing on its way and every
\* answer received, the class on screen is the one stored, or it is about to be
\* read again (the invalidations of useClassroomsApi.ts; the details of a class
\* are not read again every so often).
OwnChangesShow ==
    (InSpace /\ ops = {} /\ lost = 0) => (detail[openId].stale \/ classroom = Shown(openId))
=============================================================================
