------------------------------- MODULE Units -------------------------------
(***************************************************************************)
(* "Lecciones" of a class in the teacher portal: the units and the lessons *)
(* in order, moved up and down; the windows that make or change a unit     *)
(* with its DBA, make a lesson, or delete a unit; and the query cache,     *)
(* which is read again after every change.                                 *)
(*                                                                         *)
(* The lessons of one unit stand for those of any.                         *)
(***************************************************************************)
EXTENDS EditorLists, FiniteSets, SequencesExt

CONSTANTS
    Unit,       \* the units there may be
    Lesson,     \* the lessons there may be
    catalog,    \* [DBA of the class's area and grade -> its evidences]
    MaxNew      \* the bound on the units and lessons made

UnitsAssumption == "own" \notin DOMAIN catalog /\ "none" \notin DOMAIN catalog /\ MaxNew \in Nat

VARIABLES
    server,   \* the lists and the DBA of each unit in content-service
    cache,    \* the lists and the DBA in the query cache, and whether they are to be read again
    reorder,  \* the order being saved
    window,   \* the window on top, and what is written in it
    saving,   \* what the window sent
    made,     \* how many were made
    animated  \* whether windows close with an animation: not for who asked for less motion

vars == <<server, cache, reorder, window, saving, made, animated>>

List == {"units", "lessons"}
Evidence == UNION {catalog[d] : d \in DOMAIN catalog}
NoDba == [dba |-> "none", own |-> FALSE, evidences |-> {}, points |-> FALSE]
Closed == [kind |-> "none", unit |-> 0, title |-> FALSE, draft |-> NoDba, leaving |-> "no"]
Idle == [list |-> "none", ids |-> <<>>, at |-> "no"]
NothingSent == [kind |-> "none", unit |-> 0, dba |-> NoDba, at |-> "no", here |-> TRUE]

\* The class may have no units yet; its teacher may have left them without DBA.
Init ==
    /\ \E us \in {<<>>, SetToSeq(Unit)} :
         server = [order |-> [l \in List |-> IF l = "units" THEN us ELSE IF us = <<>> THEN <<>> ELSE SetToSeq(Lesson)],
                   dba |-> [u \in Unit |-> NoDba]]
    /\ cache = [order |-> server.order, dba |-> server.dba, stale |-> FALSE]
    /\ reorder = Idle
    /\ window = Closed
    /\ saving = NothingSent
    /\ made = 0
    /\ animated \in BOOLEAN

-----------------------------------------------------------------------------
(* The lists.                                                              *)

Free == window.kind = "none"
busy == reorder.at # "no"
\* The same list with one item moved one place.
moved(items, i, step) == [items EXCEPT ![i] = items[i + step], ![i + step] = items[i]]
moveItem(l, i, step) ==
    /\ Free /\ ~busy /\ {i, i + step} \subseteq DOMAIN cache.order[l]
    /\ reorder' = [list |-> l, ids |-> moved(cache.order[l], i, step), at |-> "asked"]
    /\ UNCHANGED <<server, cache, window, saving, made, animated>>
\* Every unit, or every lesson of the unit, once.
ServerReorders ==
    /\ reorder.at = "asked"
    /\ IF ToSet(reorder.ids) = ToSet(server.order[reorder.list]) /\ Len(reorder.ids) = Len(server.order[reorder.list])
       THEN /\ server' = [server EXCEPT !.order[reorder.list] = reorder.ids]
            /\ reorder' = [reorder EXCEPT !.at = "done"]
       ELSE /\ reorder' = [reorder EXCEPT !.at = "refused"]
            /\ UNCHANGED server
    /\ UNCHANGED <<cache, window, saving, made, animated>>
\* useRefreshClassroom: the list is read again, without being waited for.
ReorderAnswer ==
    /\ reorder.at \in {"done", "refused"}
    /\ reorder' = Idle
    /\ cache' = [cache EXCEPT !.stale = @ \/ reorder.at = "done"]
    /\ UNCHANGED <<server, window, saving, made, animated>>
useClassroomUnits ==
    /\ cache.stale
    /\ cache' = [order |-> server.order, dba |-> server.dba, stale |-> FALSE]
    /\ UNCHANGED <<server, reorder, window, saving, made, animated>>

-----------------------------------------------------------------------------
(* The windows.                                                            *)

\* The saved DBA as the form's draft: the catalog's evidences and the own ones.
toUnitDbaDraft(dba) == dba
openUnitDialog(u) ==
    /\ Free
    /\ IF u = 0 THEN TRUE ELSE u \in ToSet(cache.order["units"])
    /\ window' = [kind |-> "unit", unit |-> u, title |-> u # 0, leaving |-> "no",
                  draft |-> IF u = 0 THEN NoDba ELSE toUnitDbaDraft(cache.dba[u])]
    /\ UNCHANGED <<server, cache, reorder, saving, made, animated>>
openLessonDialog ==
    /\ Free /\ cache.order["units"] # <<>>
    /\ window' = [Closed EXCEPT !.kind = "lesson"]
    /\ UNCHANGED <<server, cache, reorder, saving, made, animated>>
\* Only an empty unit can be deleted; the first one has the lessons.
openDelete(u) ==
    /\ Free /\ u \in ToSet(cache.order["units"])
    /\ cache.order["lessons"] = <<>> /\ saving.at = "no"
    /\ window' = [Closed EXCEPT !.kind = "delete", !.unit = u]
    /\ UNCHANGED <<server, cache, reorder, saving, made, animated>>

Written(new) ==
    /\ window.kind \in {"unit", "lesson"} /\ saving.at = "no" /\ window.leaving = "no"
    /\ window' = new
    /\ UNCHANGED <<server, cache, reorder, saving, made, animated>>
setTitle == Written([window EXCEPT !.title = ~@])
Choosing == window.kind = "unit"
Draft(d) == Choosing /\ Written([window EXCEPT !.draft = d])
picked == window.draft.dba # "none"
\* Another DBA: the ticked evidences were of the old one, the own ones stay.
pickMutant(d) == Draft([window.draft EXCEPT !.dba = d, !.own = d = "own" /\ @])
pick(d) ==
    /\ d # window.draft.dba
    /\ Draft([window.draft EXCEPT !.dba = d, !.own = d = "own" /\ @, !.evidences = {}])
setOwnName == window.draft.dba = "own" /\ Draft([window.draft EXCEPT !.own = ~@])
toggle(e) ==
    /\ window.draft.dba \in DOMAIN catalog /\ e \in catalog[window.draft.dba]
    /\ Draft([window.draft EXCEPT !.evidences = IF e \in @ THEN @ \ {e} ELSE @ \cup {e}])
setOwnPoint == picked /\ Draft([window.draft EXCEPT !.points = ~@])

unitDbaReady(d) == IF d.dba = "own" THEN d.own ELSE d.dba # "none"
unitDbaHasPoints(d) == d.evidences # {} \/ d.points
toUnitDbaBody(d) == IF d.dba = "own" THEN [d EXCEPT !.evidences = {}] ELSE d
\* Nothing stops a window that is closing from being submitted once more.
submitUnit ==
    /\ window.kind = "unit" /\ saving.at = "no" /\ made < MaxNew
    /\ window.title /\ unitDbaReady(window.draft) /\ unitDbaHasPoints(window.draft)
    /\ saving' = [kind |-> "unit", unit |-> window.unit, dba |-> toUnitDbaBody(window.draft),
                at |-> "asked", here |-> TRUE]
    /\ UNCHANGED <<server, cache, reorder, window, made, animated>>
submitLesson ==
    /\ window.kind = "lesson" /\ saving.at = "no" /\ window.title /\ made < MaxNew
    /\ saving' = [NothingSent EXCEPT !.kind = "lesson", !.at = "asked"]
    /\ UNCHANGED <<server, cache, reorder, window, made, animated>>

New(s) == CHOOSE x \in s : TRUE
\* content-service; deleting a unit is refused while it has lessons.
ServerSaves ==
    /\ saving.at = "asked"
    /\ LET free == Unit \ ToSet(server.order["units"])
           lessons == Lesson \ ToSet(server.order["lessons"])
       IN  \/ /\ saving.kind = "unit" /\ saving.unit # 0 /\ saving.unit \in ToSet(server.order["units"])
              /\ server' = [server EXCEPT !.dba[saving.unit] = saving.dba]
              /\ saving' = [saving EXCEPT !.at = "done"]
           \/ /\ saving.kind = "unit" /\ saving.unit = 0 /\ free # {}
              /\ server' = [server EXCEPT !.order["units"] = Append(@, New(free)), !.dba[New(free)] = saving.dba]
              /\ saving' = [saving EXCEPT !.at = "done"]
           \/ /\ saving.kind = "lesson" /\ lessons # {}
              /\ server' = [server EXCEPT !.order["lessons"] = Append(@, New(lessons))]
              /\ saving' = [saving EXCEPT !.at = "done"]
           \/ /\ saving.kind = "delete" /\ server.order["lessons"] = <<>>
              /\ server' = [server EXCEPT !.order["units"] = SelectSeq(@, LAMBDA u : u # saving.unit),
                                          !.dba[saving.unit] = NoDba]
              /\ saving' = [saving EXCEPT !.at = "done"]
           \/ /\ saving' = [saving EXCEPT !.at = "refused"]
              /\ UNCHANGED server
    /\ UNCHANGED <<cache, reorder, window, made, animated>>
\* The window of a unit closes by telling what happened; that of a lesson
\* opens the lesson, away from this page.  A window that closed meanwhile
\* hears nothing.
SaveAnswer ==
    /\ saving.at \in {"done", "refused"}
    /\ saving' = NothingSent
    /\ cache' = [cache EXCEPT !.stale = @ \/ saving.at = "done"]
    /\ made' = IF saving.at = "done" /\ made < MaxNew THEN made + 1 ELSE made
    /\ window' = IF saving.at = "refused" \/ saving.kind = "delete" \/ ~saving.here THEN window
                 ELSE IF saving.kind = "lesson" THEN Closed
                 ELSE IF animated /\ window.leaving = "no" THEN [window EXCEPT !.leaving = "saved"] ELSE window
    /\ UNCHANGED <<server, reorder, animated>>

\* Escape, the cross and "Cancelar".
close(how) ==
    /\ window.leaving = "no"
    /\ window' = IF animated THEN [window EXCEPT !.leaving = how] ELSE Closed
cancel ==
    /\ window.kind # "none" /\ saving.at = "no" /\ close("cancelled")
    /\ UNCHANGED <<server, cache, reorder, saving, made, animated>>
Deletes == [NothingSent EXCEPT !.kind = "delete", !.unit = window.unit, !.at = "asked"]
acceptDelete ==
    /\ window.kind = "delete" /\ close("accepted")
    /\ saving' = IF animated THEN saving ELSE Deletes
    /\ UNCHANGED <<server, cache, reorder, made, animated>>
\* The end of the animation runs what was to be done: onClose takes the
\* window away, onSaved only shows the toast.
afterClose ==
    /\ window.leaving \in {"cancelled", "accepted", "saved"}
    /\ window' = IF window.leaving = "saved" THEN [window EXCEPT !.leaving = "told"] ELSE Closed
    /\ saving' = IF window.leaving = "accepted" THEN Deletes
               ELSE IF saving.at # "no" THEN [saving EXCEPT !.here = FALSE] ELSE saving
    /\ UNCHANGED <<server, cache, reorder, made, animated>>

Next ==
    \/ \E l \in List, i \in 1..Cardinality(Unit \cup Lesson), step \in {-1, 1} : moveItem(l, i, step)
    \/ ServerReorders \/ ReorderAnswer \/ useClassroomUnits
    \/ \E u \in Unit \cup {0} : openUnitDialog(u)
    \/ openLessonDialog
    \/ \E u \in Unit : openDelete(u)
    \/ setTitle
    \/ \E d \in DOMAIN catalog \cup {"own"} : pick(d)
    \/ setOwnName
    \/ \E e \in Evidence : toggle(e)
    \/ setOwnPoint
    \/ submitUnit \/ submitLesson
    \/ ServerSaves \/ SaveAnswer
    \/ cancel \/ acceptDelete \/ afterClose

\* Requests end, and so do the animations.
Fairness ==
    /\ WF_vars(ServerReorders) /\ WF_vars(ReorderAnswer) /\ WF_vars(useClassroomUnits)
    /\ WF_vars(ServerSaves) /\ WF_vars(SaveAnswer) /\ WF_vars(afterClose)
Spec == Init /\ [][Next]_vars /\ Fairness

-----------------------------------------------------------------------------
(* Properties.                                                             *)

\* The evidences of a unit are of its DBA, whatever was picked and ticked
\* before; an own DBA has none of the catalog (unitDbaDraft.ts:36).
EvidencesOfTheDba ==
    \A u \in Unit : LET d == server.dba[u] IN
        IF d.dba \in DOMAIN catalog THEN d.evidences \subseteq catalog[d.dba] ELSE d.evidences = {}

\* useModalDialog.ts:14: "On close the focus goes back to whoever opened it":
\* a window that closes ends up gone.  The code does not hold it for the window
\* of a unit that was saved: onSaved shows the toast and nobody calls onClose,
\* so it stays, invisible, over a page that is inert.
WindowsGoAway == window.leaving # "no" ~> window.kind = "none"
=============================================================================
