--------------------------- MODULE ContentService ---------------------------
(***************************************************************************)
(* content-service: the units and lessons a teacher writes for one class,  *)
(* how they are ordered, completed, published and announced, and what is   *)
(* left of them when classroom-service archives or deletes the class.      *)
(*                                                                         *)
(* A use case is a request handler.  It reads, asks classroom-service      *)
(* whether the class may be edited (an answer that is cached), reads again *)
(* and commits; other handlers run in between.  As in classroom-service an *)
(* update writes back every field of the entity that was read.             *)
(*                                                                         *)
(* A lesson is reduced to its unit, position and status, and to whether    *)
(* its pages and its activity are complete.  Titles, DBA, extras, images   *)
(* and the kids' progress are left out.  A name ending in Mutant is a      *)
(* plausible mistake in the definition after it; no action uses it.        *)
(***************************************************************************)
EXTENDS Naturals, FiniteSets

CONSTANTS
    Unit,     \* ids of units (uuid4: never given twice)
    Lesson,   \* ids of lessons (uuid4: never given twice)
    Request,  \* slots for handlers in flight
    Saved,    \* what a teacher may save: complete parts, incomplete ones
    None      \* no value

ASSUME ContentAssumption ==
    /\ IsFiniteSet(Unit) /\ IsFiniteSet(Lesson)
    /\ Saved \subseteq BOOLEAN
    /\ None \notin Unit \cup Lesson \cup Nat \cup BOOLEAN
    /\ None \notin [unit : Unit, order : Nat, status : {"draft", "published"},
                    pages : BOOLEAN, activity : BOOLEAN]

VARIABLES
    units,     \* table units: the position of each one
    lessons,   \* table lessons, with what hangs from each one
    minted,    \* the ids given out so far
    class,     \* the class, in classroom-service
    deletion,  \* how far classroom-service is in deleting it
    cache,     \* what classroom-service last answered, while it is cached
    announced, \* how often the class heard of each lesson
    req        \* the handler in each slot

content == <<units, lessons>>
vars == <<units, lessons, minted, class, deletion, cache, announced, req>>

LessonRow == [unit : Unit, order : Nat, status : {"draft", "published"},
              pages : BOOLEAN, activity : BOOLEAN]

Op == {"none", "create_unit", "update_unit", "reorder_units", "delete_unit",
       "create_lesson", "update_lesson", "set_activity", "publish",
       "reorder_lessons", "delete_lesson"}

\* idle; asking who owns the class; asking whether it may be edited; before the
\* reads that follow; asking again for the unit a lesson moves to; before the
\* commit; before announcing.
Phase == {"idle", "owner", "editor", "work", "move", "write", "announce"}

-----------------------------------------------------------------------------
NoUnits == [u \in Unit |-> None]
NoLessons == [l \in Lesson |-> None]

\* reply: what classroom-service answered and has not arrived yet.  unit and
\* lesson: what the request names.  save: the completeness of what it saves.
\* us and ls: the entities it will write.
IdleSlot == [op |-> "none", at |-> "idle", reply |-> None, unit |-> None,
             lesson |-> None, save |-> None, us |-> NoUnits, ls |-> NoLessons]

Init ==
    /\ units = NoUnits
    /\ lessons = NoLessons
    /\ minted = {}
    /\ class = "open"
    /\ deletion = "none"
    /\ cache = [role \in {"teacher", "editor"} |-> None]
    /\ announced = [l \in Lesson |-> "never"]
    /\ req = [r \in Request |-> IdleSlot]

Is(r, op, at) == req[r].op = op /\ req[r].at = at
Go(r, at)  == req' = [req EXCEPT ![r].at = at, ![r].reply = None]
Answer(r)  == req' = [req EXCEPT ![r] = IdleSlot]
KeepUnits(r, us) == req' = [req EXCEPT ![r].at = "write", ![r].us = us]
KeepLessons(r, ls) ==
    req' = [req EXCEPT ![r].at = "write", ![r].reply = None, ![r].ls = ls]

Existing == {u \in Unit : units[u] # None}
InUnit(u) == {l \in Lesson : lessons[l] # None /\ lessons[l].unit = u}
OnlyLesson(l, row) == [x \in Lesson |-> IF x = l THEN row ELSE None]
OnlyUnit(u, order) == [x \in Unit |-> IF x = u THEN order ELSE None]

\* Every order of the elements of S: who gets which position.
Orders(S) == {p \in [S -> 0 .. Cardinality(S) - 1] :
                \A x, y \in S : p[x] = p[y] => x = y}

\* classroom-service's verify_access for the teacher of the class.
AccessMutant(role) == class # "deleted"
Access(role) ==
    IF role = "editor" THEN class = "open" ELSE class # "deleted"

Asking == {"owner", "editor", "move"}
Role(r) == IF req[r].at = "owner" THEN "teacher" ELSE "editor"

\* HttpClassroomClient.verify_access, when no answer is cached: the call, up to
\* where classroom-service has decided.
Ask(r) ==
    /\ req[r].at \in Asking /\ req[r].reply = None /\ cache[Role(r)] = None
    /\ req' = [req EXCEPT ![r].reply = Access(Role(r))]
    /\ UNCHANGED <<units, lessons, minted, class, deletion, cache, announced>>

\* What verify_access returns: an answer that is cached, or the one that
\* arrives, which is cached from then on.
Returns(r, answer) ==
    \/ req[r].reply = None /\ cache[Role(r)] = answer /\ UNCHANGED cache
    \/ req[r].reply = answer /\ cache' = [cache EXCEPT ![Role(r)] = answer]

\* TTLCache: about 30 s later.
Forget(role) ==
    /\ cache[role] # None
    /\ cache' = [cache EXCEPT ![role] = None]
    /\ UNCHANGED <<units, lessons, minted, class, deletion, announced, req>>

\* LessonRepository.update_details for each entity: a row that is gone is
\* skipped, the others take unit, position and status as they were read.
WriteLessons(ls) ==
    lessons' = [l \in Lesson |->
        IF ls[l] # None /\ lessons[l] # None
        THEN [lessons[l] EXCEPT !.unit = ls[l].unit, !.order = ls[l].order,
                                !.status = ls[l].status]
        ELSE lessons[l]]

\* The foreign key lets the rows that are written point only at real units.
UnitsStandMutant(ls) == TRUE
UnitsStand(ls) ==
    \A l \in Lesson : ls[l] # None /\ lessons[l] # None => units[ls[l].unit] # None

\* UnitRepository.update for each entity.
WriteUnits(us) ==
    units' = [u \in Unit |-> IF us[u] # None /\ units[u] # None THEN us[u] ELSE units[u]]
-----------------------------------------------------------------------------
(* A handler begins: it reads what the request names.                      *)

Start(r, op, at, u, l, save, us, ls) ==
    /\ req[r].at = "idle"
    /\ req' = [req EXCEPT ![r] = [op |-> op, at |-> at, reply |-> None, unit |-> u,
                                  lesson |-> l, save |-> save, us |-> us, ls |-> ls]]
    /\ UNCHANGED <<units, lessons, minted, class, deletion, cache, announced>>

\* create_unit and reorder_units name the class only.
OnClass(r, op) == Start(r, op, "owner", None, None, None, NoUnits, NoLessons)

\* The use cases that begin with _own_unit.
OnUnit(r, op, u) ==
    /\ units[u] # None
    /\ Start(r, op, "editor", u, None, None,
             IF op \in {"update_unit", "delete_unit"} THEN OnlyUnit(u, units[u]) ELSE NoUnits,
             NoLessons)

\* The use cases that begin with _own_lesson.  update_lesson names the unit
\* the lesson should be in.
OnLesson(r, op, l, u, save) ==
    /\ lessons[l] # None
    /\ Start(r, op, "editor", u, l, save, NoUnits, OnlyLesson(l, lessons[l]))

Begin(r) ==
    \/ \E op \in {"create_unit", "reorder_units"} : OnClass(r, op)
    \/ \E u \in Unit, op \in {"update_unit", "delete_unit", "create_lesson", "reorder_lessons"} :
          OnUnit(r, op, u)
    \/ \E l \in Lesson, u \in Unit, save \in Saved \cup {None} :
          OnLesson(r, "update_lesson", l, u, save)
    \/ \E l \in Lesson, save \in Saved : OnLesson(r, "set_activity", l, None, save)
    \/ \E l \in Lesson, op \in {"publish", "delete_lesson"} : OnLesson(r, op, l, None, None)

\* _require_owner, before _require_editor.
PassOwner(r) ==
    /\ req[r].at = "owner"
    /\ \E answer \in BOOLEAN :
          Returns(r, answer) /\ IF answer THEN Go(r, "editor") ELSE Answer(r)
    /\ UNCHANGED <<units, lessons, minted, class, deletion, announced>>

\* _require_editor and _require_editable.
PassEditor(r) ==
    /\ req[r].at = "editor"
    /\ \E answer \in BOOLEAN :
          Returns(r, answer) /\ IF answer THEN Go(r, "work") ELSE Answer(r)
    /\ UNCHANGED <<units, lessons, minted, class, deletion, announced>>

-----------------------------------------------------------------------------
(* Units.                                                                  *)

\* create_unit: its position is how many units there are.
CreateUnitCount(r, u) ==
    /\ Is(r, "create_unit", "work")
    /\ u \notin minted
    /\ minted' = minted \cup {u}
    /\ req' = [req EXCEPT ![r].at = "write", ![r].unit = u,
                          ![r].us = OnlyUnit(u, Cardinality(Existing))]
    /\ UNCHANGED <<units, lessons, class, deletion, cache, announced>>

CreateUnitCommit(r) ==
    /\ Is(r, "create_unit", "write")
    /\ units' = [units EXCEPT ![req[r].unit] = req[r].us[req[r].unit]]
    /\ Answer(r)
    /\ UNCHANGED <<lessons, minted, class, deletion, cache, announced>>

\* update_unit: what it changes is not modelled, but it writes the position
\* that was read when the handler began.
UpdateUnitCommit(r) ==
    /\ Is(r, "update_unit", "work")
    /\ WriteUnits(req[r].us)
    /\ Answer(r)
    /\ UNCHANGED <<lessons, minted, class, deletion, cache, announced>>

\* reorder_units: the request names each unit of the list once.
ReorderUnitsRead(r) ==
    /\ Is(r, "reorder_units", "work")
    /\ \E p \in Orders(Existing) :
          KeepUnits(r, [u \in Unit |-> IF u \in Existing THEN p[u] ELSE None])
    /\ UNCHANGED <<units, lessons, minted, class, deletion, cache, announced>>

\* A request that names other units than the list has is refused.
ReorderUnitsCommit(r) ==
    /\ Is(r, "reorder_units", "write")
    /\ WriteUnits(req[r].us)
    /\ Answer(r)
    /\ UNCHANGED <<lessons, minted, class, deletion, cache, announced>>

\* delete_unit: only an empty unit goes, and the ones after it move up.
After(r) ==
    {u \in Existing \ {req[r].unit} : units[u] > req[r].us[req[r].unit]}

DeleteUnitRowsMutant(r) ==
    /\ Is(r, "delete_unit", "work")
    /\ IF InUnit(req[r].unit) # {} THEN Answer(r) ELSE KeepUnits(r, NoUnits)
    /\ UNCHANGED <<units, lessons, minted, class, deletion, cache, announced>>
DeleteUnitRows(r) ==
    /\ Is(r, "delete_unit", "work")
    /\ IF InUnit(req[r].unit) # {} THEN Answer(r)
       ELSE KeepUnits(r, [u \in Unit |-> IF u \in After(r) THEN units[u] - 1 ELSE None])
    /\ UNCHANGED <<units, lessons, minted, class, deletion, cache, announced>>

\* The foreign key refuses when a lesson came in meanwhile.
DeleteUnitCommit(r) ==
    /\ Is(r, "delete_unit", "write")
    /\ IF InUnit(req[r].unit) # {} THEN UNCHANGED units
       ELSE units' = [u \in Unit |->
                IF u = req[r].unit THEN None
                ELSE IF req[r].us[u] # None /\ units[u] # None THEN req[r].us[u]
                ELSE units[u]]
    /\ Answer(r)
    /\ UNCHANGED <<lessons, minted, class, deletion, cache, announced>>

-----------------------------------------------------------------------------
(* Lessons.                                                                *)

\* create_lesson: a draft, whose position is how many lessons the unit has.
CreateLessonCount(r, l) ==
    /\ Is(r, "create_lesson", "work")
    /\ l \notin minted
    /\ minted' = minted \cup {l}
    /\ req' = [req EXCEPT ![r].at = "write", ![r].lesson = l,
                 ![r].ls = OnlyLesson(l, [unit |-> req[r].unit,
                                          order |-> Cardinality(InUnit(req[r].unit)),
                                          status |-> "draft",
                                          pages |-> FALSE, activity |-> FALSE])]
    /\ UNCHANGED <<units, lessons, class, deletion, cache, announced>>

CreateLessonCommit(r) ==
    /\ Is(r, "create_lesson", "write")
    /\ IF units[req[r].unit] = None THEN UNCHANGED lessons
       ELSE lessons' = [lessons EXCEPT ![req[r].lesson] = req[r].ls[req[r].lesson]]
    /\ Answer(r)
    /\ UNCHANGED <<units, minted, class, deletion, cache, announced>>

Entity(r) == req[r].ls[req[r].lesson]

\* update_lesson that moves the lesson: the other unit is read...
UpdateLessonUnit(r) ==
    /\ Is(r, "update_lesson", "work")
    /\ req[r].unit # Entity(r).unit
    /\ IF units[req[r].unit] = None THEN Answer(r) ELSE Go(r, "move")
    /\ UNCHANGED <<units, lessons, minted, class, deletion, cache, announced>>

\* ... and when the class may still be edited, the lesson goes to its end.
UpdateLessonMove(r) ==
    /\ Is(r, "update_lesson", "move")
    /\ \E answer \in BOOLEAN :
          /\ Returns(r, answer)
          /\ IF ~answer THEN Answer(r)
             ELSE KeepLessons(r, OnlyLesson(req[r].lesson,
                    [Entity(r) EXCEPT !.unit = req[r].unit,
                                      !.order = Cardinality(InUnit(req[r].unit))]))
    /\ UNCHANGED <<units, lessons, minted, class, deletion, announced>>

\* _keep_complete_if_published, on the lesson as it was read.
KeepsComplete(r, pages, activity) ==
    Entity(r).status = "published" => pages /\ activity

\* update_lesson: its fields, and its pages when they were sent.
UpdateLessonCommitMutant(r) ==
    /\ \/ Is(r, "update_lesson", "work") /\ req[r].unit = Entity(r).unit
       \/ Is(r, "update_lesson", "write")
    /\ LET l == req[r].lesson
           new == [Entity(r) EXCEPT !.pages = IF req[r].save # None THEN req[r].save ELSE @]
       IN  IF lessons[l] # None /\ UnitsStand(req[r].ls)
           THEN lessons' = [lessons EXCEPT ![l] =
                   [new EXCEPT !.activity = lessons[l].activity,
                               !.pages = IF req[r].save # None THEN @ ELSE lessons[l].pages]]
           ELSE UNCHANGED lessons
    /\ Answer(r)
    /\ UNCHANGED <<units, minted, class, deletion, cache, announced>>
UpdateLessonCommit(r) ==
    /\ \/ Is(r, "update_lesson", "work") /\ req[r].unit = Entity(r).unit
       \/ Is(r, "update_lesson", "write")
    /\ LET l == req[r].lesson
           new == [Entity(r) EXCEPT !.pages = IF req[r].save # None THEN req[r].save ELSE @]
       IN  IF /\ KeepsComplete(r, new.pages, new.activity)
              /\ lessons[l] # None /\ UnitsStand(req[r].ls)
           THEN lessons' = [lessons EXCEPT ![l] =
                   [new EXCEPT !.activity = lessons[l].activity,
                               !.pages = IF req[r].save # None THEN @ ELSE lessons[l].pages]]
           ELSE UNCHANGED lessons
    /\ Answer(r)
    /\ UNCHANGED <<units, minted, class, deletion, cache, announced>>

\* set_activity: the questions, replaced whole.
SetActivityCommit(r) ==
    /\ Is(r, "set_activity", "work")
    /\ LET l == req[r].lesson
       IN  IF KeepsComplete(r, Entity(r).pages, req[r].save) /\ lessons[l] # None
           THEN lessons' = [lessons EXCEPT ![l].activity = req[r].save]
           ELSE UNCHANGED lessons
    /\ Answer(r)
    /\ UNCHANGED <<units, minted, class, deletion, cache, announced>>

\* publish: only when nothing was missing in the lesson as it was read.
PublishCommitMutant(r) ==
    /\ Is(r, "publish", "work")
    /\ LET ls == OnlyLesson(req[r].lesson, [Entity(r) EXCEPT !.status = "published"])
       IN  IF Entity(r).pages /\ Entity(r).activity /\ UnitsStand(ls)
           THEN WriteLessons(ls) /\ Go(r, "announce")
           ELSE UNCHANGED lessons /\ Answer(r)
    /\ UNCHANGED <<units, minted, class, deletion, cache, announced>>
PublishCommit(r) ==
    /\ Is(r, "publish", "work")
    /\ LET ls == OnlyLesson(req[r].lesson, [Entity(r) EXCEPT !.status = "published"])
       IN  IF Entity(r).pages /\ Entity(r).activity /\ UnitsStand(ls)
           THEN /\ WriteLessons(ls)
                /\ IF Entity(r).status = "draft" THEN Go(r, "announce") ELSE Answer(r)
           ELSE UNCHANGED lessons /\ Answer(r)
    /\ UNCHANGED <<units, minted, class, deletion, cache, announced>>

\* The first time, the kids of the class and their guardians hear about it.
Announce(r) ==
    /\ Is(r, "publish", "announce")
    /\ announced' = [announced EXCEPT ![req[r].lesson] = IF @ = "never" THEN "once" ELSE "again"]
    /\ Answer(r)
    /\ UNCHANGED <<units, lessons, minted, class, deletion, cache>>

\* reorder_lessons: the request names each lesson of the unit once.
ReorderLessonsRead(r) ==
    /\ Is(r, "reorder_lessons", "work")
    /\ \E p \in Orders(InUnit(req[r].unit)) :
          KeepLessons(r, [l \in Lesson |->
             IF l \in InUnit(req[r].unit) THEN [lessons[l] EXCEPT !.order = p[l]] ELSE None])
    /\ UNCHANGED <<units, lessons, minted, class, deletion, cache, announced>>

ReorderLessonsCommit(r) ==
    /\ Is(r, "reorder_lessons", "write")
    /\ IF UnitsStand(req[r].ls) THEN WriteLessons(req[r].ls) ELSE UNCHANGED lessons
    /\ Answer(r)
    /\ UNCHANGED <<units, minted, class, deletion, cache, announced>>

\* delete_lesson: the lesson goes, the ones after it stay where they are.
DeleteLessonCommit(r) ==
    /\ Is(r, "delete_lesson", "work")
    /\ lessons' = [lessons EXCEPT ![req[r].lesson] = None]
    /\ Answer(r)
    /\ UNCHANGED <<units, minted, class, deletion, cache, announced>>

\* Any step may fail: the transaction is rolled back.
Fail(r) ==
    /\ req[r].at # "idle"
    /\ Answer(r)
    /\ UNCHANGED <<units, lessons, minted, class, deletion, cache, announced>>

-----------------------------------------------------------------------------
(* The class, in classroom-service.                                        *)

Elsewhere == UNCHANGED <<minted, cache, announced, req>>

\* archive_classroom and restore_classroom: also while the class is deleted.
Become(from, to) ==
    /\ class = from
    /\ class' = to
    /\ UNCHANGED <<content, deletion>> /\ Elsewhere

ArchiveClass == Become("open", "archived")
RestoreClass == Become("archived", "open")

\* delete_classroom: an archived class was read.
BeginDeletion ==
    /\ class = "archived" /\ deletion = "none"
    /\ deletion' = "begun"
    /\ UNCHANGED <<content, class>> /\ Elsewhere

\* delete_classroom_lessons, the handler it then calls.
EmptyClass(r) ==
    /\ req[r].at = "idle"
    /\ deletion = "begun"
    /\ deletion' = "emptied"
    /\ lessons' = NoLessons
    /\ units' = NoUnits
    /\ UNCHANGED class /\ Elsewhere

\* Then the class itself goes, whatever became of it meanwhile...
DropClass ==
    /\ deletion = "emptied"
    /\ class' = "deleted" /\ deletion' = "none"
    /\ UNCHANGED content /\ Elsewhere

\* ... or one of the two calls fails and the class stays.
KeepClass ==
    /\ deletion # "none"
    /\ deletion' = "none"
    /\ UNCHANGED <<content, class>> /\ Elsewhere

Step(r) ==
    \/ Begin(r)
    \/ Ask(r)
    \/ PassOwner(r)
    \/ PassEditor(r)
    \/ \E u \in Unit : CreateUnitCount(r, u)
    \/ CreateUnitCommit(r)
    \/ UpdateUnitCommit(r)
    \/ ReorderUnitsRead(r)
    \/ ReorderUnitsCommit(r)
    \/ DeleteUnitRows(r)
    \/ DeleteUnitCommit(r)
    \/ \E l \in Lesson : CreateLessonCount(r, l)
    \/ CreateLessonCommit(r)
    \/ UpdateLessonUnit(r)
    \/ UpdateLessonMove(r)
    \/ UpdateLessonCommit(r)
    \/ SetActivityCommit(r)
    \/ PublishCommit(r)
    \/ Announce(r)
    \/ ReorderLessonsRead(r)
    \/ ReorderLessonsCommit(r)
    \/ DeleteLessonCommit(r)
    \/ Fail(r)

Next ==
    \/ \E r \in Request : Step(r)
    \/ \E role \in {"teacher", "editor"} : Forget(role)
    \/ ArchiveClass
    \/ RestoreClass
    \/ BeginDeletion
    \/ \E r \in Request : EmptyClass(r)
    \/ DropClass
    \/ KeepClass

Spec == Init /\ [][Next]_vars
=============================================================================
