-------------------------- MODULE ContentProperties --------------------------
(***************************************************************************)
(* What content-service must get right.  The first part holds however the  *)
(* handlers interleave; the second when they run one at a time.            *)
(***************************************************************************)
EXTENDS ContentService

Slot == [op : Op, at : Phase, reply : BOOLEAN \cup {None}, unit : Unit \cup {None},
         lesson : Lesson \cup {None}, save : BOOLEAN \cup {None},
         us : [Unit -> Nat \cup {None}], ls : [Lesson -> LessonRow \cup {None}]]

\* Type correctness of the tables, the cached answers and the handlers.
TypeOK ==
    /\ units \in [Unit -> Nat \cup {None}]
    /\ lessons \in [Lesson -> LessonRow \cup {None}]
    /\ minted \subseteq Unit \cup Lesson
    /\ class \in {"open", "archived", "deleted"}
    /\ deletion \in {"none", "begun", "emptied"}
    /\ cache \in [{"teacher", "editor"} -> BOOLEAN \cup {None}]
    /\ announced \in [Lesson -> {"never", "once", "again"}]
    /\ req \in [Request -> Slot]

-----------------------------------------------------------------------------
(* However the handlers interleave.                                        *)

\* Every lesson is in a unit that exists, although a handler moves it with what
\* it read before another one deleted the unit.
LessonsHaveUnits ==
    \A l \in Lesson : lessons[l] # None => units[lessons[l].unit] # None

\* What was deleted stays deleted: no handler that still holds the entity of a
\* unit or a lesson brings it back.
DeletedStaysDeleted ==
    [][/\ \A u \in Unit \cap minted : units'[u] # None =>
             \/ units[u] # None
             \/ \E r \in Request : Is(r, "create_unit", "write") /\ req[r].unit = u
       /\ \A l \in Lesson \cap minted : lessons'[l] # None =>
             \/ lessons[l] # None
             \/ \E r \in Request : Is(r, "create_lesson", "write") /\ req[r].lesson = l]_vars

\* Once the class is closed, the cached yes has expired, no yes is on its way
\* and the handlers that got one have ended, nobody edits the class: only its
\* deletion empties it.
Frozen ==
    /\ class # "open"
    /\ cache["editor"] # TRUE
    /\ \A r \in Request : /\ req[r].at \in {"idle", "owner", "editor", "announce"}
                          /\ req[r].at = "editor" => req[r].reply # TRUE

ClosedClassIsFrozen ==
    [][Frozen => /\ class' # "open" => Frozen'
                 /\ UNCHANGED content \/ (deletion = "begun" /\ deletion' = "emptied")]_vars

-----------------------------------------------------------------------------
(* One handler at a time.                                                  *)

\* The units of the class are in order: their positions are 0, 1, 2...
UnitsInOrder ==
    \A i \in 0 .. Cardinality(Existing) - 1 : \E u \in Existing : units[u] = i

\* Kids already see a published lesson, so it can only be saved whole.
PublishedIsComplete ==
    \A l \in Lesson :
        lessons[l] # None /\ lessons[l].status = "published" =>
            lessons[l].pages /\ lessons[l].activity

\* The class hears about a lesson once, the first time it is published.
AnnouncedOnce == \A l \in Lesson : announced[l] # "again"

\* No lesson is left without its class.
NoLessonWithoutItsClass ==
    class = "deleted" => \A l \in Lesson : lessons[l] = None

\* A lesson is created at the end of its unit: none comes after it.
NewLessonIsLast ==
    [][\A l \in Lesson : lessons[l] = None /\ lessons'[l] # None =>
          \A k \in InUnit(lessons'[l].unit) : lessons[k].order <= lessons'[l].order]_vars
=============================================================================
