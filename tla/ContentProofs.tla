---------------------------- MODULE ContentProofs ----------------------------
(***************************************************************************)
(* Proofs about ContentService, for any number of units and lessons: first *)
(* for any number of handlers in flight, then for one at a time.           *)
(***************************************************************************)
EXTENDS ContentProperties, FiniteSetTheorems, TLAPS

\* The part of the type invariant about the tables.
Tables ==
    /\ units \in [Unit -> Nat \cup {None}]
    /\ lessons \in [Lesson -> LessonRow \cup {None}]
    /\ minted \subseteq Unit \cup Lesson
    /\ class \in {"open", "archived", "deleted"}
    /\ deletion \in {"none", "begun", "emptied"}
    /\ cache \in [{"teacher", "editor"} -> BOOLEAN \cup {None}]
    /\ announced \in [Lesson -> {"never", "once", "again"}]

\* What a handler holds, by use case: the ids its request names, and the
\* entities it read under them.
Holds(q) ==
    /\ q.op \in {"update_unit", "delete_unit", "create_lesson", "reorder_lessons", "update_lesson"}
          => q.unit \in Unit
    /\ q.op = "create_unit" /\ q.at = "write" => q.unit \in Unit /\ q.us[q.unit] \in Nat
    /\ q.op = "delete_unit" /\ q.at # "write" => q.us[q.unit] \in Nat
    /\ q.op \in {"update_lesson", "set_activity", "publish", "delete_lesson"}
          => q.lesson \in Lesson /\ q.ls[q.lesson] \in LessonRow
    /\ q.op = "create_lesson" /\ q.at = "write"
          => q.lesson \in Lesson /\ q.ls[q.lesson] \in LessonRow /\ q.ls[q.lesson].unit = q.unit
    /\ q.op = "set_activity" => q.save \in BOOLEAN

SlotsOK(q) == q \in [Request -> Slot] /\ \A r \in Request : Holds(q[r])

IInv == Tables /\ SlotsOK(req) /\ LessonsHaveUnits

\* What DeletedStaysDeleted asks of a step.
NothingComesBack ==
    /\ \A u \in Unit \cap minted : units'[u] # None =>
          units[u] # None \/ \E r \in Request : Is(r, "create_unit", "write") /\ req[r].unit = u
    /\ \A l \in Lesson \cap minted : lessons'[l] # None =>
          lessons[l] # None \/ \E r \in Request : Is(r, "create_lesson", "write") /\ req[r].lesson = l

-----------------------------------------------------------------------------
(* Slots.                                                                  *)

\* A well-typed handler in one slot keeps all the slots well typed.
LEMMA Fill ==
    ASSUME IInv, NEW r \in Request, NEW slot \in Slot, Holds(slot),
           req' = [req EXCEPT ![r] = slot]
    PROVE  SlotsOK(req)'
BY DEF IInv, SlotsOK

\* What the slot of a handler holds, spelt out.
LEMMA SlotFacts ==
    ASSUME IInv, NEW r \in Request
    PROVE  /\ req[r] \in Slot /\ Holds(req[r])
           /\ req[r].us \in [Unit -> Nat \cup {None}]
           /\ req[r].ls \in [Lesson -> LessonRow \cup {None}]
           /\ req[r].save \in BOOLEAN \cup {None}
BY DEF IInv, SlotsOK, Slot

\* A handler that answers leaves its slot empty.
LEMMA AnswerFills == ASSUME IInv, NEW r \in Request, Answer(r) PROVE SlotsOK(req)'
<1>1. IdleSlot \in Slot /\ Holds(IdleSlot)
  BY DEF IdleSlot, Slot, Op, Phase, Holds, NoUnits, NoLessons
<1> QED
  BY <1>1, Fill DEF Answer

\* A handler that moves on without new entities.
LEMMA GoFills ==
    ASSUME IInv, NEW r \in Request, NEW at \in Phase \ {"write"}, Go(r, at), req[r].at # "write"
    PROVE  SlotsOK(req)'
<1> DEFINE slot == [req[r] EXCEPT !.at = at, !.reply = None]
<1>1. slot \in Slot /\ Holds(slot)
  BY SlotFacts DEF Slot, Holds
<1>2. req' = [req EXCEPT ![r] = slot]
  BY DEF Go, IInv, SlotsOK
<1> QED
  BY <1>1, <1>2, Fill

\* A step that changes no table.
LEMMA SlotOnly ==
    ASSUME IInv, SlotsOK(req)', Tables', UNCHANGED content
    PROVE  IInv' /\ NothingComesBack
<1>1. LessonsHaveUnits'
  BY DEF IInv, LessonsHaveUnits, content
<1> QED
  BY <1>1 DEF IInv, NothingComesBack, content

\* An answer of classroom-service, or of the cache, keeps the cache well typed.
LEMMA ReturnsTypes ==
    ASSUME IInv, NEW r \in Request, NEW answer \in BOOLEAN, Returns(r, answer)
    PROVE  cache' \in [{"teacher", "editor"} -> BOOLEAN \cup {None}]
BY DEF IInv, Tables, Returns

\* A subset of the units, or of the lessons, can be counted.
LEMMA Counting ==
    /\ Cardinality(Existing) \in Nat
    /\ \A u : Cardinality(InUnit(u)) \in Nat
<1>1. Existing \subseteq Unit /\ \A u : InUnit(u) \subseteq Lesson
  BY DEF Existing, InUnit
<1> QED
  BY <1>1, FS_Subset, FS_CardinalityType, ContentAssumption

\* A handler that keeps the units it will write.
LEMMA KeepUnitsFills ==
    ASSUME IInv, NEW r \in Request, NEW us \in [Unit -> Nat \cup {None}], KeepUnits(r, us),
           req[r].op \in {"reorder_units", "delete_unit"}
    PROVE  SlotsOK(req)'
<1> DEFINE slot == [req[r] EXCEPT !.at = "write", !.us = us]
<1>1. slot \in Slot /\ Holds(slot)
  BY SlotFacts DEF Slot, Holds, Phase
<1>2. req' = [req EXCEPT ![r] = slot]
  BY DEF KeepUnits, IInv, SlotsOK
<1> QED
  BY <1>1, <1>2, Fill

\* A handler that keeps the lessons it will write.
LEMMA KeepLessonsFills ==
    ASSUME IInv, NEW r \in Request, NEW ls \in [Lesson -> LessonRow \cup {None}],
           KeepLessons(r, ls),
           \/ req[r].op = "reorder_lessons"
           \/ req[r].op = "update_lesson" /\ ls[req[r].lesson] \in LessonRow
    PROVE  SlotsOK(req)'
<1> DEFINE slot == [req[r] EXCEPT !.at = "write", !.reply = None, !.ls = ls]
<1>1. slot \in Slot /\ Holds(slot)
  BY SlotFacts DEF Slot, Holds, Phase
<1>2. req' = [req EXCEPT ![r] = slot]
  BY DEF KeepLessons, IInv, SlotsOK
<1> QED
  BY <1>1, <1>2, Fill

-----------------------------------------------------------------------------
(* Tables.                                                                 *)

\* A step after which no row is there that was not there before.
LEMMA NothingNew ==
    ASSUME Tables', SlotsOK(req)', LessonsHaveUnits',
           \A u \in Unit : units'[u] # None => units[u] # None,
           \A l \in Lesson : lessons'[l] # None => lessons[l] # None
    PROVE  IInv' /\ NothingComesBack
BY DEF IInv, NothingComesBack

\* Lessons that are written keep their units, when the foreign key holds.
LEMMA WriteLessonsKeeps ==
    ASSUME IInv, NEW ls \in [Lesson -> LessonRow \cup {None}],
           WriteLessons(ls), UnitsStand(ls), UNCHANGED units
    PROVE  /\ lessons' \in [Lesson -> LessonRow \cup {None}]
           /\ LessonsHaveUnits'
           /\ \A l \in Lesson : lessons'[l] # None => lessons[l] # None
<1>1. \A l \in Lesson : lessons[l] # None => lessons[l] \in LessonRow
  BY DEF IInv, Tables
<1>2. \A l \in Lesson : ls[l] # None => ls[l] \in LessonRow
  OBVIOUS
<1>3. None \notin LessonRow
  BY ContentAssumption DEF LessonRow
<1>4. ASSUME NEW l \in Lesson
      PROVE  /\ lessons'[l] \in LessonRow \cup {None}
             /\ lessons'[l] # None => lessons[l] # None /\ units[lessons'[l].unit] # None
  <2>1. CASE ls[l] # None /\ lessons[l] # None
    <3>1. lessons'[l] = [lessons[l] EXCEPT !.unit = ls[l].unit, !.order = ls[l].order,
                                           !.status = ls[l].status]
      BY <2>1 DEF WriteLessons
    <3>2. lessons'[l] \in LessonRow /\ lessons'[l].unit = ls[l].unit
      BY <1>1, <1>2, <2>1, <3>1 DEF LessonRow
    <3> QED
      BY <2>1, <3>2 DEF UnitsStand
  <2>2. CASE ~(ls[l] # None /\ lessons[l] # None)
    BY <2>2 DEF WriteLessons, IInv, Tables, LessonsHaveUnits
  <2> QED
    BY <2>1, <2>2
<1>5. lessons' = [l \in Lesson |-> lessons'[l]]
  BY DEF WriteLessons
<1> QED
  BY <1>4, <1>5 DEF LessonsHaveUnits

\* Units that are written are the units that were there.
LEMMA WriteUnitsKeeps ==
    ASSUME IInv, NEW us \in [Unit -> Nat \cup {None}], WriteUnits(us), UNCHANGED lessons
    PROVE  /\ units' \in [Unit -> Nat \cup {None}]
           /\ \A u \in Unit : units'[u] # None <=> units[u] # None
           /\ LessonsHaveUnits'
<1>1. /\ units' \in [Unit -> Nat \cup {None}]
      /\ \A u \in Unit : units'[u] # None <=> units[u] # None
  BY DEF WriteUnits, IInv, Tables
<1>2. \A l \in Lesson : lessons[l] # None => lessons[l].unit \in Unit
  BY DEF IInv, Tables, LessonRow
<1> QED
  BY <1>1, <1>2 DEF LessonsHaveUnits, IInv

-----------------------------------------------------------------------------
(* One lemma per action.                                                   *)

\* A request puts a well-typed handler in a slot.
LEMMA StartFills ==
    ASSUME IInv, NEW r \in Request, NEW op \in Op, NEW at \in {"owner", "editor"},
           NEW u \in Unit \cup {None}, NEW l \in Lesson \cup {None},
           NEW save \in BOOLEAN \cup {None},
           NEW us \in [Unit -> Nat \cup {None}], NEW ls \in [Lesson -> LessonRow \cup {None}],
           Holds([op |-> op, at |-> at, reply |-> None, unit |-> u, lesson |-> l, save |-> save,
                  us |-> us, ls |-> ls]),
           Start(r, op, at, u, l, save, us, ls)
    PROVE  IInv' /\ NothingComesBack
<1> DEFINE slot == [op |-> op, at |-> at, reply |-> None, unit |-> u, lesson |-> l, save |-> save,
                    us |-> us, ls |-> ls]
<1>1. slot \in Slot
  BY DEF Slot, Phase
<1>2. SlotsOK(req)'
  BY <1>1, Fill DEF Start
<1>3. Tables' /\ UNCHANGED content
  BY DEF Start, IInv, Tables, content
<1> QED
  BY <1>2, <1>3, SlotOnly

\* Every request a handler may begin with.
LEMMA BeginKeeps ==
    ASSUME IInv, NEW r \in Request, Begin(r) PROVE IInv' /\ NothingComesBack
<1>1. NoUnits \in [Unit -> Nat \cup {None}] /\ NoLessons \in [Lesson -> LessonRow \cup {None}]
  BY DEF NoUnits, NoLessons
<1>2. ASSUME NEW op \in {"create_unit", "reorder_units"}, OnClass(r, op)
      PROVE  IInv' /\ NothingComesBack
  BY <1>1, <1>2, StartFills DEF OnClass, Op, Holds
<1>3. ASSUME NEW u \in Unit,
             NEW op \in {"update_unit", "delete_unit", "create_lesson", "reorder_lessons"},
             OnUnit(r, op, u)
      PROVE  IInv' /\ NothingComesBack
  <2> DEFINE us == IF op \in {"update_unit", "delete_unit"}
                   THEN OnlyUnit(u, units[u]) ELSE NoUnits
  <2>1. us \in [Unit -> Nat \cup {None}] /\ (op = "delete_unit" => us[u] \in Nat)
    BY <1>1, <1>3 DEF OnUnit, OnlyUnit, IInv, Tables
  <2>2. Holds([op |-> op, at |-> "editor", reply |-> None, unit |-> u, lesson |-> None, save |-> None,
               us |-> us, ls |-> NoLessons])
    BY <2>1 DEF Holds
  <2>3. Start(r, op, "editor", u, None, None, us, NoLessons) /\ op \in Op
    BY <1>3 DEF OnUnit, Op
  <2> HIDE DEF us
  <2> QED
    BY <1>1, <2>1, <2>2, <2>3, StartFills
<1>4. ASSUME NEW op \in {"update_lesson", "set_activity", "publish", "delete_lesson"},
             NEW l \in Lesson, NEW u \in Unit \cup {None}, NEW save \in BOOLEAN \cup {None},
             op = "update_lesson" => u \in Unit, op = "set_activity" => save \in BOOLEAN,
             OnLesson(r, op, l, u, save)
      PROVE  IInv' /\ NothingComesBack
  <2> DEFINE ls == OnlyLesson(l, lessons[l])
  <2>1. ls \in [Lesson -> LessonRow \cup {None}] /\ ls[l] \in LessonRow
    BY <1>4 DEF OnLesson, OnlyLesson, IInv, Tables
  <2>2. Holds([op |-> op, at |-> "editor", reply |-> None, unit |-> u, lesson |-> l, save |-> save,
               us |-> NoUnits, ls |-> ls])
    BY <1>4, <2>1 DEF Holds
  <2>3. Start(r, op, "editor", u, l, save, NoUnits, ls) /\ op \in Op
    BY <1>4 DEF OnLesson, Op
  <2> HIDE DEF ls
  <2> QED
    BY <1>1, <2>1, <2>2, <2>3, StartFills
<1> QED
  BY <1>2, <1>3, <1>4, ContentAssumption DEF Begin

\* classroom-service decides, and its answer is on its way.
LEMMA AskKeeps ==
    ASSUME IInv, NEW r \in Request, Ask(r) PROVE IInv' /\ NothingComesBack
<1> DEFINE slot == [req[r] EXCEPT !.reply = Access(Role(r))]
<1>1. Access(Role(r)) \in BOOLEAN
  BY DEF Access
<1>2. slot \in Slot /\ Holds(slot)
  BY <1>1, SlotFacts DEF Slot, Holds
<1>3. req' = [req EXCEPT ![r] = slot]
  BY DEF Ask, IInv, SlotsOK
<1>4. Tables' /\ UNCHANGED content
  BY DEF Ask, IInv, Tables, content
<1> QED
  BY <1>2, <1>3, <1>4, Fill, SlotOnly

\* The handler gets an answer, and goes on or ends.
LEMMA PassOwnerKeeps ==
    ASSUME IInv, NEW r \in Request, PassOwner(r) PROVE IInv' /\ NothingComesBack
<1>1. PICK answer \in BOOLEAN :
         Returns(r, answer) /\ IF answer THEN Go(r, "editor") ELSE Answer(r)
  BY DEF PassOwner
<1>2. SlotsOK(req)'
  BY <1>1, GoFills, AnswerFills DEF PassOwner, Phase
<1>3. Tables' /\ UNCHANGED content
  BY <1>1, ReturnsTypes DEF PassOwner, IInv, Tables, content
<1> QED
  BY <1>2, <1>3, SlotOnly

\* The handler gets an answer, and goes on or ends.
LEMMA PassEditorKeeps ==
    ASSUME IInv, NEW r \in Request, PassEditor(r) PROVE IInv' /\ NothingComesBack
<1>1. PICK answer \in BOOLEAN :
         Returns(r, answer) /\ IF answer THEN Go(r, "work") ELSE Answer(r)
  BY DEF PassEditor
<1>2. SlotsOK(req)'
  BY <1>1, GoFills, AnswerFills DEF PassEditor, Phase
<1>3. Tables' /\ UNCHANGED content
  BY <1>1, ReturnsTypes DEF PassEditor, IInv, Tables, content
<1> QED
  BY <1>2, <1>3, SlotOnly

\* create_unit counts the units and takes an id that was never given.
LEMMA CreateUnitCountKeeps ==
    ASSUME IInv, NEW r \in Request, NEW u \in Unit, CreateUnitCount(r, u)
    PROVE  IInv' /\ NothingComesBack
<1> DEFINE us == OnlyUnit(u, Cardinality(Existing))
           slot == [req[r] EXCEPT !.at = "write", !.unit = u, !.us = us]
<1>1. us \in [Unit -> Nat \cup {None}] /\ us[u] \in Nat
  BY Counting DEF OnlyUnit
<1>2. slot \in Slot /\ Holds(slot)
  BY <1>1, SlotFacts DEF Slot, Holds, Phase, CreateUnitCount, Is
<1>3. req' = [req EXCEPT ![r] = slot]
  BY DEF CreateUnitCount, IInv, SlotsOK
<1>4. Tables' /\ UNCHANGED content
  BY DEF CreateUnitCount, IInv, Tables, content
<1> QED
  BY <1>2, <1>3, <1>4, Fill, SlotOnly

\* create_unit inserts its unit.
LEMMA CreateUnitCommitKeeps ==
    ASSUME IInv, NEW r \in Request, CreateUnitCommit(r) PROVE IInv' /\ NothingComesBack
<1> DEFINE u == req[r].unit
<1>1. /\ u \in Unit /\ req[r].us[u] \in Nat
      /\ lessons' = lessons
      /\ units' = [units EXCEPT ![u] = req[r].us[u]]
  BY SlotFacts DEF CreateUnitCommit, Is, Holds
<1>2. units' \in [Unit -> Nat \cup {None}]
  BY <1>1 DEF IInv, Tables
<1>3. Tables'
  BY <1>1, <1>2 DEF CreateUnitCommit, IInv, Tables
<1>4. LessonsHaveUnits' /\ NothingComesBack
  <2>1. \A x \in Unit : units[x] # None => units'[x] # None
    BY <1>1, ContentAssumption DEF IInv, Tables
  <2>2. \A l \in Lesson : lessons[l] # None => lessons[l].unit \in Unit
    BY DEF IInv, Tables, LessonRow
  <2>3. LessonsHaveUnits'
    BY <1>1, <2>1, <2>2 DEF IInv, LessonsHaveUnits
  <2>4. NothingComesBack
    BY <1>1 DEF CreateUnitCommit, IInv, Tables, NothingComesBack
  <2> QED
    BY <2>3, <2>4
<1> QED
  BY <1>3, <1>4, AnswerFills DEF CreateUnitCommit, IInv

\* update_unit and reorder_units write positions of units that are there.
LEMMA UnitPositionsKeep ==
    ASSUME IInv, NEW r \in Request,
           UpdateUnitCommit(r) \/ ReorderUnitsCommit(r)
    PROVE  IInv' /\ NothingComesBack
<1>1. /\ req[r].us \in [Unit -> Nat \cup {None}]
      /\ WriteUnits(req[r].us) /\ Answer(r)
      /\ UNCHANGED <<lessons, minted, class, deletion, cache, announced>>
  BY SlotFacts DEF UpdateUnitCommit, ReorderUnitsCommit
<1>2. /\ units' \in [Unit -> Nat \cup {None}]
      /\ \A u \in Unit : units'[u] # None <=> units[u] # None
      /\ LessonsHaveUnits'
  BY <1>1, WriteUnitsKeeps
<1>3. Tables'
  BY <1>1, <1>2 DEF IInv, Tables
<1> QED
  BY <1>1, <1>2, <1>3, AnswerFills, NothingNew

\* reorder_units reads the units it will write.
LEMMA ReorderUnitsReadKeeps ==
    ASSUME IInv, NEW r \in Request, ReorderUnitsRead(r) PROVE IInv' /\ NothingComesBack
<1>1. PICK p \in Orders(Existing) :
         KeepUnits(r, [u \in Unit |-> IF u \in Existing THEN p[u] ELSE None])
  BY DEF ReorderUnitsRead
<1> DEFINE us == [u \in Unit |-> IF u \in Existing THEN p[u] ELSE None]
<1>2. us \in [Unit -> Nat \cup {None}]
  BY Counting DEF Orders
<1>3. SlotsOK(req)'
  BY <1>1, <1>2, KeepUnitsFills DEF ReorderUnitsRead, Is
<1>4. Tables' /\ UNCHANGED content
  BY DEF ReorderUnitsRead, IInv, Tables, content
<1> QED
  BY <1>3, <1>4, SlotOnly

\* delete_unit reads the units it will move up: they come after one that is at
\* a position, so none moves above the first.
LEMMA DeleteUnitRowsKeeps ==
    ASSUME IInv, NEW r \in Request, DeleteUnitRows(r) PROVE IInv' /\ NothingComesBack
<1> DEFINE us == [u \in Unit |-> IF u \in After(r) THEN units[u] - 1 ELSE None]
<1>1. req[r].us[req[r].unit] \in Nat
  BY SlotFacts DEF DeleteUnitRows, Is, Holds
<1>2. \A u \in After(r) : units[u] \in Nat /\ units[u] > req[r].us[req[r].unit]
  BY DEF After, Existing, IInv, Tables
<1>3. us \in [Unit -> Nat \cup {None}]
  BY <1>1, <1>2
<1>4. SlotsOK(req)'
  BY <1>3, KeepUnitsFills, AnswerFills DEF DeleteUnitRows, Is
<1>5. Tables' /\ UNCHANGED content
  BY DEF DeleteUnitRows, IInv, Tables, content
<1> QED
  BY <1>4, <1>5, SlotOnly

\* delete_unit takes a unit away only when no lesson is in it.
LEMMA DeleteUnitCommitKeeps ==
    ASSUME IInv, NEW r \in Request, DeleteUnitCommit(r) PROVE IInv' /\ NothingComesBack
<1>1. req[r].us \in [Unit -> Nat \cup {None}] /\ lessons' = lessons
  BY SlotFacts DEF DeleteUnitCommit
<1>2. CASE InUnit(req[r].unit) # {}
  <2>1. Tables' /\ UNCHANGED content
    BY <1>2 DEF DeleteUnitCommit, IInv, Tables, content
  <2> QED
    BY <2>1, AnswerFills, SlotOnly DEF DeleteUnitCommit
<1>3. CASE InUnit(req[r].unit) = {}
  <2>1. units' = [u \in Unit |->
                IF u = req[r].unit THEN None
                ELSE IF req[r].us[u] # None /\ units[u] # None THEN req[r].us[u]
                ELSE units[u]]
    BY <1>3 DEF DeleteUnitCommit
  <2>2. Tables'
    BY <1>1, <2>1 DEF DeleteUnitCommit, IInv, Tables
  <2>3. \A u \in Unit : /\ units'[u] # None => units[u] # None
                        /\ u # req[r].unit /\ units[u] # None => units'[u] # None
    BY <2>1
  <2>4. \A l \in Lesson : lessons[l] # None =>
           lessons[l].unit \in Unit /\ lessons[l].unit # req[r].unit
    BY <1>3 DEF InUnit, IInv, Tables, LessonRow
  <2>5. LessonsHaveUnits'
    BY <1>1, <2>3, <2>4 DEF IInv, LessonsHaveUnits
  <2> QED
    BY <1>1, <2>2, <2>3, <2>5, AnswerFills, NothingNew DEF DeleteUnitCommit
<1> QED
  BY <1>2, <1>3

\* create_lesson counts the lessons of its unit and takes a new id.
LEMMA CreateLessonCountKeeps ==
    ASSUME IInv, NEW r \in Request, NEW l \in Lesson, CreateLessonCount(r, l)
    PROVE  IInv' /\ NothingComesBack
<1> DEFINE row == [unit |-> req[r].unit, order |-> Cardinality(InUnit(req[r].unit)),
                   status |-> "draft", pages |-> FALSE, activity |-> FALSE]
           ls == OnlyLesson(l, row)
           slot == [req[r] EXCEPT !.at = "write", !.lesson = l, !.ls = ls]
<1>1. row \in LessonRow
  BY Counting, SlotFacts DEF LessonRow, CreateLessonCount, Is, Holds
<1>2. ls \in [Lesson -> LessonRow \cup {None}] /\ ls[l] = row
  BY <1>1 DEF OnlyLesson
<1>3. slot \in Slot
  BY <1>2, SlotFacts DEF Slot, Phase
<1>4. slot.op = "create_lesson" /\ slot.unit = req[r].unit /\ req[r].unit \in Unit
  BY SlotFacts DEF Slot, CreateLessonCount, Is, Holds
<1>5. slot.lesson = l /\ slot.ls[l] = row
  BY <1>2, SlotFacts DEF Slot
<1>6. row.unit = req[r].unit
  OBVIOUS
<1>7. Holds(slot)
  BY <1>1, <1>4, <1>5, <1>6 DEF Holds
<1>8. req' = [req EXCEPT ![r] = slot]
  BY DEF CreateLessonCount, IInv, SlotsOK
<1>9. Tables' /\ UNCHANGED content
  BY DEF CreateLessonCount, IInv, Tables, content
<1> QED
  BY <1>3, <1>7, <1>8, <1>9, Fill, SlotOnly

\* create_lesson inserts its lesson when its unit is still there.
LEMMA CreateLessonCommitKeeps ==
    ASSUME IInv, NEW r \in Request, CreateLessonCommit(r) PROVE IInv' /\ NothingComesBack
<1> DEFINE l == req[r].lesson
<1>1. /\ l \in Lesson /\ req[r].ls[l] \in LessonRow /\ req[r].ls[l].unit = req[r].unit
      /\ units' = units
  BY SlotFacts DEF CreateLessonCommit, Is, Holds
<1>2. lessons' \in [Lesson -> LessonRow \cup {None}]
  BY <1>1 DEF CreateLessonCommit, IInv, Tables
<1>3. Tables'
  BY <1>1, <1>2 DEF CreateLessonCommit, IInv, Tables
<1>4. LessonsHaveUnits'
  BY <1>1 DEF CreateLessonCommit, IInv, Tables, LessonsHaveUnits
<1>5. NothingComesBack
  BY <1>1 DEF CreateLessonCommit, IInv, Tables, NothingComesBack
<1> QED
  BY <1>3, <1>4, <1>5, AnswerFills DEF CreateLessonCommit, IInv

\* update_lesson reads the unit it moves the lesson to.
LEMMA UpdateLessonUnitKeeps ==
    ASSUME IInv, NEW r \in Request, UpdateLessonUnit(r) PROVE IInv' /\ NothingComesBack
<1>1. SlotsOK(req)'
  BY GoFills, AnswerFills DEF UpdateLessonUnit, Is, Phase
<1>2. Tables' /\ UNCHANGED content
  BY DEF UpdateLessonUnit, IInv, Tables, content
<1> QED
  BY <1>1, <1>2, SlotOnly

\* update_lesson moves the lesson it read to the end of another unit.
LEMMA UpdateLessonMoveKeeps ==
    ASSUME IInv, NEW r \in Request, UpdateLessonMove(r) PROVE IInv' /\ NothingComesBack
<1> DEFINE row == [Entity(r) EXCEPT !.unit = req[r].unit,
                                    !.order = Cardinality(InUnit(req[r].unit))]
           ls == OnlyLesson(req[r].lesson, row)
<1>1. /\ req[r].op = "update_lesson"
      /\ req[r].lesson \in Lesson /\ Entity(r) \in LessonRow /\ req[r].unit \in Unit
  BY SlotFacts DEF UpdateLessonMove, Is, Holds, Entity
<1>2. row \in LessonRow
  BY <1>1, Counting DEF LessonRow
<1>3. ls \in [Lesson -> LessonRow \cup {None}] /\ ls[req[r].lesson] \in LessonRow
  BY <1>1, <1>2 DEF OnlyLesson
<1>4. PICK answer \in BOOLEAN :
         Returns(r, answer) /\ IF ~answer THEN Answer(r) ELSE KeepLessons(r, ls)
  BY DEF UpdateLessonMove
<1>5. SlotsOK(req)'
  BY <1>1, <1>3, <1>4, AnswerFills, KeepLessonsFills
<1>6. Tables' /\ UNCHANGED content
  BY <1>4, ReturnsTypes DEF UpdateLessonMove, IInv, Tables, content
<1> QED
  BY <1>5, <1>6, SlotOnly

\* A step that changes one lesson that is there, and leaves it in a unit that
\* is there too.
LEMMA OneLesson ==
    ASSUME IInv, NEW l \in Lesson, lessons[l] # None,
           NEW row \in LessonRow, units[row.unit] # None,
           lessons' = [lessons EXCEPT ![l] = row],
           SlotsOK(req)', UNCHANGED <<units, minted, class, deletion, cache, announced>>
    PROVE  IInv' /\ NothingComesBack
<1>1. Tables'
  BY DEF IInv, Tables
<1>2. LessonsHaveUnits' /\ \A x \in Lesson : lessons'[x] # None => lessons[x] # None
  BY DEF IInv, Tables, LessonsHaveUnits
<1> QED
  BY <1>1, <1>2, NothingNew

\* update_lesson writes the lesson it read, unless it or its unit is gone.
LEMMA UpdateLessonCommitKeeps ==
    ASSUME IInv, NEW r \in Request, UpdateLessonCommit(r) PROVE IInv' /\ NothingComesBack
<1> DEFINE l == req[r].lesson
           new == [Entity(r) EXCEPT !.pages = IF req[r].save # None THEN req[r].save ELSE @]
           row == [new EXCEPT !.activity = lessons[l].activity,
                              !.pages = IF req[r].save # None THEN @ ELSE lessons[l].pages]
<1>1. l \in Lesson /\ Entity(r) \in LessonRow /\ Entity(r) = req[r].ls[l]
  BY SlotFacts DEF UpdateLessonCommit, Is, Holds, Entity
<1>2. SlotsOK(req)' /\ UNCHANGED <<units, minted, class, deletion, cache, announced>>
  BY AnswerFills DEF UpdateLessonCommit
<1>3. CASE lessons' = lessons
  BY <1>2, <1>3, SlotOnly DEF IInv, Tables, content
<1>4. CASE /\ lessons[l] # None /\ UnitsStand(req[r].ls)
           /\ lessons' = [lessons EXCEPT ![l] = row]
  <2>1. lessons[l] \in LessonRow /\ req[r].save \in BOOLEAN \cup {None}
    BY <1>1, <1>4, SlotFacts DEF IInv, Tables
  <2>2. new \in LessonRow /\ new.unit = Entity(r).unit
    BY <1>1, <2>1 DEF LessonRow
  <2>3. row \in LessonRow /\ row.unit = Entity(r).unit
    BY <2>1, <2>2 DEF LessonRow
  <2>4. None \notin LessonRow
    BY ContentAssumption DEF LessonRow
  <2>5. units[row.unit] # None
    BY <1>1, <1>4, <2>3, <2>4 DEF UnitsStand
  <2> HIDE DEF new, row
  <2> QED
    BY <1>1, <1>2, <1>4, <2>3, <2>5, OneLesson
<1> QED
  BY <1>3, <1>4 DEF UpdateLessonCommit

\* set_activity replaces the activity of a lesson that is there.
LEMMA SetActivityCommitKeeps ==
    ASSUME IInv, NEW r \in Request, SetActivityCommit(r) PROVE IInv' /\ NothingComesBack
<1> DEFINE l == req[r].lesson
           row == [lessons[l] EXCEPT !.activity = req[r].save]
<1>1. l \in Lesson /\ req[r].save \in BOOLEAN
  BY SlotFacts DEF SetActivityCommit, Is, Holds
<1>2. SlotsOK(req)' /\ UNCHANGED <<units, minted, class, deletion, cache, announced>>
  BY AnswerFills DEF SetActivityCommit
<1>3. CASE lessons' = lessons
  BY <1>2, <1>3, SlotOnly DEF IInv, Tables, content
<1>4. CASE lessons[l] # None /\ lessons' = [lessons EXCEPT ![l].activity = req[r].save]
  <2>1. lessons[l] \in LessonRow
    BY <1>1, <1>4 DEF IInv, Tables
  <2>2. row \in LessonRow /\ row.unit = lessons[l].unit
    BY <1>1, <2>1 DEF LessonRow
  <2>3. units[row.unit] # None
    BY <1>1, <1>4, <2>2 DEF IInv, LessonsHaveUnits
  <2>4. lessons' = [lessons EXCEPT ![l] = row]
    BY <1>4 DEF IInv, Tables
  <2> HIDE DEF row
  <2> QED
    BY <1>1, <1>2, <1>4, <2>2, <2>3, <2>4, OneLesson
<1> QED
  BY <1>3, <1>4 DEF SetActivityCommit

\* publish writes back the lesson it read, as published.
LEMMA PublishCommitKeeps ==
    ASSUME IInv, NEW r \in Request, PublishCommit(r) PROVE IInv' /\ NothingComesBack
<1> DEFINE ls == OnlyLesson(req[r].lesson, [Entity(r) EXCEPT !.status = "published"])
<1>1. req[r].lesson \in Lesson /\ Entity(r) \in LessonRow /\ req[r].at # "write"
  BY SlotFacts DEF PublishCommit, Is, Holds, Entity
<1>2. ls \in [Lesson -> LessonRow \cup {None}]
  BY <1>1 DEF OnlyLesson, LessonRow
<1>3. SlotsOK(req)'
  BY <1>1, AnswerFills, GoFills DEF PublishCommit, Phase
<1>4. UNCHANGED <<units, minted, class, deletion, cache, announced>>
  BY DEF PublishCommit
<1>5. CASE lessons' = lessons
  BY <1>3, <1>4, <1>5, SlotOnly DEF IInv, Tables, content
<1>6. CASE UnitsStand(ls) /\ WriteLessons(ls)
  <2>1. Tables' /\ LessonsHaveUnits' /\ \A l \in Lesson : lessons'[l] # None => lessons[l] # None
    <3> HIDE DEF ls
    <3> QED
      BY <1>2, <1>4, <1>6, WriteLessonsKeeps DEF IInv, Tables
  <2> QED
    BY <1>3, <1>4, <2>1, NothingNew
<1> QED
  BY <1>5, <1>6 DEF PublishCommit

\* publish tells the class.
LEMMA AnnounceKeeps ==
    ASSUME IInv, NEW r \in Request, Announce(r) PROVE IInv' /\ NothingComesBack
<1>1. Tables' /\ UNCHANGED content
  BY DEF Announce, IInv, Tables, content
<1> QED
  BY <1>1, AnswerFills, SlotOnly DEF Announce

\* reorder_lessons reads the lessons it will write.
LEMMA ReorderLessonsReadKeeps ==
    ASSUME IInv, NEW r \in Request, ReorderLessonsRead(r) PROVE IInv' /\ NothingComesBack
<1> DEFINE S == InUnit(req[r].unit)
<1>1. PICK p \in Orders(S) :
         KeepLessons(r, [l \in Lesson |->
             IF l \in S THEN [lessons[l] EXCEPT !.order = p[l]] ELSE None])
  BY DEF ReorderLessonsRead
<1> DEFINE ls == [l \in Lesson |-> IF l \in S THEN [lessons[l] EXCEPT !.order = p[l]] ELSE None]
<1>2. \A l \in S : p[l] \in Nat /\ lessons[l] \in LessonRow
  <2>1. Cardinality(S) \in Nat /\ p \in [S -> 0 .. Cardinality(S) - 1]
    BY Counting DEF Orders
  <2>2. \A l \in S : p[l] \in Nat
    <3> HIDE DEF S
    <3> QED
      BY <2>1
  <2>3. \A l \in S : lessons[l] \in LessonRow
    BY DEF InUnit, IInv, Tables
  <2> QED
    BY <2>2, <2>3
<1>3. ls \in [Lesson -> LessonRow \cup {None}]
  BY <1>2 DEF LessonRow
<1>4. SlotsOK(req)'
  BY <1>1, <1>3, KeepLessonsFills DEF ReorderLessonsRead, Is
<1>5. Tables' /\ UNCHANGED content
  BY DEF ReorderLessonsRead, IInv, Tables, content
<1> QED
  BY <1>4, <1>5, SlotOnly

\* reorder_lessons writes the lessons it read, those that are still there.
LEMMA ReorderLessonsCommitKeeps ==
    ASSUME IInv, NEW r \in Request, ReorderLessonsCommit(r) PROVE IInv' /\ NothingComesBack
<1>1. SlotsOK(req)' /\ UNCHANGED <<units, minted, class, deletion, cache, announced>>
  BY AnswerFills DEF ReorderLessonsCommit
<1>2. CASE lessons' = lessons
  BY <1>1, <1>2, SlotOnly DEF IInv, Tables, content
<1>3. CASE UnitsStand(req[r].ls) /\ WriteLessons(req[r].ls)
  <2>1. Tables' /\ LessonsHaveUnits' /\ \A l \in Lesson : lessons'[l] # None => lessons[l] # None
    BY <1>1, <1>3, SlotFacts, WriteLessonsKeeps DEF IInv, Tables
  <2> QED
    BY <1>1, <2>1, NothingNew
<1> QED
  BY <1>2, <1>3 DEF ReorderLessonsCommit

\* delete_lesson takes one lesson away.
LEMMA DeleteLessonCommitKeeps ==
    ASSUME IInv, NEW r \in Request, DeleteLessonCommit(r) PROVE IInv' /\ NothingComesBack
<1>1. SlotsOK(req)' /\ UNCHANGED <<units, minted, class, deletion, cache, announced>>
  BY AnswerFills DEF DeleteLessonCommit
<1>2. Tables' /\ LessonsHaveUnits' /\ \A l \in Lesson : lessons'[l] # None => lessons[l] # None
  BY <1>1 DEF DeleteLessonCommit, IInv, Tables, LessonsHaveUnits
<1> QED
  BY <1>1, <1>2, NothingNew

\* A handler that fails changes no table.
LEMMA FailKeeps ==
    ASSUME IInv, NEW r \in Request, Fail(r) PROVE IInv' /\ NothingComesBack
<1>1. Tables' /\ UNCHANGED content
  BY DEF Fail, IInv, Tables, content
<1> QED
  BY <1>1, AnswerFills, SlotOnly DEF Fail

\* A cached answer expires, or the class changes hands with its lessons kept.
LEMMA ClassKeeps ==
    ASSUME IInv,
           \/ \E role \in {"teacher", "editor"} : Forget(role)
           \/ ArchiveClass \/ RestoreClass \/ BeginDeletion \/ DropClass \/ KeepClass
    PROVE  IInv' /\ NothingComesBack
<1>1. Tables' /\ UNCHANGED <<units, lessons, req>>
  BY DEF Forget, ArchiveClass, RestoreClass, BeginDeletion, DropClass, KeepClass, Become, Elsewhere, content, IInv, Tables
<1>2. SlotsOK(req)' /\ UNCHANGED content
  BY <1>1 DEF IInv, SlotsOK, content
<1> QED
  BY <1>1, <1>2, SlotOnly

\* The class is emptied.
LEMMA EmptyClassKeeps ==
    ASSUME IInv, NEW r \in Request, EmptyClass(r) PROVE IInv' /\ NothingComesBack
<1>1. /\ \A u \in Unit : units'[u] = None
      /\ \A l \in Lesson : lessons'[l] = None
  BY DEF EmptyClass, NoUnits, NoLessons
<1>2. Tables' /\ SlotsOK(req)' /\ LessonsHaveUnits'
  BY <1>1 DEF EmptyClass, Elsewhere, NoUnits, NoLessons, IInv, Tables, SlotsOK, LessonsHaveUnits
<1> QED
  BY <1>1, <1>2, NothingNew

-----------------------------------------------------------------------------
(* The theorems.                                                           *)

\* Every step keeps the invariant and brings nothing back.
LEMMA StepKeeps == ASSUME IInv, [Next]_vars PROVE IInv' /\ NothingComesBack
<1>1. ASSUME NEW r \in Request, Step(r) PROVE IInv' /\ NothingComesBack
  BY <1>1, BeginKeeps, AskKeeps, PassOwnerKeeps, PassEditorKeeps, CreateUnitCountKeeps,
     CreateUnitCommitKeeps,
     UnitPositionsKeep, ReorderUnitsReadKeeps, DeleteUnitRowsKeeps, DeleteUnitCommitKeeps,
     CreateLessonCountKeeps, CreateLessonCommitKeeps, UpdateLessonUnitKeeps, UpdateLessonMoveKeeps,
     UpdateLessonCommitKeeps, SetActivityCommitKeeps, PublishCommitKeeps, AnnounceKeeps,
     ReorderLessonsReadKeeps, ReorderLessonsCommitKeeps, DeleteLessonCommitKeeps, FailKeeps
  DEF Step
<1>2. CASE UNCHANGED vars
  BY <1>2 DEF vars, IInv, Tables, SlotsOK, LessonsHaveUnits, NothingComesBack
<1> QED
  BY <1>1, <1>2, ClassKeeps, EmptyClassKeeps DEF Next

\* The inductive invariant holds in every state.
THEOREM Invariance == Spec => []IInv
<1>1. Init => IInv
  BY DEF Init, IInv, Tables, SlotsOK, Slot, Op, Phase, Holds, IdleSlot, NoUnits, NoLessons,
         LessonsHaveUnits
<1>2. IInv /\ [Next]_vars => IInv'
  BY StepKeeps
<1> QED
  BY <1>1, <1>2, PTL DEF Spec

\* The tables, the cached answers and the handlers are well typed.
THEOREM TypeCorrect == Spec => []TypeOK
<1>1. IInv => TypeOK
  BY DEF IInv, Tables, SlotsOK, TypeOK
<1> QED
  BY <1>1, Invariance, PTL

\* No interleaving leaves a lesson in a unit that is not there.
THEOREM LessonsKeepUnits == Spec => []LessonsHaveUnits
<1>1. IInv => LessonsHaveUnits
  BY DEF IInv
<1> QED
  BY <1>1, Invariance, PTL

\* No handler brings back a unit or a lesson that was deleted.
THEOREM DeletedStays == Spec => DeletedStaysDeleted
<1>1. IInv /\ [Next]_vars =>
        [/\ \A u \in Unit \cap minted : units'[u] # None =>
              \/ units[u] # None
              \/ \E r \in Request : Is(r, "create_unit", "write") /\ req[r].unit = u
         /\ \A l \in Lesson \cap minted : lessons'[l] # None =>
              \/ lessons[l] # None
              \/ \E r \in Request : Is(r, "create_lesson", "write") /\ req[r].lesson = l]_vars
  BY StepKeeps DEF NothingComesBack
<1> QED
  BY <1>1, Invariance, PTL DEF Spec, DeletedStaysDeleted

-----------------------------------------------------------------------------
(* A closed class.                                                         *)

\* While the class is frozen, a handler only reads, asks and gets a no, tells
\* the class or fails.
LEMMA FrozenStep ==
    ASSUME IInv, Frozen, NEW r \in Request, Step(r)
    PROVE  Frozen' /\ UNCHANGED content
<1>1. /\ class # "open" /\ cache["editor"] # TRUE
      /\ \A x \in Request : /\ req[x].at \in {"idle", "owner", "editor", "announce"}
                            /\ req[x].at = "editor" => req[x].reply # TRUE
      /\ req \in [Request -> Slot]
      /\ cache \in [{"teacher", "editor"} -> BOOLEAN \cup {None}]
      /\ None \notin BOOLEAN
  BY ContentAssumption DEF Frozen, IInv, SlotsOK, Tables
<1>2. ASSUME UNCHANGED <<class, cache, content>>,
             NEW slot \in Slot, slot.at \in {"idle", "owner", "editor", "announce"},
             slot.at = "editor" => slot.reply # TRUE,
             req' = [req EXCEPT ![r] = slot]
      PROVE  Frozen' /\ UNCHANGED content
  BY <1>1, <1>2 DEF Frozen
<1>3. IdleSlot \in Slot /\ IdleSlot.at = "idle"
  BY DEF IdleSlot, Slot, Op, Phase, NoUnits, NoLessons
<1>4. CASE Begin(r)
  <2>1. /\ UNCHANGED <<units, lessons, class, cache>>
        /\ \E op, u, l, save, us, ls, at : 
             /\ at \in {"owner", "editor"}
             /\ req' = [req EXCEPT ![r] = [op |-> op, at |-> at, reply |-> None, unit |-> u, lesson |-> l,
                                           save |-> save, us |-> us, ls |-> ls]]
    BY <1>4 DEF Begin, OnClass, OnUnit, OnLesson, Start
  <2>2. req'[r].at \in {"owner", "editor"} /\ req'[r].reply = None /\ \A x \in Request \ {r} : req'[x] = req[x]
    BY <1>1, <2>1
  <2> QED
    BY <1>1, <2>1, <2>2 DEF Frozen, content
<1>5. CASE Ask(r)
  <2> DEFINE slot == [req[r] EXCEPT !.reply = Access(Role(r))]
  <2>1. Access(Role(r)) \in BOOLEAN /\ (req[r].at = "editor" => Access(Role(r)) = FALSE)
    BY <1>1 DEF Access, Role
  <2>2. slot \in Slot /\ slot.at = req[r].at /\ (slot.at = "editor" => slot.reply # TRUE)
    BY <1>1, <2>1 DEF Slot
  <2>3. req' = [req EXCEPT ![r] = slot]
    BY <1>1, <1>5 DEF Ask
  <2> HIDE DEF slot
  <2> QED
    BY <1>1, <1>2, <1>5, <2>2, <2>3 DEF Ask, content
<1>6. CASE PassOwner(r) \/ PassEditor(r)
  <2>1. PICK answer \in BOOLEAN : /\ Returns(r, answer)
                                  /\ \/ PassOwner(r) /\ answer /\ Go(r, "editor")
                                     \/ Answer(r)
                                  /\ PassEditor(r) => Answer(r)
    <3>1. CASE PassOwner(r)
      BY <1>1, <3>1 DEF PassOwner, PassEditor
    <3>2. CASE PassEditor(r)
      <4>1. PICK answer \in BOOLEAN :
               Returns(r, answer) /\ IF answer THEN Go(r, "work") ELSE Answer(r)
        BY <3>2 DEF PassEditor
      <4>2. answer = FALSE
        BY <1>1, <3>2, <4>1 DEF PassEditor, Returns, Role
      <4> QED
        BY <4>1, <4>2
    <3> QED
      BY <1>6, <3>1, <3>2
  <2>2. cache'["editor"] # TRUE
    BY <1>1, <1>6, <2>1 DEF Returns, Role, PassOwner, PassEditor
  <2>3. /\ req'[r].at \in {"idle", "editor"} /\ req'[r].reply = None
        /\ \A x \in Request \ {r} : req'[x] = req[x]
    BY <1>1, <1>3, <2>1 DEF Go, Answer, Slot, IdleSlot
  <2> QED
    BY <1>1, <1>6, <2>2, <2>3 DEF PassOwner, PassEditor, Frozen, content
<1>7. CASE Announce(r) \/ Fail(r)
  BY <1>2, <1>3, <1>7 DEF Announce, Fail, Answer, content
<1>8. /\ \A u \in Unit : ~CreateUnitCount(r, u)
      /\ \A l \in Lesson : ~CreateLessonCount(r, l)
      /\ ~CreateUnitCommit(r) /\ ~UpdateUnitCommit(r) /\ ~ReorderUnitsRead(r)
      /\ ~ReorderUnitsCommit(r) /\ ~DeleteUnitRows(r) /\ ~DeleteUnitCommit(r)
  BY <1>1 DEF Is, CreateUnitCount, CreateLessonCount, CreateUnitCommit, UpdateUnitCommit,
              ReorderUnitsRead, ReorderUnitsCommit, DeleteUnitRows, DeleteUnitCommit
<1>9. /\ ~CreateLessonCommit(r) /\ ~UpdateLessonUnit(r) /\ ~UpdateLessonMove(r)
      /\ ~UpdateLessonCommit(r) /\ ~SetActivityCommit(r) /\ ~PublishCommit(r) /\ ~ReorderLessonsRead(r)
      /\ ~ReorderLessonsCommit(r) /\ ~DeleteLessonCommit(r)
  BY <1>1 DEF Is, CreateLessonCommit, UpdateLessonUnit, UpdateLessonMove, UpdateLessonCommit, SetActivityCommit,
              PublishCommit, ReorderLessonsRead, ReorderLessonsCommit, DeleteLessonCommit
<1> QED
  BY <1>4, <1>5, <1>6, <1>7, <1>8, <1>9 DEF Step

\* Nobody edits a closed class once the cached yes and the handlers that got it
\* are gone.
THEOREM ClosedStaysFrozen == Spec => ClosedClassIsFrozen
<1>1. IInv /\ [Next]_vars =>
        [Frozen => /\ class' # "open" => Frozen'
                   /\ UNCHANGED content \/ (deletion = "begun" /\ deletion' = "emptied")]_vars
  <2> SUFFICES ASSUME IInv, Frozen, [Next]_vars
               PROVE  /\ class' # "open" => Frozen'
                      /\ UNCHANGED content \/ (deletion = "begun" /\ deletion' = "emptied")
    OBVIOUS
  <2>1. CASE \E r \in Request : Step(r)
    BY <2>1, FrozenStep
  <2>2. CASE \E role \in {"teacher", "editor"} : Forget(role)
    BY <2>2, ContentAssumption DEF Forget, Frozen, IInv, Tables, content
  <2>3. CASE ArchiveClass \/ RestoreClass \/ BeginDeletion \/ DropClass \/ KeepClass
    BY <2>3 DEF ArchiveClass, RestoreClass, BeginDeletion, DropClass, KeepClass, Become, Elsewhere, Frozen, content
  <2>4. CASE \E r \in Request : EmptyClass(r)
    BY <2>4 DEF EmptyClass, Elsewhere, Frozen
  <2>5. CASE UNCHANGED vars
    BY <2>5 DEF vars, Frozen, content
  <2> QED
    BY <2>1, <2>2, <2>3, <2>4, <2>5 DEF Next
<1> QED
  BY <1>1, Invariance, PTL DEF Spec, ClosedClassIsFrozen

-----------------------------------------------------------------------------
(* One handler at a time: what it read stays true until it commits.        *)

\* At most one handler is in flight: the request slots are one.
OneHandler == \A q, r \in Request : q = r

\* While it holds a lesson it read, before it commits.
Reading == {"editor", "work", "move", "write"}

\* What the handler read or counted of the units is what there is.
UnitsFresh(r) ==
    /\ req[r].at = "owner" => req[r].op \in {"create_unit", "reorder_units"}
    /\ req[r].op \in {"update_unit", "delete_unit"} /\ req[r].at \in {"editor", "work"} =>
          units[req[r].unit] # None /\ req[r].us = OnlyUnit(req[r].unit, units[req[r].unit])
    /\ Is(r, "create_unit", "write") =>
          /\ req[r].unit \notin Existing /\ req[r].unit \in minted
          /\ req[r].us[req[r].unit] = Cardinality(Existing)
    /\ Is(r, "reorder_units", "write") =>
          \E p \in Orders(Existing) : req[r].us = [u \in Unit |-> IF u \in Existing THEN p[u] ELSE None]
    /\ Is(r, "delete_unit", "write") =>
          /\ req[r].unit \in Existing
          /\ req[r].us = [u \in Unit |-> IF u \in Existing /\ units[u] > units[req[r].unit]
                                         THEN units[u] - 1 ELSE None]

\* The entity says of the lesson what the table says.
LikeTable(l, entity) ==
    /\ lessons[l] # None
    /\ entity.status = lessons[l].status
    /\ entity.pages = lessons[l].pages /\ entity.activity = lessons[l].activity

\* What it read of its lessons is what there is, and it announces a lesson that
\* is published and was not announced.
LessonFresh(r) ==
    /\ req[r].op \in {"update_lesson", "set_activity", "publish", "delete_lesson"}
       /\ req[r].at \in Reading => LikeTable(req[r].lesson, Entity(r))
    /\ Is(r, "create_lesson", "write") =>
          /\ Entity(r).status = "draft" /\ req[r].lesson \in minted
          /\ lessons[req[r].lesson] = None /\ announced[req[r].lesson] = "never"
    /\ Is(r, "reorder_lessons", "write") =>
          \A l \in Lesson : req[r].ls[l] # None =>
             lessons[l] # None /\ req[r].ls[l].status = lessons[l].status
    /\ req[r].at = "announce" =>
          /\ req[r].op = "publish" /\ announced[req[r].lesson] = "never"
          /\ lessons[req[r].lesson] # None /\ lessons[req[r].lesson].status = "published"

\* Every handler holds what there is.
InStep == \A r \in Request : UnitsFresh(r) /\ LessonFresh(r)

\* No two units have the same position, and none has one past the end.
Numbered == [u \in Existing |-> units[u]] \in Orders(Existing)

\* Only lessons that were published were announced.
Heard ==
    \A l \in Lesson : announced[l] # "never" =>
        l \in minted /\ (lessons[l] = None \/ lessons[l].status = "published")

\* What exists was given an id.
Minted == Existing \subseteq minted /\ \A l \in Lesson : lessons[l] # None => l \in minted

\* What the kids of the class see and heard is true.
LessonsTold == Heard /\ PublishedIsComplete /\ AnnouncedOnce

\* Positions without repetition leave no gap.
LEMMA OrdersCover ==
    ASSUME NEW S, IsFiniteSet(S), NEW p \in Orders(S), NEW i \in 0 .. Cardinality(S) - 1
    PROVE  \E x \in S : p[x] = i
<1> DEFINE n == Cardinality(S)
           T == 0 .. n - 1
<1>1. n \in Nat
  BY FS_CardinalityType
<1>2. IsFiniteSet(T) /\ Cardinality(T) = n
  BY <1>1, FS_Interval
<1>3. p \in Injection(S, T)
  BY DEF Orders, Injection, IsInjective
<1>4. p \in Surjection(S, T)
  BY <1>2, <1>3, FS_Injection
<1> QED
  BY <1>4 DEF Surjection

\* As many positions as units, none twice: none is left out.
LEMMA InOrder == ASSUME Numbered PROVE UnitsInOrder
<1>1. IsFiniteSet(Existing)
  BY ContentAssumption, FS_Subset DEF Existing
<1>2. \A i \in 0 .. Cardinality(Existing) - 1 :
         \E u \in Existing : [x \in Existing |-> units[x]][u] = i
  BY <1>1, OrdersCover DEF Numbered
<1> QED
  BY <1>2 DEF UnitsInOrder

\* An idle handler holds nothing.
LEMMA IdleFresh ==
    ASSUME NEW r \in Request, req'[r].at = "idle"
    PROVE  UnitsFresh(r)' /\ LessonFresh(r)'
BY DEF UnitsFresh, LessonFresh, Is, Reading

\* A handler that answers lets go of all it held.
LEMMA AnswerFresh ==
    ASSUME IInv, NEW r \in Request, Answer(r)
    PROVE  UnitsFresh(r)' /\ LessonFresh(r)'
<1>1. req'[r].at = "idle"
  BY DEF Answer, IInv, SlotsOK, IdleSlot
<1> QED
  BY <1>1, IdleFresh

\* What the tables tell, when they stay.
LEMMA UnitsStay ==
    ASSUME Numbered, UNCHANGED units
    PROVE  Numbered'
BY DEF Numbered, Existing, Orders

\* What is told of the lessons stays, when none is written and none announced.
LEMMA LessonsStay ==
    ASSUME LessonsTold, UNCHANGED <<lessons, announced>>, minted \subseteq minted'
    PROVE  LessonsTold'
BY DEF LessonsTold, Heard, PublishedIsComplete, AnnouncedOnce

\* A handler that goes on with what it holds.
LEMMA GoesOn ==
    ASSUME IInv, NEW r \in Request, UnitsFresh(r), LessonFresh(r), UNCHANGED <<units, lessons, announced, minted>>,
           req'[r].op = req[r].op, req'[r].unit = req[r].unit, req'[r].lesson = req[r].lesson,
           req'[r].us = req[r].us, req'[r].ls = req[r].ls,
           \/ req'[r].at = req[r].at
           \/ req[r].at = "owner" /\ req'[r].at = "editor"
           \/ req[r].at = "editor" /\ req'[r].at = "work"
           \/ req[r].at = "work" /\ req'[r].at = "move" /\ req[r].op = "update_lesson"
    PROVE  UnitsFresh(r)' /\ LessonFresh(r)'
<1>1. UnitsFresh(r)'
  <2>1. Existing' = Existing
    BY DEF Existing
  <2>2. Orders(Existing)' = Orders(Existing) /\ Cardinality(Existing)' = Cardinality(Existing)
    BY <2>1 DEF Orders
  <2>3. OnlyUnit(req[r].unit, units[req[r].unit])' = OnlyUnit(req[r].unit, units[req[r].unit])
    BY DEF OnlyUnit
  <2> QED
    BY <2>1, <2>2, <2>3 DEF UnitsFresh, Is
<1>2. LikeTable(req[r].lesson, Entity(r)) => LikeTable(req[r].lesson, Entity(r))'
  BY DEF LikeTable, Entity
<1>3. Entity(r)' = Entity(r)
  BY DEF Entity
<1>4. LessonFresh(r)'
  BY <1>2, <1>3 DEF LessonFresh, Is, Reading, UnitsFresh
<1> QED
  BY <1>1, <1>4

\* A handler begins with what there is.
LEMMA BeginsFresh ==
    ASSUME IInv, NEW r \in Request, Begin(r)
    PROVE  UnitsFresh(r)' /\ LessonFresh(r)'
<1>1. ASSUME NEW op, NEW at, NEW u, NEW l, NEW save, NEW us, NEW ls, Start(r, op, at, u, l, save, us, ls)
      PROVE  /\ req'[r].op = op /\ req'[r].at = at /\ req'[r].unit = u /\ req'[r].lesson = l
             /\ req'[r].us = us /\ req'[r].ls = ls
             /\ units' = units /\ lessons' = lessons /\ announced' = announced /\ minted' = minted
  BY <1>1 DEF Start, IInv, SlotsOK
<1>2. ASSUME NEW op \in {"create_unit", "reorder_units"}, OnClass(r, op)
      PROVE  UnitsFresh(r)' /\ LessonFresh(r)'
  <2>1. req'[r].op = op /\ req'[r].at = "owner"
    BY <1>1, <1>2 DEF OnClass
  <2> QED
    BY <2>1 DEF UnitsFresh, LessonFresh, Is, Reading
<1>3. ASSUME NEW u \in Unit, NEW op \in {"update_unit", "delete_unit", "create_lesson", "reorder_lessons"},
             OnUnit(r, op, u)
      PROVE  UnitsFresh(r)' /\ LessonFresh(r)'
  <2>1. req'[r].op = op /\ req'[r].at = "editor" /\ req'[r].unit = u /\ units' = units /\ units[u] # None
        /\ (op \in {"update_unit", "delete_unit"} => req'[r].us = OnlyUnit(u, units[u]))
    BY <1>1, <1>3 DEF OnUnit
  <2> QED
    BY <2>1 DEF UnitsFresh, LessonFresh, Is, OnlyUnit
<1>4. ASSUME NEW l \in Lesson, NEW op \in {"update_lesson", "set_activity", "publish", "delete_lesson"},
             NEW u, NEW save, OnLesson(r, op, l, u, save)
      PROVE  UnitsFresh(r)' /\ LessonFresh(r)'
  <2>1. req'[r].op = op /\ req'[r].at = "editor" /\ req'[r].lesson = l /\ lessons' = lessons
        /\ req'[r].ls = OnlyLesson(l, lessons[l]) /\ lessons[l] # None
    BY <1>1, <1>4 DEF OnLesson
  <2>2. Entity(r)' = lessons[l]
    BY <2>1 DEF Entity, OnlyLesson
  <2>3. LikeTable(req[r].lesson, Entity(r))'
    BY <2>1, <2>2 DEF LikeTable
  <2> QED
    BY <2>1, <2>3 DEF UnitsFresh, LessonFresh, Is
<1> QED
  BY <1>2, <1>3, <1>4 DEF Begin

-----------------------------------------------------------------------------
(* Units.                                                                  *)

\* Numbered, position by position.
LEMMA NumberedIs ==
    Numbered <=> /\ \A u \in Existing : units[u] \in 0 .. Cardinality(Existing) - 1
                 /\ \A u, v \in Existing : units[u] = units[v] => u = v
BY DEF Numbered, Orders

\* The same, after a step.
LEMMA NumberedNext ==
    Numbered' <=> /\ \A u \in Existing' : units'[u] \in 0 .. Cardinality(Existing') - 1
                  /\ \A u, v \in Existing' : units'[u] = units'[v] => u = v
BY DEF Numbered, Orders

\* The units that exist can be counted, and each has a position.
LEMMA ExistingFacts ==
    ASSUME IInv
    PROVE  /\ Existing \subseteq Unit /\ IsFiniteSet(Existing) /\ Cardinality(Existing) \in Nat
           /\ \A u \in Existing : units[u] \in Nat
<1>1. Existing \subseteq Unit
  BY DEF Existing
<1>2. IsFiniteSet(Existing)
  BY <1>1, ContentAssumption, FS_Subset
<1>3. \A u \in Existing : units[u] \in Nat
  BY DEF IInv, Tables, Existing
<1> QED
  BY <1>1, <1>2, <1>3, FS_CardinalityType

\* A new unit goes to the end.
LEMMA OneMoreUnit ==
    ASSUME IInv, Numbered, NEW new \in Unit \ Existing,
           units' = [units EXCEPT ![new] = Cardinality(Existing)]
    PROVE  Numbered'
<1> DEFINE n == Cardinality(Existing)
<1>1. n \in Nat /\ IsFiniteSet(Existing) /\ Existing \subseteq Unit
  BY ExistingFacts
<1>2. units'[new] = n /\ \A u \in Unit \ {new} : units'[u] = units[u]
  BY DEF IInv, Tables
<1>3. n # None
  BY <1>1, ContentAssumption
<1>4. Existing' = Existing \cup {new}
  BY <1>2, <1>3 DEF Existing
<1>5. Cardinality(Existing') = n + 1
  BY <1>1, <1>4, FS_AddElement
<1>6. /\ \A u \in Existing : units[u] \in 0 .. n - 1
      /\ \A u, v \in Existing : units[u] = units[v] => u = v
  BY NumberedIs
<1> HIDE DEF n
<1>7. \A u \in Existing : units'[u] = units[u] /\ units[u] \in Nat /\ units[u] < n
  BY <1>1, <1>2, <1>6
<1>8. \A u \in Existing' : units'[u] \in 0 .. (n + 1) - 1
  BY <1>1, <1>2, <1>4, <1>7
<1>9. \A u, v \in Existing' : units'[u] = units'[v] => u = v
  BY <1>1, <1>2, <1>4, <1>6, <1>7
<1> QED
  BY <1>5, <1>8, <1>9, NumberedNext

\* When a unit goes, those after it move up.
LEMMA OneUnitLess ==
    ASSUME IInv, Numbered, NEW old \in Existing,
           units' = [u \in Unit |->
                IF u = old THEN None
                ELSE IF u \in Existing /\ units[u] > units[old] THEN units[u] - 1 ELSE units[u]]
    PROVE  Numbered'
<1> DEFINE n == Cardinality(Existing)
           k == units[old]
<1>1. n \in Nat /\ IsFiniteSet(Existing) /\ Existing \subseteq Unit /\ \A u \in Existing : units[u] \in Nat
  BY ExistingFacts
<1>2. /\ \A u \in Existing : units[u] \in 0 .. n - 1
      /\ \A u, v \in Existing : units[u] = units[v] => u = v
  BY NumberedIs
<1>3. k \in Nat /\ k < n /\ \A u \in Existing : units[u] < n
  BY <1>1, <1>2
<1>4. \A u \in Existing \ {old} : /\ units'[u] = IF units[u] > k THEN units[u] - 1 ELSE units[u]
                                  /\ units'[u] \in Nat /\ units[u] # k
  BY <1>1, <1>2, <1>3
<1>5. Existing' = Existing \ {old}
  <2>1. \A u \in Unit : u \notin Existing => units'[u] = None
    BY DEF Existing
  <2>2. units'[old] = None
    BY <1>1
  <2>3. \A u \in Existing \ {old} : units'[u] # None
    BY <1>4, ContentAssumption
  <2> QED
    BY <1>1, <2>1, <2>2, <2>3 DEF Existing
<1>6. Cardinality(Existing') = n - 1
  BY <1>1, <1>5, FS_RemoveElement
<1> HIDE DEF n, k
<1>7. \A u \in Existing \ {old} : units'[u] \in 0 .. (n - 1) - 1
  BY <1>1, <1>3, <1>4
<1>8. \A u, v \in Existing \ {old} : units'[u] = units'[v] => u = v
  <2> SUFFICES ASSUME NEW u \in Existing \ {old}, NEW v \in Existing \ {old}, units'[u] = units'[v]
               PROVE  u = v
    OBVIOUS
  <2>1. units[u] \in Nat /\ units[v] \in Nat /\ units[u] # k /\ units[v] # k
    BY <1>1, <1>4
  <2>2. units[u] = units[v]
    BY <1>3, <1>4, <2>1
  <2> QED
    BY <1>2, <2>2
<1> QED
  BY <1>5, <1>6, <1>7, <1>8, NumberedNext

\* A new order has every position once.
LEMMA NewOrder ==
    ASSUME IInv, NEW p \in Orders(Existing),
           units' = [u \in Unit |-> IF u \in Existing THEN p[u] ELSE units[u]]
    PROVE  Numbered'
<1>1. Existing \subseteq Unit /\ Cardinality(Existing) \in Nat
  BY ExistingFacts
<1>2. /\ \A u \in Existing : p[u] \in 0 .. Cardinality(Existing) - 1
      /\ \A u, v \in Existing : p[u] = p[v] => u = v
  BY DEF Orders
<1>3. \A u \in Existing : units'[u] = p[u] /\ p[u] # None
  BY <1>1, <1>2, ContentAssumption
<1>4. Existing' = Existing
  BY <1>3 DEF Existing
<1> QED
  BY <1>2, <1>3, <1>4, NumberedNext

\* The units stay numbered, whichever unit handler commits.
LEMMA UnitsCommit ==
    ASSUME IInv, Numbered, NEW r \in Request, UnitsFresh(r),
           \/ CreateUnitCommit(r) \/ UpdateUnitCommit(r)
           \/ ReorderUnitsCommit(r) \/ DeleteUnitCommit(r)
    PROVE  Numbered'
<1>0. /\ Existing \subseteq Unit /\ \A u \in Existing : units[u] \in Nat
      /\ units \in [Unit -> Nat \cup {None}] /\ Cardinality(Existing) \in Nat
  BY ExistingFacts DEF IInv, Tables
<1>1. CASE CreateUnitCommit(r)
  <2>1. /\ req[r].unit \notin Existing
        /\ req[r].us[req[r].unit] = Cardinality(Existing)
    BY <1>1 DEF UnitsFresh, CreateUnitCommit
  <2>2. req[r].unit \in Unit
    BY <1>1, SlotFacts DEF CreateUnitCommit, Is, Holds
  <2>3. units' = [units EXCEPT ![req[r].unit] = Cardinality(Existing)]
    BY <1>1, <2>1 DEF CreateUnitCommit
  <2> QED
    BY <2>1, <2>2, <2>3, OneMoreUnit
<1>2. CASE UpdateUnitCommit(r)
  <2>1. req[r].us = OnlyUnit(req[r].unit, units[req[r].unit]) /\ units[req[r].unit] # None
    BY <1>2 DEF UpdateUnitCommit, Is, UnitsFresh
  <2>2. units' = [u \in Unit |-> units[u]]
    BY <1>2, <2>1 DEF UpdateUnitCommit, WriteUnits, OnlyUnit
  <2> QED
    BY <1>0, <2>2, UnitsStay
<1>3. CASE ReorderUnitsCommit(r)
  <2>1. PICK p \in Orders(Existing) : req[r].us = [u \in Unit |-> IF u \in Existing THEN p[u] ELSE None]
    BY <1>3 DEF ReorderUnitsCommit, UnitsFresh
  <2>2. \A u \in Existing : p[u] # None
    BY ContentAssumption, <1>0 DEF Orders
  <2>3. units' = [u \in Unit |-> IF u \in Existing THEN p[u] ELSE units[u]]
    BY <1>3, <2>1, <2>2 DEF ReorderUnitsCommit, WriteUnits, Existing
  <2> QED
    BY <2>3, NewOrder
<1>4. CASE DeleteUnitCommit(r)
  <2>1. /\ req[r].unit \in Existing
        /\ req[r].us = [u \in Unit |-> IF u \in Existing /\ units[u] > units[req[r].unit]
                                       THEN units[u] - 1 ELSE None]
    BY <1>4 DEF DeleteUnitCommit, UnitsFresh
  <2>2. CASE UNCHANGED units
    BY <2>2, UnitsStay
  <2>3. CASE units' = [u \in Unit |->
                IF u = req[r].unit THEN None
                ELSE IF req[r].us[u] # None /\ units[u] # None THEN req[r].us[u]
                ELSE units[u]]
    <3> DEFINE old == req[r].unit
    <3>1. \A u \in Existing : units[u] > units[old] => units[u] - 1 # None
      BY <1>0, <2>1, ContentAssumption
    <3>2. units' = [u \in Unit |->
                IF u = old THEN None
                ELSE IF u \in Existing /\ units[u] > units[old] THEN units[u] - 1 ELSE units[u]]
      BY <2>1, <2>3, <3>1 DEF Existing
    <3> QED
      BY <2>1, <3>2, OneUnitLess
  <2> QED
    BY <1>4, <2>2, <2>3 DEF DeleteUnitCommit
<1> QED
  BY <1>1, <1>2, <1>3, <1>4

\* What a unit handler will write is what there is, when it has read it.
LEMMA UnitsReadFresh ==
    ASSUME IInv, Minted, NEW r \in Request, UnitsFresh(r),
           (\E u \in Unit : CreateUnitCount(r, u)) \/ ReorderUnitsRead(r) \/ DeleteUnitRows(r)
    PROVE  UnitsFresh(r)' /\ LessonFresh(r)'
<1>0. req[r] \in Slot /\ req \in [Request -> Slot]
  BY SlotFacts DEF IInv, SlotsOK
<1>1. ASSUME NEW u \in Unit, CreateUnitCount(r, u)
      PROVE  UnitsFresh(r)' /\ LessonFresh(r)'
  <2>1. req'[r] = [req[r] EXCEPT !.at = "write", !.unit = u, !.us = OnlyUnit(u, Cardinality(Existing))]
    BY <1>0, <1>1 DEF CreateUnitCount
  <2>2. /\ req'[r].op = "create_unit" /\ req'[r].at = "write" /\ req'[r].unit = u
        /\ req'[r].us = OnlyUnit(u, Cardinality(Existing))
    BY <1>0, <1>1, <2>1 DEF Slot, CreateUnitCount, Is
  <2>3. units' = units /\ u \in minted' /\ u \notin Existing
    BY <1>1 DEF CreateUnitCount, Minted
  <2>4. Existing' = Existing
    BY <2>3 DEF Existing
  <2>5. req'[r].us[u] = Cardinality(Existing)
    BY <2>2 DEF OnlyUnit
  <2> QED
    BY <2>2, <2>3, <2>4, <2>5 DEF UnitsFresh, LessonFresh, Is
<1>2. ASSUME NEW us, KeepUnits(r, us), UNCHANGED units, req[r].op \in {"reorder_units", "delete_unit"},
             req[r].op = "reorder_units" =>
                \E p \in Orders(Existing) : us = [u \in Unit |-> IF u \in Existing THEN p[u] ELSE None],
             req[r].op = "delete_unit" =>
                /\ req[r].unit \in Existing
                /\ us = [u \in Unit |-> IF u \in Existing /\ units[u] > units[req[r].unit]
                                       THEN units[u] - 1 ELSE None]
      PROVE  UnitsFresh(r)' /\ LessonFresh(r)'
  <2>1. req'[r] = [req[r] EXCEPT !.at = "write", !.us = us]
    BY <1>0, <1>2 DEF KeepUnits
  <2>2. req'[r].op = req[r].op /\ req'[r].at = "write" /\ req'[r].unit = req[r].unit /\ req'[r].us = us
    BY <1>0, <2>1 DEF Slot
  <2>3. Existing' = Existing
    BY <1>2 DEF Existing
  <2>4. Orders(Existing)' = Orders(Existing)
    BY <2>3 DEF Orders
  <2> QED
    BY <1>2, <2>2, <2>3, <2>4 DEF UnitsFresh, LessonFresh, Is
<1>3. CASE ReorderUnitsRead(r)
  BY <1>2, <1>3 DEF ReorderUnitsRead, Is
<1>4. CASE DeleteUnitRows(r)
  <2>1. req[r].op = "delete_unit" /\ req[r].at = "work" /\ units' = units
    BY <1>4 DEF DeleteUnitRows, Is
  <2>2. units[req[r].unit] # None /\ req[r].us = OnlyUnit(req[r].unit, units[req[r].unit])
    BY <2>1 DEF UnitsFresh
  <2>3. req[r].unit \in Existing
    BY <2>1, <2>2, SlotFacts DEF Holds, Existing
  <2>4. req[r].us[req[r].unit] = units[req[r].unit]
    BY <2>2, <2>3 DEF OnlyUnit, Existing
  <2>5. \A u \in Unit : u \in After(r) <=> u \in Existing /\ units[u] > units[req[r].unit]
    <3>1. \A u \in Existing : units[u] \in Nat
      BY ExistingFacts
    <3> QED
      BY <2>3, <2>4, <3>1 DEF After
  <2>6. CASE Answer(r)
    BY <2>6, AnswerFresh
  <2>7. CASE KeepUnits(r, [u \in Unit |-> IF u \in After(r) THEN units[u] - 1 ELSE None])
    BY <1>2, <2>1, <2>3, <2>5, <2>7
  <2> QED
    BY <1>4, <2>6, <2>7 DEF DeleteUnitRows
<1> QED
  BY <1>1, <1>3, <1>4

-----------------------------------------------------------------------------
(* Lessons.                                                                *)

\* What a write must leave, for the lessons to be told truly.
Truthful(l) ==
    lessons'[l] # None =>
        /\ lessons'[l].status = "published" => lessons'[l].pages /\ lessons'[l].activity
        /\ announced[l] # "never" => lessons'[l].status = "published"

\* The lessons stay told, when every one is written truly.
LEMMA LessonsWritten ==
    ASSUME LessonsTold, UNCHANGED announced, minted \subseteq minted', \A l \in Lesson : Truthful(l)
    PROVE  LessonsTold'
BY DEF LessonsTold, Heard, PublishedIsComplete, AnnouncedOnce, Truthful

\* A lesson that is not written stays true, and so does one that keeps its
\* status and its parts.
LEMMA SameLesson ==
    ASSUME LessonsTold, NEW l \in Lesson,
           \/ lessons'[l] = lessons[l]
           \/ lessons'[l] = None
           \/ /\ lessons[l] # None /\ lessons'[l].status = lessons[l].status
              /\ lessons'[l].pages = lessons[l].pages /\ lessons'[l].activity = lessons[l].activity
    PROVE  Truthful(l)
BY DEF LessonsTold, Heard, PublishedIsComplete, Truthful

\* One lesson is written, and truly.
LEMMA OneWritten ==
    ASSUME IInv, LessonsTold, NEW l \in Lesson, NEW row,
           lessons' = [lessons EXCEPT ![l] = row],
           row.status = "published" => row.pages /\ row.activity,
           announced[l] # "never" => row.status = "published",
           UNCHANGED announced, minted \subseteq minted'
    PROVE  LessonsTold'
<1>1. lessons'[l] = row /\ \A x \in Lesson \ {l} : lessons'[x] = lessons[x]
  BY DEF IInv, Tables
<1>2. Truthful(l)
  BY <1>1 DEF Truthful
<1>3. \A x \in Lesson : Truthful(x)
  BY <1>1, <1>2, SameLesson
<1> QED
  BY <1>3, LessonsWritten

\* A new lesson is a draft nobody heard of.
LEMMA CreateLessonTold ==
    ASSUME IInv, LessonsTold, NEW r \in Request, LessonFresh(r), CreateLessonCommit(r)
    PROVE  LessonsTold'
<1>1. Is(r, "create_lesson", "write") /\ UNCHANGED <<minted, announced>>
  BY DEF CreateLessonCommit
<1>2. req[r].lesson \in Lesson /\ Entity(r).status = "draft" /\ announced[req[r].lesson] = "never"
  BY <1>1, SlotFacts DEF Is, Holds, LessonFresh
<1>3. CASE UNCHANGED lessons
  BY <1>1, <1>3, LessonsStay
<1>4. CASE lessons' = [lessons EXCEPT ![req[r].lesson] = Entity(r)]
  BY <1>1, <1>2, <1>4, OneWritten
<1> QED
  BY <1>3, <1>4 DEF CreateLessonCommit, Entity

\* The checks of update_lesson and set_activity are made on what is there.
LEMMA SaveTold ==
    ASSUME IInv, LessonsTold, NEW r \in Request, LessonFresh(r),
           UpdateLessonCommit(r) \/ SetActivityCommit(r)
    PROVE  LessonsTold'
<1> DEFINE l == req[r].lesson
<1>1. /\ l \in Lesson /\ Entity(r) \in LessonRow /\ LikeTable(l, Entity(r))
      /\ UNCHANGED <<minted, announced>>
  BY SlotFacts DEF UpdateLessonCommit, SetActivityCommit, Is, Holds, Entity, LessonFresh, Reading
<1>2. lessons[l] \in LessonRow
  BY <1>1 DEF LikeTable, IInv, Tables
<1>3. CASE UNCHANGED lessons
  BY <1>1, <1>3, LessonsStay
<1>4. announced[l] # "never" => lessons[l].status = "published"
  BY <1>1 DEF LessonsTold, Heard, LikeTable
<1>5. CASE UpdateLessonCommit(r)
  <2> DEFINE new == [Entity(r) EXCEPT !.pages = IF req[r].save # None THEN req[r].save ELSE @]
             row == [new EXCEPT !.activity = lessons[l].activity,
                                !.pages = IF req[r].save # None THEN @ ELSE lessons[l].pages]
  <2>1. UNCHANGED lessons \/ (KeepsComplete(r, new.pages, new.activity) /\ lessons' = [lessons EXCEPT ![l] = row])
    BY <1>5 DEF UpdateLessonCommit
  <2>2. /\ new.pages = IF req[r].save # None THEN req[r].save ELSE Entity(r).pages
        /\ new.activity = Entity(r).activity /\ new.status = Entity(r).status
        /\ new = [unit |-> new.unit, order |-> new.order, status |-> new.status,
                  pages |-> new.pages, activity |-> new.activity]
    BY <1>1 DEF LessonRow
  <2>3. /\ row.pages = IF req[r].save # None THEN new.pages ELSE lessons[l].pages
        /\ row.activity = lessons[l].activity /\ row.status = new.status
    <3> HIDE DEF new
    <3> QED
      BY <2>2
  <2>4. row.pages = new.pages /\ row.activity = new.activity /\ row.status = lessons[l].status
    BY <1>1, <2>2, <2>3 DEF LikeTable
  <2>5. KeepsComplete(r, new.pages, new.activity) => (row.status = "published" => row.pages /\ row.activity)
    BY <1>1, <2>4 DEF KeepsComplete, LikeTable
  <2> HIDE DEF new, row
  <2> QED
    BY <1>1, <1>3, <1>4, <2>1, <2>4, <2>5, OneWritten
<1>6. CASE SetActivityCommit(r)
  <2> DEFINE row == [lessons[l] EXCEPT !.activity = req[r].save]
  <2>1. \/ UNCHANGED lessons
        \/ KeepsComplete(r, Entity(r).pages, req[r].save) /\ lessons' = [lessons EXCEPT ![l] = row]
    BY <1>1, <1>6 DEF SetActivityCommit, IInv, Tables
  <2>2. row.pages = lessons[l].pages /\ row.activity = req[r].save /\ row.status = lessons[l].status
    BY <1>2 DEF LessonRow
  <2>3. KeepsComplete(r, Entity(r).pages, req[r].save) => (row.status = "published" => row.pages /\ row.activity)
    BY <1>1, <2>2 DEF KeepsComplete, LikeTable
  <2> HIDE DEF row
  <2> QED
    BY <1>1, <1>3, <1>4, <2>1, <2>2, <2>3, OneWritten
<1> QED
  BY <1>5, <1>6

\* Writing entities back changes status, unit and order only.
LEMMA WrittenBack ==
    ASSUME IInv, NEW ls \in [Lesson -> LessonRow \cup {None}], WriteLessons(ls), NEW l \in Lesson, ls[l] # None, lessons[l] # None
    PROVE  /\ lessons'[l] # None /\ lessons'[l].status = ls[l].status
           /\ lessons'[l].pages = lessons[l].pages /\ lessons'[l].activity = lessons[l].activity
<1>1. lessons[l] \in LessonRow
  BY DEF IInv, Tables
<1>2. lessons'[l] = [lessons[l] EXCEPT !.unit = ls[l].unit, !.order = ls[l].order, !.status = ls[l].status]
  BY DEF WriteLessons
<1>3. /\ lessons'[l].status = ls[l].status
      /\ lessons'[l].pages = lessons[l].pages /\ lessons'[l].activity = lessons[l].activity
  BY <1>1, <1>2 DEF LessonRow
<1>4. lessons'[l] # None
  <2>1. lessons'[l] \in LessonRow
    BY <1>1, <1>2 DEF LessonRow
  <2> QED
    BY <2>1, ContentAssumption DEF LessonRow
<1> QED
  BY <1>3, <1>4

\* publish publishes a lesson that is complete, and the first time leaves it to
\* be announced.
LEMMA PublishTold ==
    ASSUME IInv, LessonsTold, NEW r \in Request, LessonFresh(r), PublishCommit(r)
    PROVE  LessonsTold' /\ UnitsFresh(r)' /\ LessonFresh(r)'
<1> DEFINE l == req[r].lesson
           entity == [Entity(r) EXCEPT !.status = "published"]
           ls == OnlyLesson(l, entity)
<1>1. /\ l \in Lesson /\ Entity(r) \in LessonRow /\ LikeTable(l, Entity(r))
      /\ UNCHANGED <<minted, announced>> /\ req[r].op = "publish"
  BY SlotFacts DEF PublishCommit, Is, Holds, Entity, LessonFresh, Reading
<1>2. entity \in LessonRow /\ entity.status = "published"
  BY <1>1 DEF LessonRow
<1>3. ls \in [Lesson -> LessonRow \cup {None}] /\ ls[l] = entity /\ \A x \in Lesson \ {l} : ls[x] = None
  BY <1>1, <1>2 DEF OnlyLesson
<1>4. \/ Entity(r).pages /\ Entity(r).activity /\ WriteLessons(ls)
         /\ IF Entity(r).status = "draft" THEN Go(r, "announce") ELSE Answer(r)
      \/ UNCHANGED lessons /\ Answer(r)
  BY DEF PublishCommit
<1>5. CASE UNCHANGED lessons /\ Answer(r)
  BY <1>1, <1>5, LessonsStay, AnswerFresh
<1>6. CASE /\ Entity(r).pages /\ Entity(r).activity /\ WriteLessons(ls)
           /\ IF Entity(r).status = "draft" THEN Go(r, "announce") ELSE Answer(r)
  <2> HIDE DEF ls, entity
  <2>0. ls[l] # None /\ lessons[l] # None
    BY <1>1, <1>2, <1>3, ContentAssumption DEF LikeTable, LessonRow
  <2>1. /\ lessons'[l] # None /\ lessons'[l].status = "published"
        /\ lessons'[l].pages = lessons[l].pages /\ lessons'[l].activity = lessons[l].activity
    BY <1>1, <1>2, <1>3, <1>6, <2>0, WrittenBack
  <2>2. Truthful(l)
    BY <1>1, <1>6, <2>1 DEF Truthful, LikeTable
  <2>3. \A x \in Lesson \ {l} : lessons'[x] = lessons[x]
    BY <1>3, <1>6 DEF WriteLessons
  <2>4. LessonsTold'
    <3>1. \A x \in Lesson : Truthful(x)
      BY <2>2, <2>3, SameLesson
    <3> QED
      BY <1>1, <3>1, LessonsWritten
  <2>5. CASE Answer(r)
    BY <2>4, <2>5, AnswerFresh
  <2>6. CASE Entity(r).status = "draft" /\ Go(r, "announce")
    <3>1. req[r] \in Slot /\ req'[r] = [req[r] EXCEPT !.at = "announce", !.reply = None]
      BY <2>6, SlotFacts DEF Go, IInv, SlotsOK
    <3>2. req'[r].at = "announce" /\ req'[r].op = "publish" /\ req'[r].lesson = l
      BY <1>1, <3>1 DEF Slot
    <3>3. announced[l] = "never"
      BY <1>1, <2>6 DEF LessonsTold, Heard, LikeTable
    <3>4. announced'[l] = "never"
      BY <1>1, <3>3
    <3> QED
      BY <2>1, <2>4, <3>2, <3>4 DEF UnitsFresh, LessonFresh, Is, Reading
  <2> QED
    BY <1>6, <2>5, <2>6
<1> QED
  BY <1>4, <1>5, <1>6

\* Announcing is done once, because the lesson was not announced.
LEMMA AnnounceTold ==
    ASSUME IInv, LessonsTold, Minted, NEW r \in Request, LessonFresh(r), Announce(r)
    PROVE  LessonsTold'
<1>1. /\ req[r].at = "announce" /\ announced[req[r].lesson] = "never"
      /\ lessons[req[r].lesson] # None /\ lessons[req[r].lesson].status = "published"
  BY DEF Announce, Is, LessonFresh
<1>2. req[r].lesson \in Lesson
  BY SlotFacts DEF Announce, Is, Holds
<1>3. announced' = [announced EXCEPT ![req[r].lesson] = "once"] /\ UNCHANGED <<lessons, minted>>
  BY <1>1 DEF Announce
<1>4. announced'[req[r].lesson] = "once"
      /\ \A l \in Lesson \ {req[r].lesson} : announced'[l] = announced[l]
  BY <1>2, <1>3 DEF IInv, Tables
<1>5. PublishedIsComplete'
  BY <1>3 DEF LessonsTold, PublishedIsComplete
<1>6. AnnouncedOnce'
  BY <1>4 DEF LessonsTold, AnnouncedOnce
<1>7. Heard'
  BY <1>1, <1>2, <1>3, <1>4 DEF LessonsTold, Heard, Minted
<1> QED
  BY <1>5, <1>6, <1>7 DEF LessonsTold

\* A new order of the lessons changes no status.
LEMMA ReorderTold ==
    ASSUME IInv, LessonsTold, NEW r \in Request, LessonFresh(r), ReorderLessonsCommit(r)
    PROVE  LessonsTold'
<1>1. /\ Is(r, "reorder_lessons", "write") /\ UNCHANGED <<minted, announced>>
      /\ req[r].ls \in [Lesson -> LessonRow \cup {None}]
      /\ \A l \in Lesson : req[r].ls[l] # None => lessons[l] # None /\ req[r].ls[l].status = lessons[l].status
  BY SlotFacts DEF ReorderLessonsCommit, LessonFresh
<1>2. CASE UNCHANGED lessons
  BY <1>1, <1>2, LessonsStay
<1>3. CASE WriteLessons(req[r].ls)
  <2>1. ASSUME NEW l \in Lesson
        PROVE  Truthful(l)
    <3>1. CASE req[r].ls[l] = None
      BY <1>3, <3>1, SameLesson DEF WriteLessons
    <3>2. CASE req[r].ls[l] # None
      BY <1>1, <1>3, <3>2, WrittenBack, SameLesson
    <3> QED
      BY <3>1, <3>2
  <2> QED
    BY <1>1, <2>1, LessonsWritten
<1> QED
  BY <1>2, <1>3 DEF ReorderLessonsCommit

\* A lesson that is deleted tells nothing any more.
LEMMA DeleteTold ==
    ASSUME IInv, LessonsTold, NEW r \in Request, DeleteLessonCommit(r)
    PROVE  LessonsTold'
<1>1. \A l \in Lesson : lessons'[l] = lessons[l] \/ lessons'[l] = None
  BY DEF DeleteLessonCommit, IInv, Tables
<1>2. UNCHANGED announced /\ minted \subseteq minted'
  BY DEF DeleteLessonCommit
<1> QED
  BY <1>1, <1>2, SameLesson, LessonsWritten

\* What a lesson handler will write is what there is, when it has read it.
LEMMA LessonsReadFresh ==
    ASSUME IInv, Minted, LessonsTold, NEW r \in Request, UnitsFresh(r), LessonFresh(r),
           \/ \E l \in Lesson : CreateLessonCount(r, l)
           \/ UpdateLessonUnit(r) \/ UpdateLessonMove(r) \/ ReorderLessonsRead(r)
    PROVE  UnitsFresh(r)' /\ LessonFresh(r)'
<1>0. req[r] \in Slot /\ req \in [Request -> Slot]
  BY SlotFacts DEF IInv, SlotsOK
<1>1. ASSUME NEW l \in Lesson, CreateLessonCount(r, l)
      PROVE  UnitsFresh(r)' /\ LessonFresh(r)'
  <2> DEFINE row == [unit |-> req[r].unit, order |-> Cardinality(InUnit(req[r].unit)),
                     status |-> "draft", pages |-> FALSE, activity |-> FALSE]
  <2>0. row.status = "draft"
    OBVIOUS
  <2>1. req' = [req EXCEPT ![r].at = "write", ![r].lesson = l, ![r].ls = OnlyLesson(l, row)]
    BY <1>1 DEF CreateLessonCount
  <2> HIDE DEF row
  <2>2. req'[r] = [req[r] EXCEPT !.at = "write", !.lesson = l, !.ls = OnlyLesson(l, row)]
    BY <1>0, <2>1
  <2>3. /\ req'[r].op = "create_lesson" /\ req'[r].at = "write" /\ req'[r].lesson = l
        /\ req'[r].ls = OnlyLesson(l, row)
    BY <1>0, <1>1, <2>2 DEF Slot, CreateLessonCount, Is
  <2>4. Entity(r)' = row
    BY <2>3 DEF Entity, OnlyLesson
  <2>5. lessons' = lessons /\ announced' = announced /\ l \in minted' /\ l \notin minted
    BY <1>1 DEF CreateLessonCount
  <2>6. lessons[l] = None /\ announced[l] = "never"
    BY <2>5 DEF Minted, LessonsTold, Heard
  <2> QED
    BY <2>0, <2>3, <2>4, <2>5, <2>6 DEF UnitsFresh, LessonFresh, Is
<1>2. CASE UpdateLessonUnit(r)
  <2>1. CASE Answer(r)
    BY <2>1, AnswerFresh
  <2>2. CASE Go(r, "move")
    <3>1. req'[r] = [req[r] EXCEPT !.at = "move", !.reply = None]
      BY <1>0, <2>2 DEF Go
    <3>2. /\ req'[r].op = req[r].op /\ req'[r].at = "move" /\ req'[r].unit = req[r].unit
          /\ req'[r].lesson = req[r].lesson /\ req'[r].us = req[r].us /\ req'[r].ls = req[r].ls
      BY <1>0, <3>1 DEF Slot
    <3> QED
      BY <1>2, <3>2, GoesOn DEF UpdateLessonUnit, Is
  <2> QED
    BY <1>2, <2>1, <2>2 DEF UpdateLessonUnit
<1>3. ASSUME NEW ls, KeepLessons(r, ls)
      PROVE  /\ req'[r].op = req[r].op /\ req'[r].at = "write" /\ req'[r].unit = req[r].unit
             /\ req'[r].lesson = req[r].lesson /\ req'[r].us = req[r].us /\ req'[r].ls = ls
  <2>1. req'[r] = [req[r] EXCEPT !.at = "write", !.reply = None, !.ls = ls]
    BY <1>0, <1>3 DEF KeepLessons
  <2> QED
    BY <1>0, <2>1 DEF Slot
<1>4. CASE UpdateLessonMove(r)
  <2> DEFINE row == [Entity(r) EXCEPT !.unit = req[r].unit, !.order = Cardinality(InUnit(req[r].unit))]
  <2>1. /\ req[r].op = "update_lesson" /\ req[r].lesson \in Lesson /\ Entity(r) \in LessonRow
        /\ LikeTable(req[r].lesson, Entity(r)) /\ UNCHANGED <<units, lessons>>
    BY <1>4, SlotFacts DEF UpdateLessonMove, Is, Holds, Entity, LessonFresh, Reading
  <2>2. row.status = Entity(r).status /\ row.pages = Entity(r).pages /\ row.activity = Entity(r).activity
    BY <2>1 DEF LessonRow
  <2>3. Answer(r) \/ KeepLessons(r, OnlyLesson(req[r].lesson, row))
    BY <1>4 DEF UpdateLessonMove
  <2> HIDE DEF row
  <2>4. CASE KeepLessons(r, OnlyLesson(req[r].lesson, row))
    <3>1. /\ req'[r].op = "update_lesson" /\ req'[r].at = "write" /\ req'[r].lesson = req[r].lesson
          /\ req'[r].ls = OnlyLesson(req[r].lesson, row)
      BY <1>3, <2>1, <2>4
    <3>2. Entity(r)' = row
      BY <2>1, <3>1 DEF Entity, OnlyLesson
    <3>3. LikeTable(req[r].lesson, Entity(r))'
      BY <2>1, <2>2, <3>1, <3>2 DEF LikeTable
    <3> QED
      BY <3>1, <3>3 DEF UnitsFresh, LessonFresh, Is
  <2> QED
    BY <2>3, <2>4, AnswerFresh
<1>5. CASE ReorderLessonsRead(r)
  <2>1. PICK p \in Orders(InUnit(req[r].unit)) :
          KeepLessons(r, [l \in Lesson |->
             IF l \in InUnit(req[r].unit) THEN [lessons[l] EXCEPT !.order = p[l]] ELSE None])
    BY <1>5 DEF ReorderLessonsRead
  <2> DEFINE ls == [l \in Lesson |->
             IF l \in InUnit(req[r].unit) THEN [lessons[l] EXCEPT !.order = p[l]] ELSE None]
  <2>2. ASSUME NEW l \in Lesson, ls[l] # None
        PROVE  lessons[l] # None /\ ls[l].status = lessons[l].status
    <3>1. l \in InUnit(req[r].unit) /\ lessons[l] # None
      BY <2>2 DEF InUnit
    <3>2. lessons[l] \in LessonRow
      BY <3>1 DEF IInv, Tables
    <3> QED
      BY <3>1, <3>2 DEF LessonRow
  <2>3. req[r].op = "reorder_lessons" /\ lessons' = lessons
    BY <1>5 DEF ReorderLessonsRead, Is
  <2> HIDE DEF ls
  <2>4. req'[r].op = "reorder_lessons" /\ req'[r].at = "write" /\ req'[r].ls = ls
    BY <1>3, <2>1, <2>3 DEF ls
  <2> QED
    BY <2>2, <2>3, <2>4 DEF UnitsFresh, LessonFresh, Is
<1> QED
  BY <1>1, <1>2, <1>4, <1>5

-----------------------------------------------------------------------------
(* Every step.                                                             *)

\* The answers of classroom-service change nothing of what a handler holds.
LEMMA AskedFresh ==
    ASSUME IInv, NEW r \in Request, UnitsFresh(r), LessonFresh(r),
           Ask(r) \/ PassOwner(r) \/ PassEditor(r)
    PROVE  UnitsFresh(r)' /\ LessonFresh(r)'
<1>0. req[r] \in Slot /\ req \in [Request -> Slot]
  BY SlotFacts DEF IInv, SlotsOK
<1>1. ASSUME NEW at, Go(r, at)
      PROVE  /\ req'[r].op = req[r].op /\ req'[r].at = at /\ req'[r].unit = req[r].unit
             /\ req'[r].lesson = req[r].lesson /\ req'[r].us = req[r].us /\ req'[r].ls = req[r].ls
  <2>1. req'[r] = [req[r] EXCEPT !.at = at, !.reply = None]
    BY <1>0, <1>1 DEF Go
  <2> QED
    BY <1>0, <2>1 DEF Slot
<1>2. CASE Ask(r)
  <2>1. req'[r] = [req[r] EXCEPT !.reply = Access(Role(r))]
    BY <1>0, <1>2 DEF Ask
  <2>2. /\ req'[r].op = req[r].op /\ req'[r].at = req[r].at /\ req'[r].unit = req[r].unit
        /\ req'[r].lesson = req[r].lesson /\ req'[r].us = req[r].us /\ req'[r].ls = req[r].ls
    BY <1>0, <2>1 DEF Slot
  <2> QED
    BY <1>2, <2>2, GoesOn DEF Ask
<1>3. CASE PassOwner(r)
  <2>1. /\ req[r].at = "owner" /\ UNCHANGED <<units, lessons, announced, minted>>
        /\ Go(r, "editor") \/ Answer(r)
    BY <1>3 DEF PassOwner
  <2>2. CASE Go(r, "editor")
    BY <1>1, <2>1, <2>2, GoesOn
  <2> QED
    BY <2>1, <2>2, AnswerFresh
<1>4. CASE PassEditor(r)
  <2>1. /\ req[r].at = "editor" /\ UNCHANGED <<units, lessons, announced, minted>>
        /\ Go(r, "work") \/ Answer(r)
    BY <1>4 DEF PassEditor
  <2>2. CASE Go(r, "work")
    BY <1>1, <2>1, <2>2, GoesOn
  <2> QED
    BY <2>1, <2>2, AnswerFresh
<1> QED
  BY <1>2, <1>3, <1>4

\* After each of its own steps, what a handler holds is what there is.
LEMMA StepFresh ==
    ASSUME IInv, Minted, LessonsTold, NEW r \in Request, UnitsFresh(r), LessonFresh(r), Step(r)
    PROVE  UnitsFresh(r)' /\ LessonFresh(r)'
<1>1. CASE Answer(r)
  BY <1>1, AnswerFresh
<1>2. CASE Begin(r)
  BY <1>2, BeginsFresh
<1>3. CASE Ask(r) \/ PassOwner(r) \/ PassEditor(r)
  BY <1>3, AskedFresh
<1>4. CASE (\E u \in Unit : CreateUnitCount(r, u)) \/ ReorderUnitsRead(r) \/ DeleteUnitRows(r)
  BY <1>4, UnitsReadFresh
<1>5. CASE \/ \E l \in Lesson : CreateLessonCount(r, l)
           \/ UpdateLessonUnit(r) \/ UpdateLessonMove(r) \/ ReorderLessonsRead(r)
  BY <1>5, LessonsReadFresh
<1>6. CASE PublishCommit(r)
  BY <1>6, PublishTold
<1>7. CASE \/ CreateUnitCommit(r) \/ UpdateUnitCommit(r) \/ ReorderUnitsCommit(r) \/ DeleteUnitCommit(r)
           \/ CreateLessonCommit(r) \/ UpdateLessonCommit(r) \/ SetActivityCommit(r) \/ Announce(r)
           \/ ReorderLessonsCommit(r) \/ DeleteLessonCommit(r) \/ Fail(r)
  <2>1. Answer(r)
    BY <1>7 DEF CreateUnitCommit, UpdateUnitCommit, ReorderUnitsCommit, DeleteUnitCommit,
                CreateLessonCommit, UpdateLessonCommit, SetActivityCommit, Announce,
                ReorderLessonsCommit, DeleteLessonCommit, Fail
  <2> QED
    BY <1>1, <2>1
<1> QED
  BY <1>2, <1>3, <1>4, <1>5, <1>6, <1>7 DEF Step

\* Only the commits of the unit handlers change a position.
LEMMA StepNumbered ==
    ASSUME IInv, Numbered, NEW r \in Request, UnitsFresh(r), Step(r)
    PROVE  Numbered'
<1>1. \/ CreateUnitCommit(r) \/ UpdateUnitCommit(r) \/ ReorderUnitsCommit(r) \/ DeleteUnitCommit(r)
      \/ UNCHANGED units
  BY DEF Step, Begin, OnClass, OnUnit, OnLesson, Start, Ask, PassOwner, PassEditor, CreateUnitCount,
         ReorderUnitsRead, DeleteUnitRows, CreateLessonCount, CreateLessonCommit, UpdateLessonUnit,
         UpdateLessonMove, UpdateLessonCommit, SetActivityCommit, PublishCommit, Announce,
         ReorderLessonsRead, ReorderLessonsCommit, DeleteLessonCommit, Fail
<1> QED
  BY <1>1, UnitsCommit, UnitsStay

\* No step of a handler tells a lesson wrong.
LEMMA StepTold ==
    ASSUME IInv, Minted, LessonsTold, NEW r \in Request, LessonFresh(r), Step(r)
    PROVE  LessonsTold'
<1>1. \/ CreateLessonCommit(r) \/ UpdateLessonCommit(r) \/ SetActivityCommit(r) \/ PublishCommit(r)
      \/ Announce(r) \/ ReorderLessonsCommit(r) \/ DeleteLessonCommit(r)
      \/ UNCHANGED <<lessons, announced>> /\ minted \subseteq minted'
  BY DEF Step, Begin, OnClass, OnUnit, OnLesson, Start, Ask, PassOwner, PassEditor, CreateUnitCount,
         CreateUnitCommit, UpdateUnitCommit, ReorderUnitsRead, ReorderUnitsCommit, DeleteUnitRows,
         DeleteUnitCommit, CreateLessonCount, UpdateLessonUnit, UpdateLessonMove,
         ReorderLessonsRead, Fail
<1> QED
  BY <1>1, CreateLessonTold, SaveTold, PublishTold, AnnounceTold, ReorderTold, DeleteTold, LessonsStay

\* No unit and no lesson appears without an id that was given out.
LEMMA NoneUnknown ==
    ASSUME Minted, minted \subseteq minted',
           \A u \in Unit : units'[u] # None => units[u] # None \/ u \in minted,
           \A l \in Lesson : lessons'[l] # None => lessons[l] # None \/ l \in minted
    PROVE  Minted'
BY DEF Minted, Existing

\* No step of a handler makes a unit or a lesson without an id that was given out.
LEMMA StepMinted ==
    ASSUME IInv, Minted, NEW r \in Request, UnitsFresh(r), LessonFresh(r), Step(r)
    PROVE  Minted'
<1>0. /\ units \in [Unit -> Nat \cup {None}] /\ lessons \in [Lesson -> LessonRow \cup {None}]
      /\ req[r].unit \in Unit \cup {None}
  BY SlotFacts DEF IInv, Tables, Slot
<1>1. CASE UNCHANGED <<units, lessons>> /\ minted \subseteq minted'
  BY <1>1, NoneUnknown
<1>2. CASE CreateUnitCommit(r)
  <2>1. req[r].unit \in minted /\ minted' = minted /\ lessons' = lessons
        /\ \A u \in Unit : u # req[r].unit => units'[u] = units[u]
    BY <1>0, <1>2 DEF CreateUnitCommit, UnitsFresh
  <2> QED
    BY <2>1, NoneUnknown
<1>3. CASE UpdateUnitCommit(r) \/ ReorderUnitsCommit(r) \/ DeleteUnitCommit(r)
  <2>1. \A u \in Unit : units'[u] # None => units[u] # None
    BY <1>0, <1>3 DEF UpdateUnitCommit, ReorderUnitsCommit, DeleteUnitCommit, WriteUnits
  <2>2. minted' = minted /\ lessons' = lessons
    BY <1>3 DEF UpdateUnitCommit, ReorderUnitsCommit, DeleteUnitCommit
  <2> QED
    BY <2>1, <2>2, NoneUnknown
<1>4. CASE CreateLessonCommit(r)
  <2>1. req[r].lesson \in minted /\ minted' = minted /\ units' = units
        /\ \A l \in Lesson : l # req[r].lesson => lessons'[l] = lessons[l]
    BY <1>0, <1>4 DEF CreateLessonCommit, LessonFresh
  <2> QED
    BY <2>1, NoneUnknown
<1>5. CASE \/ UpdateLessonCommit(r) \/ SetActivityCommit(r) \/ PublishCommit(r)
           \/ ReorderLessonsCommit(r) \/ DeleteLessonCommit(r)
  <2>1. \A l \in Lesson : lessons'[l] # None => lessons[l] # None
    <3>1. CASE UpdateLessonCommit(r)
      BY <1>0, <3>1 DEF UpdateLessonCommit
    <3>2. CASE SetActivityCommit(r)
      BY <1>0, <3>2 DEF SetActivityCommit
    <3>3. CASE PublishCommit(r)
      BY <1>0, <3>3 DEF PublishCommit, WriteLessons
    <3>4. CASE ReorderLessonsCommit(r) \/ DeleteLessonCommit(r)
      BY <1>0, <3>4 DEF ReorderLessonsCommit, DeleteLessonCommit, WriteLessons
    <3> QED
      BY <1>5, <3>1, <3>2, <3>3, <3>4
  <2>2. minted' = minted /\ units' = units
    BY <1>5 DEF UpdateLessonCommit, SetActivityCommit, PublishCommit, ReorderLessonsCommit, DeleteLessonCommit
  <2> QED
    BY <2>1, <2>2, NoneUnknown
<1>6. \/ CreateUnitCommit(r) \/ UpdateUnitCommit(r) \/ ReorderUnitsCommit(r) \/ DeleteUnitCommit(r)
      \/ CreateLessonCommit(r) \/ UpdateLessonCommit(r) \/ SetActivityCommit(r) \/ PublishCommit(r)
      \/ ReorderLessonsCommit(r) \/ DeleteLessonCommit(r)
      \/ UNCHANGED <<units, lessons>> /\ minted \subseteq minted'
  BY DEF Step, Begin, OnClass, OnUnit, OnLesson, Start, Ask, PassOwner, PassEditor, CreateUnitCount,
         ReorderUnitsRead, DeleteUnitRows, CreateLessonCount, UpdateLessonUnit, UpdateLessonMove,
         ReorderLessonsRead, Announce, Fail
<1> QED
  BY <1>1, <1>2, <1>3, <1>4, <1>5, <1>6

-----------------------------------------------------------------------------
(* The inductive invariant, and what follows from it.                      *)

\* The inductive invariant of one handler at a time.
Serial == IInv /\ InStep /\ Numbered /\ LessonsTold /\ Minted

\* At first there is nothing, and no handler is at work.
LEMMA SerialInit == Init => Serial
<1> SUFFICES ASSUME Init PROVE Serial
  OBVIOUS
<1>1. IInv
  BY DEF Init, IInv, Tables, SlotsOK, Slot, Op, Phase, Holds, IdleSlot, NoUnits, NoLessons,
         LessonsHaveUnits
<1>2. \A r \in Request : req[r].at = "idle"
  BY DEF Init, IdleSlot
<1>3. InStep
  BY <1>2 DEF InStep, UnitsFresh, LessonFresh, Is, Reading
<1>4. Existing = {}
  BY DEF Init, Existing, NoUnits
<1>5. Numbered
  BY <1>4 DEF Numbered, Orders
<1>6. LessonsTold /\ Minted
  BY <1>4 DEF Init, NoLessons, LessonsTold, Heard, PublishedIsComplete, AnnouncedOnce, Minted
<1> QED
  BY <1>1, <1>3, <1>5, <1>6 DEF Serial

\* What is not a step of a handler leaves units, lessons and handlers alone...
LEMMA ElsewhereKeeps ==
    ASSUME Serial, IInv', UNCHANGED <<units, lessons, minted, announced, req>>
    PROVE  Serial'
<1>1. Numbered' /\ LessonsTold'
  BY UnitsStay, LessonsStay DEF Serial
<1>2. Minted'
  BY NoneUnknown DEF Serial
<1>3. ASSUME NEW r \in Request PROVE UnitsFresh(r)' /\ LessonFresh(r)'
  BY <1>3, GoesOn DEF Serial, InStep
<1> QED
  BY <1>1, <1>2, <1>3 DEF Serial, InStep

\* ... but for the deletion of the class, which finds no handler at work.
LEMMA EmptyClassSerial ==
    ASSUME OneHandler, Serial, IInv', NEW r \in Request, EmptyClass(r)
    PROVE  Serial'
<1>1. \A q \in Request : req'[q].at = "idle"
  BY DEF EmptyClass, Elsewhere, OneHandler
<1>2. InStep'
  BY <1>1, IdleFresh DEF InStep
<1>3. Existing' = {}
  BY DEF EmptyClass, NoUnits, Existing
<1>4. Numbered'
  BY <1>3 DEF Numbered, Orders
<1>5. /\ \A l \in Lesson : lessons'[l] = None
      /\ \A u \in Unit : units'[u] = None
      /\ UNCHANGED <<minted, announced>>
  BY DEF EmptyClass, Elsewhere, NoLessons, NoUnits
<1>6. LessonsTold'
  BY <1>5, SameLesson, LessonsWritten DEF Serial
<1>7. Minted'
  BY <1>5, NoneUnknown DEF Serial
<1> QED
  BY <1>2, <1>4, <1>6, <1>7 DEF Serial

\* No step breaks it.
LEMMA SerialStep == ASSUME OneHandler, Serial, [Next]_vars PROVE Serial'
<1>0. IInv'
  BY StepKeeps DEF Serial
<1>1. ASSUME NEW r \in Request, Step(r) PROVE Serial'
  <2>1. UnitsFresh(r) /\ LessonFresh(r)
    BY DEF Serial, InStep
  <2>2. UnitsFresh(r)' /\ LessonFresh(r)'
    BY <1>1, <2>1, StepFresh DEF Serial
  <2>3. InStep'
    <3> SUFFICES ASSUME NEW q \in Request PROVE UnitsFresh(q)' /\ LessonFresh(q)'
      BY DEF InStep
    <3>1. q = r
      BY DEF OneHandler
    <3> QED
      BY <2>2, <3>1
  <2>4. Numbered' /\ LessonsTold' /\ Minted'
    BY <1>1, <2>1, StepNumbered, StepTold, StepMinted DEF Serial
  <2> QED
    BY <1>0, <2>3, <2>4 DEF Serial
<1>2. CASE \E role \in {"teacher", "editor"} : Forget(role)
  BY <1>0, <1>2, ElsewhereKeeps DEF Forget
<1>3. CASE ArchiveClass \/ RestoreClass \/ BeginDeletion \/ DropClass \/ KeepClass
  BY <1>0, <1>3, ElsewhereKeeps
  DEF ArchiveClass, RestoreClass, BeginDeletion, DropClass, KeepClass, Become, Elsewhere, content
<1>4. CASE \E r \in Request : EmptyClass(r)
  BY <1>0, <1>4, EmptyClassSerial
<1>5. CASE UNCHANGED vars
  BY <1>0, <1>5, ElsewhereKeeps DEF vars
<1> QED
  BY <1>1, <1>2, <1>3, <1>4, <1>5 DEF Next

\* With one handler at a time, what a handler holds is what there is, in every
\* state.
THEOREM SerialHolds == ASSUME OneHandler PROVE Spec => []Serial
<1>1. Init => Serial
  BY SerialInit
<1>2. Serial /\ [Next]_vars => Serial'
  BY SerialStep
<1> QED
  BY <1>1, <1>2, PTL DEF Spec

\* With one handler at a time, the positions of the units leave no gap and none
\* is taken twice.
THEOREM UnitsKeepOrder == ASSUME OneHandler PROVE Spec => []UnitsInOrder
<1>1. Serial => UnitsInOrder
  BY InOrder DEF Serial
<1> QED
  BY <1>1, SerialHolds, PTL

\* With one handler at a time, what kids see is never saved with a part missing.
THEOREM WhatKidsSeeIsComplete == ASSUME OneHandler PROVE Spec => []PublishedIsComplete
<1>1. Serial => PublishedIsComplete
  BY DEF Serial, LessonsTold
<1> QED
  BY <1>1, SerialHolds, PTL

\* With one handler at a time, a class hears about a lesson once, however often
\* it is published, edited and moved.
THEOREM HeardOnce == ASSUME OneHandler PROVE Spec => []AnnouncedOnce
<1>1. Serial => AnnouncedOnce
  BY DEF Serial, LessonsTold
<1> QED
  BY <1>1, SerialHolds, PTL
=============================================================================
