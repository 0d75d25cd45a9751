-------------------------- MODULE ClassroomProofs --------------------------
(***************************************************************************)
(* Proofs about ClassroomService, for any number of classes, kids, ids and *)
(* files: first for any number of handlers in flight, then for one at a    *)
(* time, and last the refinement of EnrollmentPromise.                     *)
(***************************************************************************)
EXTENDS ClassroomProperties, TLAPS

\* What one handler keeps in its slot is well typed.
LEMMA SlotType ==
    ASSUME TypeOK, NEW r \in Request
    PROVE  /\ req[r] \in Slot
           /\ req[r].seen \in [Classroom -> ClassRow \cup {NoClass}]
           /\ req[r].rows \subseteq Row
           /\ req[r].arg \in ArgOf(req[r].op, req[r].at)
<1>1. req[r] \in Slot
  BY DEF TypeOK
<1> QED
  BY <1>1 DEF Slot, TypeOK

\* The part of the type invariant about the slots.
SlotsOK(q) == /\ q \in [Request -> Slot]
              /\ \A r \in Request : q[r].arg \in ArgOf(q[r].op, q[r].at)

\* Filling a slot with a well-typed handler keeps every slot well typed.
LEMMA FillType ==
    ASSUME TypeOK, NEW r \in Request, NEW slot \in Slot,
           slot.arg \in ArgOf(slot.op, slot.at)
    PROVE  SlotsOK([req EXCEPT ![r] = slot])
BY DEF TypeOK, SlotsOK

\* A handler that only moves to its next phase stays well typed.
LEMMA GoType ==
    ASSUME TypeOK, NEW r \in Request, NEW at \in Phase, Go(r, at),
           req[r].op = "upload_logo" => req[r].at # "store" /\ at # "store"
    PROVE  SlotsOK(req)'
<1> DEFINE slot == [req[r] EXCEPT !.at = at]
<1>1. slot \in Slot
  BY SlotType DEF Slot
<1>2. req' = [req EXCEPT ![r] = slot]
  BY DEF Go, TypeOK
<1>3. slot.arg \in ArgOf(slot.op, slot.at)
  BY SlotType, <1>1 DEF ArgOf, Slot
<1> QED
  BY <1>1, <1>2, <1>3, FillType

\* A handler that keeps the rows it read stays well typed.
LEMMA KeepType ==
    ASSUME TypeOK, NEW r \in Request, NEW rows \in SUBSET Row, Keep(r, rows),
           req[r].op # "upload_logo"
    PROVE  SlotsOK(req)'
<1> DEFINE slot == [req[r] EXCEPT !.at = "write", !.rows = rows]
<1>1. slot \in Slot
  BY SlotType DEF Slot, Phase
<1>2. req' = [req EXCEPT ![r] = slot]
  BY DEF Keep, TypeOK
<1>3. slot.arg \in ArgOf(slot.op, slot.at)
  BY SlotType, <1>1 DEF ArgOf, Slot
<1> QED
  BY <1>1, <1>2, <1>3, FillType

\* An empty slot is well typed.
LEMMA IdleType == IdleSlot \in Slot /\ IdleSlot.arg \in ArgOf(IdleSlot.op, IdleSlot.at)
BY DEF IdleSlot, Slot, Op, Phase, ArgOf

\* The slots stay well typed when a handler ends.
LEMMA FinishType ==
    ASSUME TypeOK, NEW r \in Request, Finish(r)
    PROVE  SlotsOK(req)'
BY FillType, IdleType DEF Finish

\* What a handler holds of a class it touches is an entity.
LEMMA SeenType ==
    ASSUME TypeOK, NEW r \in Request
    PROVE  \A c \in Touched(r) : req[r].seen[c] \in ClassRow
BY SlotType DEF Touched

\* Writing entities back leaves a table of rows.
LEMMA WriteBackType ==
    ASSUME TypeOK, NEW S \in SUBSET Classroom, NEW entities \in [S -> ClassRow],
           WriteBack(entities)
    PROVE  classrooms' \in [Classroom -> ClassRow \cup {NoClass}]
BY DEF WriteBack, TypeOK

\* The slots stay well typed when a handler begins.
LEMMA StartType ==
    ASSUME TypeOK, NEW r \in Request, NEW op \in Op, NEW at \in Phase,
           NEW seen \in [Classroom -> ClassRow \cup {NoClass}],
           NEW arg \in Details \cup Student \cup Status \cup File \cup {Nothing},
           Start(r, op, at, seen, arg), arg \in ArgOf(op, at)
    PROVE  SlotsOK(req)'
<1> DEFINE slot == [op |-> op, at |-> at, seen |-> seen, rows |-> {}, arg |-> arg]
<1>1. slot \in Slot /\ slot.arg \in ArgOf(slot.op, slot.at)
  BY DEF Slot
<1> QED
  BY <1>1, FillType DEF Start

\* Reading one class gives a well-typed set of entities.
LEMMA OnlyType ==
    ASSUME TypeOK, NEW c \in Classroom
    PROVE  Only(c) \in [Classroom -> ClassRow \cup {NoClass}]
BY DEF TypeOK, Only

\* Appending known actions keeps the audit log well typed.
LEMMA LogType ==
    ASSUME TypeOK, NEW S, NEW action \in AuditAction, Log(S, action)
    PROVE  audit' \in [Classroom -> Seq(AuditAction)]
BY DEF TypeOK, Log

\* Changing the status of enrollments keeps their table well typed.
LEMMA SetStatusType ==
    ASSUME TypeOK, NEW ids, NEW status \in Status, SetStatus(ids, status)
    PROVE  enrollments' \subseteq Row
BY DEF TypeOK, SetStatus, Row

\* The empty tables and slots are well typed.
LEMMA TypeInit == Init => TypeOK
BY IdleType DEF Init, TypeOK

\* The handlers begin with well-typed slots.
LEMMA TypeBegin ==
    ASSUME TypeOK, NEW r \in Request, Begin(r)
    PROVE  TypeOK'
<1>1. ASSUME NEW c \in Classroom, NEW d \in Details, CreateClassroom(r, c, d)
      PROVE  TypeOK'
  <2>1. audit' \in [Classroom -> Seq(AuditAction)]
    BY <1>1, LogType DEF CreateClassroom, AuditAction
  <2>2. classrooms' \in [Classroom -> ClassRow \cup {NoClass}]
    BY <1>1 DEF CreateClassroom, TypeOK, ClassRow
  <2> QED
    BY <1>1, <2>1, <2>2 DEF CreateClassroom, TypeOK
<1>2. ASSUME NEW c \in Classroom, NEW op \in Op, NEW at \in Phase,
             NEW arg \in Details \cup Student \cup Status \cup File \cup {Nothing},
             Start(r, op, at, Only(c), arg), arg \in ArgOf(op, at),
             UNCHANGED <<db, stored, minted>>
      PROVE  TypeOK'
  BY <1>2, OnlyType, StartType DEF TypeOK, SlotsOK, db
<1>3. ASSUME NEW c \in Classroom, NEW d \in Details, UpdateRead(r, c, d)
      PROVE  TypeOK'
  BY <1>2, <1>3 DEF UpdateRead, Op, Phase, ArgOf
<1>4. ASSUME NEW c \in Classroom,
             \/ UploadRead(r, c) \/ RemoveLogoRead(r, c) \/ RemoveStudentRead(r, c)
             \/ ArchiveRead(r, c) \/ RestoreRead(r, c) \/ DeleteRead(r, c)
      PROVE  TypeOK'
  BY <1>2, <1>4 DEF UploadRead, RemoveLogoRead, RemoveStudentRead, ArchiveRead,
                    RestoreRead, DeleteRead, Op, Phase, ArgOf
<1>5. ASSUME NEW c \in Classroom, NEW decision \in {"accepted", "rejected"},
             ResolveRead(r, c, decision)
      PROVE  TypeOK'
  BY <1>2, <1>5 DEF ResolveRead, Op, Phase, Status, ArgOf
<1>6. ASSUME NEW c \in Classroom, NEW s \in Student, RequestRead(r, c, s)
      PROVE  TypeOK'
  BY <1>2, <1>6 DEF RequestRead, Op, Phase, ArgOf
<1>7. ASSUME NEW e \in enrollments, LeaveRead(r, e)
      PROVE  TypeOK'
  <2> DEFINE slot == [op |-> "leave_classroom", at |-> "write",
                      seen |-> IdleSlot.seen, rows |-> {e}, arg |-> Nothing]
  <2>1. slot \in Slot /\ slot.arg \in ArgOf(slot.op, slot.at)
    BY IdleType DEF Slot, Op, Phase, TypeOK, ArgOf
  <2>2. req' = [req EXCEPT ![r] = slot]
    BY <1>7 DEF LeaveRead
  <2> QED
    BY <1>7, <2>1, <2>2, FillType DEF LeaveRead, TypeOK, SlotsOK, db
<1>8. ASSUME NEW kids \in SUBSET Student, EraseStudents(r, kids)
      PROVE  TypeOK'
  BY <1>8 DEF EraseStudents, TypeOK
<1>9. ASSUME TeacherLeftRead(r)
      PROVE  TypeOK'
  <2>1. Start(r, "teacher_left", "rows", classrooms, Nothing)
    BY <1>9 DEF TeacherLeftRead
  <2>2. SlotsOK(req)'
    BY <2>1, StartType DEF TypeOK, Op, Phase, ArgOf
  <2> QED
    BY <1>9, <2>2 DEF TeacherLeftRead, TypeOK, SlotsOK, db
<1> QED
  BY <1>1, <1>3, <1>4, <1>5, <1>6, <1>7, <1>8, <1>9 DEF Begin

\* The writes of a handler keep the tables well typed.
LEMMA TypeContinue ==
    ASSUME TypeOK, NEW r \in Request, Continue(r)
    PROVE  TypeOK'
<1> USE SlotType
<1>1. CASE UpdateCommit(r)
  <2>1. req[r].arg \in Details
    BY <1>1 DEF UpdateCommit, Is, ArgOf
  <2>2. classrooms' \in [Classroom -> ClassRow \cup {NoClass}]
    <3> DEFINE entities == [c \in Touched(r) |-> [req[r].seen[c] EXCEPT !.details = req[r].arg]]
    <3>1. entities \in [Touched(r) -> ClassRow]
      BY <1>1, <2>1, SeenType DEF ClassRow
    <3> QED
      BY <1>1, <3>1, WriteBackType DEF UpdateCommit, Touched
  <2> QED
    BY <1>1, <2>2, FinishType DEF UpdateCommit, TypeOK, SlotsOK
<1>2. CASE UploadStore(r)
  <2>1. PICK f \in File \ minted :
             /\ stored' = stored \cup {f} /\ minted' = minted \cup {f}
             /\ req' = [req EXCEPT ![r].at = "write", ![r].arg = f]
    BY <1>2 DEF UploadStore
  <2> DEFINE slot == [req[r] EXCEPT !.at = "write", !.arg = f]
  <2>2. slot \in Slot /\ slot.arg \in ArgOf(slot.op, slot.at)
    BY <1>2 DEF UploadStore, Is, Slot, Phase, ArgOf
  <2>3. req' = [req EXCEPT ![r] = slot]
    BY <2>1 DEF TypeOK
  <2>4. SlotsOK(req)'
    BY <2>2, <2>3, FillType
  <2> QED
    BY <1>2, <2>1, <2>4 DEF UploadStore, TypeOK, SlotsOK, db
<1>3. CASE UploadCommit(r)
  <2>1. req[r].arg \in File
    BY <1>3 DEF UploadCommit, Is, ArgOf
  <2>2. classrooms' \in [Classroom -> ClassRow \cup {NoClass}]
    <3> DEFINE entities == [c \in Touched(r) |-> [req[r].seen[c] EXCEPT !.logo = req[r].arg]]
    <3>1. entities \in [Touched(r) -> ClassRow]
      BY <1>3, <2>1, SeenType DEF ClassRow
    <3> QED
      BY <1>3, <3>1, WriteBackType DEF UploadCommit, Touched
  <2> QED
    BY <1>3, <2>2, GoType DEF UploadCommit, Is, Phase, TypeOK, SlotsOK
<1>4. CASE UploadRollback(r)
  BY <1>4, FinishType DEF UploadRollback, TypeOK, SlotsOK, db
<1>5. CASE RemoveLogoCommit(r)
  <2>1. classrooms' \in [Classroom -> ClassRow \cup {NoClass}]
    <3> DEFINE entities == [c \in Touched(r) |-> [req[r].seen[c] EXCEPT !.logo = Nothing]]
    <3>1. entities \in [Touched(r) -> ClassRow]
      BY <1>5, SeenType DEF ClassRow
    <3> QED
      BY <1>5, <3>1, WriteBackType DEF RemoveLogoCommit, Touched
  <2> QED
    BY <1>5, <2>1, GoType DEF RemoveLogoCommit, Is, Phase, TypeOK, SlotsOK
<1>6. ASSUME NEW rows \in SUBSET Row, Keep(r, rows), req[r].op # "upload_logo",
             UNCHANGED <<db, stored, minted>>
      PROVE  TypeOK'
  BY <1>6, KeepType DEF TypeOK, SlotsOK, db
<1>7. CASE \/ RemoveStudentRows(r) \/ ArchiveRows(r) \/ RestoreRows(r)
           \/ ResolveRows(r) \/ RequestRows(r) \/ TeacherLeftRows(r)
  BY <1>6, <1>7 DEF RemoveStudentRows, ArchiveRows, RestoreRows, ResolveRows,
       RequestRows, TeacherLeftRows, Is, PendingOf, AcceptedOf, TypeOK
<1>8. CASE RemoveStudentCommit(r) \/ LeaveCommit(r)
  BY <1>8, GoType DEF RemoveStudentCommit, LeaveCommit, Is, Phase, DeleteIds,
       TypeOK, SlotsOK
<1>9. CASE ArchiveCommit(r)
  <2>1. classrooms' \in [Classroom -> ClassRow \cup {NoClass}]
    <3> DEFINE entities == [c \in Touched(r) |-> [req[r].seen[c] EXCEPT !.archived = TRUE]]
    <3>1. entities \in [Touched(r) -> ClassRow]
      BY <1>9, SeenType DEF ClassRow
    <3> QED
      BY <1>9, <3>1, WriteBackType DEF ArchiveCommit, Touched
  <2>2. audit' \in [Classroom -> Seq(AuditAction)]
    BY <1>9, LogType DEF ArchiveCommit, AuditAction
  <2> QED
    BY <1>9, <2>1, <2>2, GoType DEF ArchiveCommit, DeleteIds, Is, Phase, TypeOK,
         SlotsOK
<1>10. CASE RestoreCommit(r)
  <2>1. classrooms' \in [Classroom -> ClassRow \cup {NoClass}]
    <3> DEFINE entities == [c \in Touched(r) |-> [req[r].seen[c] EXCEPT !.archived = FALSE]]
    <3>1. entities \in [Touched(r) -> ClassRow]
      BY <1>10, SeenType DEF ClassRow
    <3> QED
      BY <1>10, <3>1, WriteBackType DEF RestoreCommit, Touched
  <2>2. audit' \in [Classroom -> Seq(AuditAction)]
    BY <1>10, LogType DEF RestoreCommit, AuditAction
  <2> QED
    BY <1>10, <2>1, <2>2, GoType DEF RestoreCommit, Is, Phase, TypeOK, SlotsOK
<1>11. CASE DeleteLessons(r)
  BY <1>11, GoType DEF DeleteLessons, Is, Phase, TypeOK, SlotsOK, db
<1>12. CASE DeleteCommit(r)
  <2>1. audit' \in [Classroom -> Seq(AuditAction)]
    BY <1>12, LogType DEF DeleteCommit, AuditAction
  <2> QED
    BY <1>12, <2>1, GoType DEF DeleteCommit, Is, Phase, TypeOK, SlotsOK
<1>13. CASE ResolveCommit(r)
  <2>1. req[r].arg \in Status
    BY <1>13 DEF ResolveCommit, Is, ArgOf, Status
  <2> QED
    BY <1>13, <2>1, GoType, SetStatusType DEF ResolveCommit, Is, Phase, TypeOK,
         SlotsOK
<1>14. CASE RequestAgainCommit(r)
  BY <1>14, GoType, SetStatusType DEF RequestAgainCommit, Is, Phase, Status, TypeOK,
       SlotsOK
<1>15. CASE RequestInsertCommit(r)
  <2>1. req[r].arg \in Student
    BY <1>15 DEF RequestInsertCommit, Is, ArgOf
  <2> QED
    BY <1>15, <2>1, GoType DEF RequestInsertCommit, Is, Phase, Status, Row, Touched,
         TypeOK, SlotsOK
<1>16. CASE TeacherLeftCommit(r)
  <2> DEFINE mine == {c \in Touched(r) : ~req[r].seen[c].left}
  <2>1. classrooms' \in [Classroom -> ClassRow \cup {NoClass}]
    <3> DEFINE entities == [c \in mine |-> [req[r].seen[c] EXCEPT !.left = TRUE]]
    <3>1. entities \in [mine -> ClassRow]
      BY SeenType DEF ClassRow
    <3> QED
      BY <1>16, <3>1, WriteBackType DEF TeacherLeftCommit, Touched
  <2>2. audit' \in [Classroom -> Seq(AuditAction)]
    BY <1>16, LogType DEF TeacherLeftCommit, AuditAction
  <2> QED
    BY <1>16, <2>1, <2>2, GoType DEF TeacherLeftCommit, DeleteIds, Is, Phase,
         TypeOK, SlotsOK
<1>18. CASE AfterCommit(r)
  BY <1>18, FinishType DEF AfterCommit, TypeOK, SlotsOK, db
<1>19. CASE Abort(r)
  BY <1>19, FinishType DEF Abort, TypeOK, SlotsOK, db
<1> QED
  BY <1>1, <1>2, <1>3, <1>4, <1>5, <1>7, <1>8, <1>9, <1>10, <1>11, <1>12, <1>13,
     <1>14, <1>15, <1>16, <1>18, <1>19 DEF Continue

\* Type correctness, for any number of classes, kids and handlers.
THEOREM TypeCorrect == Spec => []TypeOK
<1>1. TypeOK /\ UNCHANGED vars => TypeOK'
  BY DEF TypeOK, vars
<1>2. TypeOK /\ [Next]_vars => TypeOK'
  BY <1>1, TypeBegin, TypeContinue DEF Next
<1> QED
  BY <1>2, TypeInit, PTL DEF Spec

-----------------------------------------------------------------------------
(* The tables keep their integrity, whatever the handlers hold.            *)

\* A class that is there stays there when its new value is a row.
LEMMA RowsStay ==
    ASSUME TypeOK,
           \A c \in Classroom : classrooms[c] # NoClass =>
              classrooms'[c] \in ClassRow \/ classrooms'[c] = classrooms[c]
    PROVE  \A c \in Classroom : classrooms[c] # NoClass => classrooms'[c] # NoClass
BY ClassroomAssumption

\* Every commit that writes a class writes a row, and only over a row.
LEMMA WritesRows ==
    ASSUME TypeOK, NEW r \in Request,
           \/ UpdateCommit(r) \/ UploadCommit(r) \/ RemoveLogoCommit(r)
           \/ ArchiveCommit(r) \/ RestoreCommit(r) \/ TeacherLeftCommit(r)
    PROVE  \A c \in Classroom :
              \/ classrooms'[c] = classrooms[c]
              \/ /\ classrooms[c] # NoClass /\ classrooms'[c] \in ClassRow
                 /\ c \in Touched(r) /\ req[r].seen[c] \in ClassRow
<1>1. \A c \in Touched(r) : req[r].seen[c] \in ClassRow
  BY SlotType DEF Touched
<1>2. CASE UpdateCommit(r)
  <2>1. req[r].arg \in Details
    BY <1>2, SlotType DEF UpdateCommit, Is, ArgOf
  <2>2. \A c \in Touched(r) : [req[r].seen[c] EXCEPT !.details = req[r].arg] \in ClassRow
    BY <1>1, <2>1 DEF ClassRow
  <2> QED
    BY <1>1, <1>2, <2>2 DEF UpdateCommit, WriteBack, TypeOK
<1>3. CASE UploadCommit(r)
  <2>1. req[r].arg \in File
    BY <1>3, SlotType DEF UploadCommit, Is, ArgOf
  <2>2. \A c \in Touched(r) : [req[r].seen[c] EXCEPT !.logo = req[r].arg] \in ClassRow
    BY <1>1, <2>1 DEF ClassRow
  <2> QED
    BY <1>1, <1>3, <2>2 DEF UploadCommit, WriteBack, TypeOK
<1>4. CASE RemoveLogoCommit(r)
  <2>1. \A c \in Touched(r) : [req[r].seen[c] EXCEPT !.logo = Nothing] \in ClassRow
    BY <1>1 DEF ClassRow
  <2> QED
    BY <1>1, <1>4, <2>1 DEF RemoveLogoCommit, WriteBack, TypeOK
<1>5. CASE ArchiveCommit(r)
  <2>1. \A c \in Touched(r) : [req[r].seen[c] EXCEPT !.archived = TRUE] \in ClassRow
    BY <1>1 DEF ClassRow
  <2> QED
    BY <1>1, <1>5, <2>1 DEF ArchiveCommit, WriteBack, TypeOK
<1>6. CASE RestoreCommit(r)
  <2>1. \A c \in Touched(r) : [req[r].seen[c] EXCEPT !.archived = FALSE] \in ClassRow
    BY <1>1 DEF ClassRow
  <2> QED
    BY <1>1, <1>6, <2>1 DEF RestoreCommit, WriteBack, TypeOK
<1>7. CASE TeacherLeftCommit(r)
  <2>1. \A c \in Touched(r) : [req[r].seen[c] EXCEPT !.left = TRUE] \in ClassRow
    BY <1>1 DEF ClassRow
  <2> QED
    BY <1>1, <1>7, <2>1 DEF WriteBack, TeacherLeftCommit, TypeOK
<1> QED
  BY <1>2, <1>3, <1>4, <1>5, <1>6, <1>7

\* Every step, of any handler, keeps the enrollments whole: the cascade of
\* delete_classroom, the insert under the unique constraint, the writes by id.
LEMMA IntegrityStep ==
    ASSUME TypeOK, Integrity, [Next]_vars
    PROVE  Integrity'
<1>1. ASSUME \A c \in Classroom : classrooms[c] # NoClass => classrooms'[c] # NoClass,
             enrollments' \subseteq enrollments, minted \subseteq minted'
      PROVE  Integrity'
  BY <1>1 DEF Integrity, TypeOK, Row
<1>2. CASE UNCHANGED vars
  BY <1>1, <1>2 DEF vars
<1>3. ASSUME NEW ids, NEW status \in Status, SetStatus(ids, status),
             UNCHANGED <<classrooms, minted>>
      PROVE  Integrity'
  <2>1. ASSUME NEW e \in enrollments'
        PROVE  \E was \in enrollments : /\ was.id = e.id /\ was.student = e.student
                                        /\ was.classroom = e.classroom
                                        /\ e = IF was.id \in ids
                                               THEN [was EXCEPT !.status = status] ELSE was
    BY <1>3 DEF SetStatus, TypeOK, Row
  <2>2. ASSUME NEW e \in enrollments'
        PROVE  classrooms'[e.classroom] # NoClass /\ e.id \in minted'
    BY <1>3, <2>1 DEF Integrity
  <2>3. ASSUME NEW e \in enrollments', NEW f \in enrollments' \ {e}
        PROVE  f.id # e.id /\ ~(f.student = e.student /\ f.classroom = e.classroom)
    <3>1. PICK was \in enrollments : /\ was.id = e.id /\ was.student = e.student
                                     /\ was.classroom = e.classroom
                                     /\ e = IF was.id \in ids
                                            THEN [was EXCEPT !.status = status] ELSE was
      BY <2>1
    <3>2. PICK other \in enrollments : /\ other.id = f.id /\ other.student = f.student
                                       /\ other.classroom = f.classroom
                                       /\ f = IF other.id \in ids
                                              THEN [other EXCEPT !.status = status] ELSE other
      BY <2>1
    <3>3. other # was
      BY <2>3, <3>1, <3>2
    <3> QED
      BY <3>1, <3>2, <3>3 DEF Integrity
  <2> QED
    BY <2>2, <2>3 DEF Integrity
<1>4. ASSUME NEW r \in Request, Begin(r)
      PROVE  Integrity'
  <2>1. CASE \E c \in Classroom, d \in Details : CreateClassroom(r, c, d)
    <3>1. PICK c \in Classroom, d \in Details : CreateClassroom(r, c, d)
      BY <2>1
    <3>2. [details |-> d, logo |-> Nothing, archived |-> FALSE, left |-> FALSE] \in ClassRow
      BY DEF ClassRow
    <3>3. \A x \in Classroom : classrooms[x] # NoClass => classrooms'[x] # NoClass
      BY <3>1, <3>2, RowsStay DEF CreateClassroom, TypeOK
    <3> QED
      BY <1>1, <3>1, <3>3 DEF CreateClassroom
  <2>2. CASE \E kids \in SUBSET Student : EraseStudents(r, kids)
    BY <1>1, <2>2 DEF EraseStudents
  <2>3. CASE UNCHANGED <<db, stored, minted>>
    BY <1>1, <2>3 DEF db
  <2> QED
    BY <1>4, <2>1, <2>2, <2>3 DEF Begin, UpdateRead, UploadRead, RemoveLogoRead,
       RemoveStudentRead, ArchiveRead, RestoreRead, DeleteRead, ResolveRead,
       RequestRead, LeaveRead, TeacherLeftRead
<1>5. ASSUME NEW r \in Request, Continue(r)
      PROVE  Integrity'
  <2>1. CASE \/ UpdateCommit(r) \/ UploadCommit(r) \/ RemoveLogoCommit(r)
             \/ ArchiveCommit(r) \/ RestoreCommit(r) \/ TeacherLeftCommit(r)
    <3>1. \A c \in Classroom : classrooms[c] # NoClass => classrooms'[c] # NoClass
      BY <2>1, WritesRows, RowsStay
    <3>2. enrollments' \subseteq enrollments /\ minted' = minted
      BY <2>1 DEF UpdateCommit, UploadCommit, RemoveLogoCommit, ArchiveCommit,
                  RestoreCommit, TeacherLeftCommit, DeleteIds
    <3> QED
      BY <1>1, <3>1, <3>2
  <2>7. CASE DeleteCommit(r)
    BY <2>7 DEF DeleteCommit, Integrity, TypeOK, Row
  <2>8. CASE RemoveStudentCommit(r) \/ LeaveCommit(r)
    BY <1>1, <2>8 DEF RemoveStudentCommit, LeaveCommit, DeleteIds
  <2>9. CASE ResolveCommit(r)
    <3>1. req[r].arg \in Status
      BY <2>9, SlotType DEF ResolveCommit, Is, ArgOf, Status
    <3> QED
      BY <1>3, <2>9, <3>1 DEF ResolveCommit
  <2>10. CASE RequestAgainCommit(r)
    BY <1>3, <2>10 DEF RequestAgainCommit, Status
  <2>11. CASE RequestInsertCommit(r)
    BY <2>11 DEF RequestInsertCommit, Integrity, TypeOK, Row
  <2>12. CASE \/ UploadStore(r) \/ UploadRollback(r) \/ RemoveStudentRows(r)
              \/ ArchiveRows(r) \/ RestoreRows(r) \/ DeleteLessons(r)
              \/ ResolveRows(r) \/ RequestRows(r) \/ TeacherLeftRows(r)
              \/ AfterCommit(r) \/ Abort(r)
    BY <1>1, <2>12 DEF UploadStore, UploadRollback, RemoveStudentRows, ArchiveRows,
       RestoreRows, DeleteLessons, ResolveRows, RequestRows, TeacherLeftRows,
       AfterCommit, Abort, db
  <2> QED
    BY <1>5, <2>1, <2>7, <2>8, <2>9, <2>10, <2>11, <2>12 DEF Continue
<1> QED
  BY <1>2, <1>4, <1>5 DEF Next

\* Integrity, for any number of classes, kids and interleaved handlers.
THEOREM IntegrityHolds == Spec => []Integrity
<1>1. Init => Integrity
  BY DEF Init, Integrity
<1> QED
  BY <1>1, IntegrityStep, TypeCorrect, PTL DEF Spec

-----------------------------------------------------------------------------
(* Places are given only by handlers that found the class open.            *)

\* How the table of enrollments moves in one step: a row keeps its id, its kid
\* and its class, and a new one has a new id and waits.
LEMMA EnrollmentsMove ==
    ASSUME TypeOK, Next
    PROVE  /\ minted \subseteq minted'
           /\ \A e \in enrollments' :
                 \/ \E was \in enrollments :
                       was.id = e.id /\ was.student = e.student /\ was.classroom = e.classroom
                 \/ e.id \in minted' \ minted /\ e.status = "pending"
<1>1. PICK r \in Request : Begin(r) \/ Continue(r)
  BY DEF Next
<1>2. ASSUME enrollments' \subseteq enrollments, minted \subseteq minted'
      PROVE  /\ minted \subseteq minted'
             /\ \A e \in enrollments' : \E was \in enrollments :
                   was.id = e.id /\ was.student = e.student /\ was.classroom = e.classroom
  BY <1>2
<1>3. ASSUME NEW ids, NEW status, SetStatus(ids, status)
      PROVE  \A e \in enrollments' : \E was \in enrollments :
                was.id = e.id /\ was.student = e.student /\ was.classroom = e.classroom
  BY <1>3 DEF SetStatus, TypeOK, Row
<1>4. CASE Begin(r)
  BY <1>2, <1>4 DEF Begin, CreateClassroom, UpdateRead, UploadRead, RemoveLogoRead,
     RemoveStudentRead, ArchiveRead, RestoreRead, DeleteRead, ResolveRead,
     RequestRead, LeaveRead, EraseStudents, TeacherLeftRead, db
<1>5. CASE ResolveCommit(r)
  BY <1>3, <1>5 DEF ResolveCommit
<1>6. CASE RequestAgainCommit(r)
  BY <1>3, <1>6 DEF RequestAgainCommit
<1>7. CASE RequestInsertCommit(r)
  BY <1>7 DEF RequestInsertCommit
<1>8. CASE Continue(r) /\ ~ResolveCommit(r) /\ ~RequestAgainCommit(r)
           /\ ~RequestInsertCommit(r)
  BY <1>2, <1>8 DEF Continue, UpdateCommit, UploadStore, UploadCommit, UploadRollback,
     RemoveLogoCommit, RemoveStudentRows, RemoveStudentCommit, ArchiveRows,
     ArchiveCommit, RestoreRows, RestoreCommit, DeleteLessons, DeleteCommit,
     ResolveRows, RequestRows, LeaveCommit, TeacherLeftRows, TeacherLeftCommit,
     AfterCommit, Abort, DeleteIds, db
<1> QED
  BY <1>1, <1>4, <1>5, <1>6, <1>7, <1>8

\* A deleted enrollment is never revived, however the handlers interleave.
THEOREM NoRevival == Spec => ComesBackOnlyAsking
<1>1. TypeOK /\ [Next]_vars =>
        [\A e \in enrollments' :
            e.id \notin Ids(enrollments) => e.id \notin minted /\ e.status = "pending"]_vars
  BY EnrollmentsMove DEF Ids
<1> QED
  BY <1>1, TypeCorrect, PTL DEF Spec, ComesBackOnlyAsking

\* A deleted class is never revived, however the handlers interleave.
THEOREM DeletedStaysDeleted == Spec => DeletedForGood
<1>1. ASSUME TypeOK, Next, NEW c \in Classroom, classrooms[c] = NoClass, audit[c] # <<>>
      PROVE  classrooms'[c] = NoClass
  <2>1. PICK r \in Request : Begin(r) \/ Continue(r)
    BY <1>1 DEF Next
  <2>2. CASE \/ UpdateCommit(r) \/ UploadCommit(r) \/ RemoveLogoCommit(r)
             \/ ArchiveCommit(r) \/ RestoreCommit(r) \/ TeacherLeftCommit(r)
    BY <1>1, <2>2, WritesRows
  <2>3. CASE Begin(r)
    BY <1>1, <2>3 DEF Begin, CreateClassroom, UpdateRead, UploadRead, RemoveLogoRead,
       RemoveStudentRead, ArchiveRead, RestoreRead, DeleteRead, ResolveRead,
       RequestRead, LeaveRead, EraseStudents, TeacherLeftRead, db, TypeOK
  <2>4. CASE DeleteCommit(r)
    BY <1>1, <2>4 DEF DeleteCommit
  <2> QED
    BY <1>1, <2>1, <2>2, <2>3, <2>4 DEF Continue, UploadStore, UploadRollback,
       RemoveStudentRows, RemoveStudentCommit, ArchiveRows, RestoreRows, DeleteLessons,
       ResolveRows, ResolveCommit, RequestRows, RequestAgainCommit,
       RequestInsertCommit, LeaveCommit, TeacherLeftRows, AfterCommit,
       Abort, db
<1>2. TypeOK /\ [Next]_vars =>
        [\A c \in Classroom :
            classrooms[c] = NoClass /\ audit[c] # <<>> => classrooms'[c] = NoClass]_vars
  BY <1>1
<1> QED
  BY <1>2, TypeCorrect, PTL DEF Spec, DeletedForGood

\* What a handler holds stays true of the tables as they move.
LEMMA HeldRowsStay ==
    ASSUME TypeOK, Next, NEW r \in Request, HoldsOpenClasses(r),
           req'[r].op = req[r].op, req'[r].seen = req[r].seen, req'[r].rows = req[r].rows
    PROVE  HoldsOpenClasses(r)'
<1>1. Touched(r)' = Touched(r)
  BY DEF Touched
<1>2. ASSUME req[r].op \in {"resolve_request", "request_enrollment"},
             NEW was \in req[r].rows, NEW e \in enrollments', e.id = was.id
      PROVE  e.classroom = was.classroom
  BY <1>2, EnrollmentsMove DEF HoldsOpenClasses
<1> QED
  BY <1>1, <1>2, EnrollmentsMove DEF HoldsOpenClasses

\* Every step, of any handler, keeps what the handlers that give places hold.
LEMMA HoldsOpenStep ==
    ASSUME TypeOK, Integrity, HandlersHoldOpenClasses, Next
    PROVE  HandlersHoldOpenClasses'
<1>1. PICK r \in Request : Begin(r) \/ Continue(r)
  BY DEF Next
<1>2. ASSUME NEW q \in Request, req'[q] = req[q]
      PROVE  HoldsOpenClasses(q)'
  BY <1>2, HeldRowsStay DEF HandlersHoldOpenClasses
<1>3. ASSUME req'[r].op \notin {"resolve_request", "request_enrollment"}
      PROVE  HoldsOpenClasses(r)'
  BY <1>3 DEF HoldsOpenClasses
<1>4. ASSUME NEW at \in Phase, Go(r, at)
      PROVE  HoldsOpenClasses(r)'
  <2>1. req'[r] = [req[r] EXCEPT !.at = at]
    BY <1>4 DEF Go, TypeOK
  <2> QED
    BY <2>1, SlotType, HeldRowsStay DEF HandlersHoldOpenClasses, Slot
<1>5. ASSUME NEW c \in Classroom, NEW op \in Op, NEW arg, Editable(c),
             Start(r, op, "rows", Only(c), arg), UNCHANGED <<db, stored, minted>>
      PROVE  HoldsOpenClasses(r)'
  <2>1. req'[r] = [op |-> op, at |-> "rows", seen |-> Only(c), rows |-> {}, arg |-> arg]
    BY <1>5 DEF Start, TypeOK
  <2>2. Touched(r)' = {c}
    BY <1>5, <2>1 DEF Touched, Only, Editable, Own
  <2> QED
    BY <1>5, <2>1, <2>2 DEF HoldsOpenClasses, Only, Editable, Own
<1>6. ASSUME NEW rows \in SUBSET enrollments, Keep(r, rows),
             UNCHANGED <<db, stored, minted>>,
             \A e \in rows : e.classroom \in Touched(r),
             req[r].op = "resolve_request" => \A e \in rows : e.status = "pending"
      PROVE  HoldsOpenClasses(r)'
  <2>1. req'[r] = [req[r] EXCEPT !.at = "write", !.rows = rows]
    BY <1>6 DEF Keep, TypeOK
  <2>2. req'[r].op = req[r].op /\ req'[r].seen = req[r].seen /\ req'[r].rows = rows
    BY <2>1, SlotType DEF Slot
  <2>3. Touched(r)' = Touched(r)
    BY <2>2 DEF Touched
  <2>4. \A e \in rows : e.id \in minted /\ \A f \in enrollments : f.id = e.id => f = e
    BY <1>6 DEF Integrity
  <2> QED
    BY <1>6, <2>2, <2>3, <2>4 DEF HandlersHoldOpenClasses, HoldsOpenClasses, db
<1>7. ASSUME Begin(r)
      PROVE  HoldsOpenClasses(r)'
  <2>1. CASE \E c \in Classroom, decision \in {"accepted", "rejected"} :
                ResolveRead(r, c, decision)
    BY <1>5, <2>1 DEF ResolveRead, Op
  <2>2. CASE \E c \in Classroom, s \in Student : RequestRead(r, c, s)
    BY <1>5, <2>2 DEF RequestRead, Op
  <2>3. CASE UNCHANGED req
    BY <1>2, <2>3
  <2>4. ASSUME NEW op, NEW at, NEW seen, NEW arg, Start(r, op, at, seen, arg),
               op \notin {"resolve_request", "request_enrollment"}
        PROVE  HoldsOpenClasses(r)'
    <3>1. req'[r].op = op
      BY <2>4 DEF Start, TypeOK
    <3> QED
      BY <1>3, <2>4, <3>1
  <2>5. CASE \E c \in Classroom :
                \/ \E d \in Details : UpdateRead(r, c, d)
                \/ UploadRead(r, c) \/ RemoveLogoRead(r, c) \/ RemoveStudentRead(r, c)
                \/ ArchiveRead(r, c) \/ RestoreRead(r, c) \/ DeleteRead(r, c)
    BY <2>4, <2>5 DEF UpdateRead, UploadRead, RemoveLogoRead, RemoveStudentRead,
       ArchiveRead, RestoreRead, DeleteRead
  <2>6. CASE TeacherLeftRead(r)
    BY <2>4, <2>6 DEF TeacherLeftRead
  <2>7. CASE \E e \in enrollments : LeaveRead(r, e)
    <3>1. req'[r].op = "leave_classroom"
      BY <2>7 DEF LeaveRead, TypeOK
    <3> QED
      BY <1>3, <3>1
  <2> QED
    BY <1>7, <2>1, <2>2, <2>3, <2>5, <2>6, <2>7 DEF Begin, CreateClassroom, EraseStudents
<1>8. ASSUME Continue(r)
      PROVE  HoldsOpenClasses(r)'
  <2>1. CASE ResolveRows(r)
    BY <1>6, <2>1 DEF ResolveRows, PendingOf
  <2>2. CASE RequestRows(r)
    BY <1>6, <2>2 DEF RequestRows, Is
  <2>3. CASE ResolveCommit(r) \/ RequestAgainCommit(r) \/ RequestInsertCommit(r)
    BY <1>4, <2>3 DEF ResolveCommit, RequestAgainCommit, RequestInsertCommit, Phase
  <2>4. CASE Finish(r)
    <3>1. req'[r].op = "none"
      BY <2>4 DEF Finish, IdleSlot, TypeOK
    <3> QED
      BY <1>3, <3>1
  <2>5. ASSUME NEW op, req[r].op = op, op \notin {"resolve_request", "request_enrollment"},
               \/ \E at \in Phase : Go(r, at)
               \/ \E rows \in SUBSET Row : Keep(r, rows)
               \/ \E f : req' = [req EXCEPT ![r].at = "write", ![r].arg = f]
        PROVE  HoldsOpenClasses(r)'
    <3>1. req'[r].op = op
      BY <2>5, SlotType DEF Go, Keep, TypeOK, Slot
    <3> QED
      BY <1>3, <2>5, <3>1
  <2>6. CASE AfterCommit(r) \/ Abort(r)
    BY <2>4, <2>6 DEF AfterCommit, Abort
  <2>7. CASE UpdateCommit(r) \/ UploadRollback(r)
    BY <2>4, <2>7 DEF UpdateCommit, UploadRollback
  <2>8. CASE UploadStore(r)
    BY <2>5, <2>8 DEF UploadStore, Is
  <2>9. CASE \/ UploadCommit(r) \/ RemoveLogoCommit(r) \/ RemoveStudentCommit(r)
             \/ ArchiveCommit(r) \/ RestoreCommit(r) \/ DeleteLessons(r)
             \/ DeleteCommit(r) \/ LeaveCommit(r) \/ TeacherLeftCommit(r)
    BY <2>5, <2>9 DEF UploadCommit, RemoveLogoCommit, RemoveStudentCommit, ArchiveCommit,
       RestoreCommit, DeleteLessons, DeleteCommit, LeaveCommit, TeacherLeftCommit, Is,
       Phase
  <2>10. CASE \/ RemoveStudentRows(r) \/ ArchiveRows(r) \/ RestoreRows(r)
              \/ TeacherLeftRows(r)
    BY <2>5, <2>10 DEF RemoveStudentRows, ArchiveRows, RestoreRows, TeacherLeftRows,
       Is, PendingOf, AcceptedOf, TypeOK
  <2> QED
    BY <1>8, <2>1, <2>2, <2>3, <2>6, <2>7, <2>8, <2>9, <2>10 DEF Continue
<1>9. \A q \in Request \ {r} : req'[q] = req[q]
  BY <1>1 DEF Begin, CreateClassroom, UpdateRead, UploadRead, RemoveLogoRead,
     RemoveStudentRead, ArchiveRead, RestoreRead, DeleteRead, ResolveRead, RequestRead,
     LeaveRead, EraseStudents, TeacherLeftRead, Start, TypeOK,
     Continue, UpdateCommit, UploadStore, UploadCommit, UploadRollback,
     RemoveLogoCommit, RemoveStudentRows, RemoveStudentCommit, ArchiveRows,
     ArchiveCommit, RestoreRows, RestoreCommit, DeleteLessons, DeleteCommit,
     ResolveRows, ResolveCommit, RequestRows, RequestAgainCommit, RequestInsertCommit,
     LeaveCommit, TeacherLeftRows, TeacherLeftCommit, AfterCommit, Abort,
     Go, Keep, Finish
<1> QED
  BY <1>1, <1>2, <1>7, <1>8, <1>9 DEF HandlersHoldOpenClasses

\* resolve_request and request_enrollment hold only classes they found open,
\* and rows of those classes, until they end.
THEOREM HandlersHoldOpen == Spec => []HandlersHoldOpenClasses
<1>1. Init => HandlersHoldOpenClasses
  BY DEF Init, HandlersHoldOpenClasses, HoldsOpenClasses, IdleSlot
<1>2. HandlersHoldOpenClasses /\ UNCHANGED vars => HandlersHoldOpenClasses'
  BY DEF HandlersHoldOpenClasses, HoldsOpenClasses, Touched, vars
<1>3. TypeOK /\ Integrity /\ HandlersHoldOpenClasses /\ [Next]_vars
         => HandlersHoldOpenClasses'
  BY <1>2, HoldsOpenStep
<1> QED
  BY <1>1, <1>3, TypeCorrect, IntegrityHolds, PTL DEF Spec

\* A place in a class, or in its queue, comes only from a handler that found
\* the class open, whatever happened to the class since.
THEOREM ThroughTheDoor == Spec => OnlyThroughTheDoor
<1> DEFINE Door(e) == \E r \in Request :
              /\ LET seen == req[r].seen[e.classroom] IN
                    seen # NoClass /\ ~seen.archived /\ ~seen.left
              /\ e.status = "accepted" =>
                    \E was \in req[r].rows : was.id = e.id /\ was.status = "pending"
<1>1. ASSUME TypeOK, HandlersHoldOpenClasses, Next,
             NEW e \in enrollments', e \notin enrollments,
             e.status \in {"pending", "accepted"}
      PROVE  Door(e)
  <2>1. PICK r \in Request : Begin(r) \/ Continue(r)
    BY <1>1 DEF Next
  <2>2. ASSUME NEW status, SetStatus(Ids(req[r].rows), status),
               req[r].op \in {"resolve_request", "request_enrollment"},
               req[r].op = "request_enrollment" => status = "pending"
        PROVE  Door(e)
    <3>1. PICK old \in enrollments : old.id \in Ids(req[r].rows)
                                     /\ e = [old EXCEPT !.status = status]
      BY <1>1, <2>2 DEF SetStatus
    <3>2. e.id = old.id /\ e.classroom = old.classroom /\ e.status = status
      BY <3>1 DEF TypeOK, Row
    <3>3. PICK was \in req[r].rows : was.id = e.id
      BY <3>1, <3>2 DEF Ids
    <3>4. HoldsOpenClasses(r)
      BY <1>1 DEF HandlersHoldOpenClasses
    <3>5. was.classroom \in Touched(r) /\ was.classroom = e.classroom
      BY <2>2, <3>1, <3>2, <3>3, <3>4 DEF HoldsOpenClasses
    <3>6. req[r].op = "resolve_request" => was.status = "pending"
      BY <3>3, <3>4 DEF HoldsOpenClasses
    <3> QED
      BY <2>2, <3>2, <3>3, <3>4, <3>5, <3>6 DEF HoldsOpenClasses, Touched
  <2>3. CASE ResolveCommit(r)
    BY <2>2, <2>3 DEF ResolveCommit, Is
  <2>4. CASE RequestAgainCommit(r)
    BY <2>2, <2>4 DEF RequestAgainCommit, Is
  <2>5. CASE RequestInsertCommit(r)
    <3>1. e.classroom \in Touched(r) /\ e.status = "pending"
      BY <1>1, <2>5 DEF RequestInsertCommit
    <3>2. HoldsOpenClasses(r) /\ req[r].op = "request_enrollment"
      BY <1>1, <2>5 DEF HandlersHoldOpenClasses, RequestInsertCommit, Is
    <3> QED
      BY <3>1, <3>2 DEF HoldsOpenClasses, Touched
  <2>6. CASE enrollments' \subseteq enrollments
    BY <1>1, <2>6
  <2>7. CASE Begin(r)
    BY <2>6, <2>7 DEF Begin, CreateClassroom, UpdateRead, UploadRead, RemoveLogoRead,
       RemoveStudentRead, ArchiveRead, RestoreRead, DeleteRead, ResolveRead,
       RequestRead, LeaveRead, EraseStudents, TeacherLeftRead, db
  <2> QED
    BY <2>1, <2>3, <2>4, <2>5, <2>6, <2>7 DEF Continue, UpdateCommit, UploadStore,
       UploadCommit, UploadRollback, RemoveLogoCommit, RemoveStudentRows,
       RemoveStudentCommit, ArchiveRows, ArchiveCommit, RestoreRows, RestoreCommit,
       DeleteLessons, DeleteCommit, ResolveRows, RequestRows, LeaveCommit,
       TeacherLeftRows, TeacherLeftCommit, AfterCommit, Abort, DeleteIds,
       db
<1>2. TypeOK /\ HandlersHoldOpenClasses /\ [Next]_vars =>
        [\A e \in enrollments' :
            e \notin enrollments /\ e.status \in {"pending", "accepted"} => Door(e)]_vars
  BY <1>1
<1> QED
  BY <1>2, TypeCorrect, HandlersHoldOpen, PTL DEF Spec, OnlyThroughTheDoor

-----------------------------------------------------------------------------
(* One handler at a time: what it read stays true until it commits.        *)

\* At most one handler is in flight: the request slots are one.
OneHandler == \A q, r \in Request : q = r

\* The phases before the commit.
Before == {"store", "rows", "content", "write"}
OpenOnly == {"update_classroom", "upload_logo", "remove_logo", "remove_student",
             "archive_classroom", "resolve_request", "request_enrollment"}
ArchivedOnly == {"restore_classroom", "delete_classroom"}
CleansUp == {"upload_logo", "remove_logo", "delete_classroom"}

\* Until it commits, what the handler read is what there is.
Fresh(r) ==
    req[r].at \in Before =>
        /\ \A c \in Touched(r) : classrooms[c] = req[r].seen[c]
        /\ req[r].op \in OpenOnly => \E c \in Classroom : Touched(r) = {c} /\ Editable(c)
        /\ req[r].op \in ArchivedOnly =>
              \E c \in Classroom : Touched(r) = {c} /\ Own(c) /\ classrooms[c].archived
        /\ req[r].op = "teacher_left" => req[r].seen = classrooms

\* The rows it is about to write.
Chosen(r) ==
    req[r].at = "write" =>
        /\ req[r].op = "archive_classroom" =>
              req[r].rows = UNION {PendingOf(c) \cup AcceptedOf(c) : c \in Touched(r)}
        /\ req[r].op = "teacher_left" =>
              req[r].rows = UNION {PendingOf(c) : c \in Touched(r)}
        /\ req[r].op = "resolve_request" =>
              \E c \in Touched(r) : \E e \in PendingOf(c) : req[r].rows = {e}
        /\ req[r].op = "request_enrollment" =>
              /\ req[r].rows = {e \in enrollments : e.student = req[r].arg
                                                    /\ e.classroom \in Touched(r)}
              /\ \A e \in req[r].rows : e.status = "rejected"
        /\ req[r].op \in {"remove_student", "leave_classroom"} =>
              \E e \in enrollments : req[r].rows = {e}

\* Both, of every handler.
InStep == \A r \in Request : Fresh(r) /\ Chosen(r)

\* A handler that committed, or ended, owes nothing.
LEMMA AfterwardsInStep ==
    ASSUME OneHandler, NEW r \in Request, req'[r].at \notin Before
    PROVE  InStep'
BY DEF OneHandler, InStep, Fresh, Chosen, Before

\* What a handler reads when it starts is what there is.
LEMMA StartsInStep ==
    ASSUME TypeOK, OneHandler, NEW r \in Request, Begin(r), InStep
    PROVE  InStep'
<1>0. \A q \in Request : q = r
  BY DEF OneHandler
<1>1. ASSUME NEW c \in Classroom, NEW op, NEW at, NEW arg, Own(c),
             Start(r, op, at, Only(c), arg), UNCHANGED <<db, stored, minted>>,
             op \in OpenOnly => Editable(c), op \in ArchivedOnly => classrooms[c].archived,
             op # "teacher_left",
             at = "write" => op \in {"update_classroom", "remove_logo"}
      PROVE  InStep'
  <2>1. req'[r] = [op |-> op, at |-> at, seen |-> Only(c), rows |-> {}, arg |-> arg]
    BY <1>1 DEF Start, TypeOK
  <2>2. Touched(r)' = {c} /\ Only(c)[c] = classrooms[c]
    BY <1>1, <2>1 DEF Touched, Only, Own
  <2>3. Fresh(r)'
    BY <1>1, <2>1, <2>2 DEF Fresh, Editable, Own, db
  <2>4. Chosen(r)'
    BY <1>1, <2>1 DEF Chosen
  <2> QED
    BY <1>0, <2>3, <2>4 DEF InStep
<1>2. ASSUME UNCHANGED req, req[r].at = "idle"
      PROVE  InStep'
  BY <1>2, AfterwardsInStep DEF Before
<1>3. CASE TeacherLeftRead(r)
  <2>1. req'[r] = [op |-> "teacher_left", at |-> "rows", seen |-> classrooms, rows |-> {}, arg |-> Nothing]
    BY <1>3 DEF TeacherLeftRead, Start, TypeOK
  <2>2. classrooms' = classrooms
    BY <1>3 DEF TeacherLeftRead, db
  <2>3. Fresh(r)' /\ Chosen(r)'
    BY <2>1, <2>2 DEF Fresh, Chosen, Touched, OpenOnly, ArchivedOnly
  <2> QED
    BY <1>0, <2>3 DEF InStep
<1>4. ASSUME NEW e \in enrollments, LeaveRead(r, e)
      PROVE  InStep'
  <2>1. req'[r] = [op |-> "leave_classroom", at |-> "write", seen |-> IdleSlot.seen,
                   rows |-> {e}, arg |-> Nothing]
    BY <1>4 DEF LeaveRead, TypeOK
  <2>2. Touched(r)' = {}
    BY <2>1 DEF Touched, IdleSlot
  <2>3. enrollments' = enrollments
    BY <1>4 DEF LeaveRead, db
  <2>4. Fresh(r)' /\ Chosen(r)'
    BY <2>1, <2>2, <2>3 DEF Fresh, Chosen, OpenOnly, ArchivedOnly
  <2> QED
    BY <1>0, <2>4 DEF InStep
<1>5. ASSUME NEW c \in Classroom,
             \/ \E d \in Details : UpdateRead(r, c, d)
             \/ UploadRead(r, c) \/ RemoveLogoRead(r, c) \/ RemoveStudentRead(r, c)
             \/ ArchiveRead(r, c) \/ RestoreRead(r, c) \/ DeleteRead(r, c)
             \/ \E decision \in {"accepted", "rejected"} : ResolveRead(r, c, decision)
             \/ \E s \in Student : RequestRead(r, c, s)
      PROVE  InStep'
  BY <1>1, <1>5 DEF UpdateRead, UploadRead, RemoveLogoRead, RemoveStudentRead, ArchiveRead,
     RestoreRead, DeleteRead, ResolveRead, RequestRead, Editable, OpenOnly, ArchivedOnly
<1>6. CASE \E c \in Classroom, d \in Details : CreateClassroom(r, c, d)
  BY <1>2, <1>6 DEF CreateClassroom
<1>7. CASE \E kids \in SUBSET Student : EraseStudents(r, kids)
  BY <1>2, <1>7 DEF EraseStudents
<1> QED
  BY <1>3, <1>4, <1>5, <1>6, <1>7 DEF Begin

\* Before it commits the handler only reads.
LEMMA StaysInStep ==
    ASSUME TypeOK, OneHandler, NEW r \in Request, Continue(r), InStep
    PROVE  InStep'
<1>0. \A q \in Request : q = r
  BY DEF OneHandler
<1>1. req[r] \in Slot /\ Fresh(r) /\ Chosen(r)
  BY SlotType DEF InStep
<1>2. ASSUME NEW at, Go(r, at), UNCHANGED db, at \in {"after"} \/ (at = "write" /\ req[r].op = "delete_classroom" /\ req[r].at \in Before)
      PROVE  InStep'
  <2>1. req'[r] = [req[r] EXCEPT !.at = at]
    BY <1>2 DEF Go, TypeOK
  <2>2. req'[r].at = at /\ req'[r].op = req[r].op /\ req'[r].seen = req[r].seen
    BY <1>1, <2>1 DEF Slot
  <2>3. CASE at = "after"
    BY <2>2, <2>3, AfterwardsInStep DEF Before
  <2>4. CASE at # "after"
    <3>1. Touched(r)' = Touched(r) /\ classrooms' = classrooms
      BY <1>2, <2>2 DEF Touched, db
    <3>2. Fresh(r)' /\ Chosen(r)'
      BY <1>1, <1>2, <2>2, <2>4, <3>1 DEF Fresh, Chosen, Editable, Own
    <3> QED
      BY <1>0, <3>2 DEF InStep
  <2> QED
    BY <2>3, <2>4
<1>3. ASSUME NEW rows, Keep(r, rows), UNCHANGED <<db, stored, minted>>, req[r].at = "rows",
             req[r].op = "archive_classroom" =>
                rows = UNION {PendingOf(c) \cup AcceptedOf(c) : c \in Touched(r)},
             req[r].op = "teacher_left" => rows = UNION {PendingOf(c) : c \in Touched(r)},
             req[r].op = "resolve_request" => \E c \in Touched(r) : \E e \in PendingOf(c) : rows = {e},
             req[r].op = "request_enrollment" =>
                /\ rows = {e \in enrollments : e.student = req[r].arg /\ e.classroom \in Touched(r)}
                /\ \A e \in rows : e.status = "rejected",
             req[r].op \in {"remove_student", "leave_classroom"} => \E e \in enrollments : rows = {e}
      PROVE  InStep'
  <2>1. req'[r] = [req[r] EXCEPT !.at = "write", !.rows = rows]
    BY <1>3 DEF Keep, TypeOK
  <2>2. /\ req'[r].at = "write" /\ req'[r].op = req[r].op /\ req'[r].seen = req[r].seen
        /\ req'[r].rows = rows /\ req'[r].arg = req[r].arg
    BY <1>1, <2>1 DEF Slot
  <2>3. Touched(r)' = Touched(r) /\ classrooms' = classrooms /\ enrollments' = enrollments
    BY <1>3, <2>2 DEF Touched, db
  <2>4. \A c \in Classroom : PendingOf(c)' = PendingOf(c) /\ AcceptedOf(c)' = AcceptedOf(c)
    BY <2>3 DEF PendingOf, AcceptedOf
  <2>5. Fresh(r)'
    BY <1>1, <1>3, <2>2, <2>3 DEF Fresh, Editable, Own, Before
  <2>6. Touched(r) \subseteq Classroom
    BY DEF Touched
  <2>7. Chosen(r)'
    BY <1>3, <2>2, <2>3, <2>4, <2>6 DEF Chosen
  <2> QED
    BY <1>0, <2>5, <2>7 DEF InStep
<1>4. CASE UploadStore(r)
  <2>1. PICK f \in File : req' = [req EXCEPT ![r].at = "write", ![r].arg = f]
    BY <1>4 DEF UploadStore
  <2>2. req'[r] = [req[r] EXCEPT !.at = "write", !.arg = f]
    BY <2>1 DEF TypeOK
  <2>3. req'[r].at = "write" /\ req'[r].op = "upload_logo" /\ req'[r].seen = req[r].seen
        /\ req[r].at = "store" /\ req[r].op = "upload_logo"
    BY <1>1, <1>4, <2>2 DEF Slot, UploadStore, Is
  <2>4. Touched(r)' = Touched(r) /\ classrooms' = classrooms
    BY <1>4, <2>3 DEF Touched, db, UploadStore
  <2>5. Fresh(r)' /\ Chosen(r)'
    BY <1>1, <2>3, <2>4 DEF Fresh, Chosen, Editable, Own, Before
  <2> QED
    BY <1>0, <2>5 DEF InStep
<1>5. CASE DeleteLessons(r)
  BY <1>2, <1>5 DEF DeleteLessons, Is, Before
<1>6. ASSUME Go(r, "after")
      PROVE  InStep'
  <2>1. req'[r].at = "after"
    BY <1>1, <1>6 DEF Go, TypeOK, Slot
  <2> QED
    BY <2>1, AfterwardsInStep DEF Before
<1>7. ASSUME Finish(r)
      PROVE  InStep'
  <2>1. req'[r].at = "idle"
    BY <1>7 DEF Finish, TypeOK, IdleSlot
  <2> QED
    BY <2>1, AfterwardsInStep DEF Before
<1>8. CASE RemoveStudentRows(r)
  BY <1>3, <1>8 DEF RemoveStudentRows, Is, AcceptedOf
<1>9. CASE ArchiveRows(r)
  BY <1>3, <1>9 DEF ArchiveRows, Is
<1>10. CASE RestoreRows(r)
  BY <1>3, <1>10 DEF RestoreRows, Is
<1>11. CASE ResolveRows(r)
  BY <1>3, <1>11 DEF ResolveRows, Is
<1>12. CASE RequestRows(r)
  BY <1>3, <1>12 DEF RequestRows, Is, TypeOK, Row, Status
<1>13. CASE TeacherLeftRows(r)
  BY <1>3, <1>13 DEF TeacherLeftRows, Is
<1> QED
  BY <1>4, <1>5, <1>6, <1>7, <1>8, <1>9, <1>10, <1>11, <1>12, <1>13 DEF Continue, UpdateCommit,
     UploadCommit, UploadRollback, RemoveLogoCommit, RemoveStudentCommit, ArchiveCommit, RestoreCommit,
     DeleteCommit, ResolveCommit, RequestAgainCommit, RequestInsertCommit, LeaveCommit,
     TeacherLeftCommit, AfterCommit, Abort

-----------------------------------------------------------------------------
(* Each commit, as the one change it makes.                                *)

\* The class is, or is not, there and open as before.
SameDoor(c) ==
    /\ classrooms'[c] # NoClass <=> classrooms[c] # NoClass
    /\ classrooms[c] # NoClass => /\ classrooms'[c].archived = classrooms[c].archived
                                  /\ classrooms'[c].left = classrooms[c].left
\* Only what has no say in who is in a class changes.
Elsewhere ==
    /\ \A c \in Classroom : SameDoor(c)
    /\ UNCHANGED <<enrollments, audit>>
    /\ minted \subseteq minted' /\ minted' \subseteq minted \cup File

\* A class is created, open and empty.
Opens(c) ==
    /\ audit[c] = <<>>
    /\ classrooms'[c] # NoClass /\ classrooms'[c].archived = FALSE /\ classrooms'[c].left = FALSE
    /\ \A d \in Classroom \ {c} : classrooms'[d] = classrooms[d]
    /\ audit' = [audit EXCEPT ![c] = Append(@, "created")]
    /\ UNCHANGED <<enrollments, minted>>

\* An open class is archived: who was waiting is gone, the log has a line more.
Archives(c) ==
    /\ Editable(c)
    /\ classrooms' = [classrooms EXCEPT ![c] = [@ EXCEPT !.archived = TRUE]]
    /\ enrollments' = enrollments \ PendingOf(c)
    /\ audit' = [audit EXCEPT ![c] = Append(@, "archived")]
    /\ UNCHANGED minted

\* An archived class is open again.
Restores(c) ==
    /\ Own(c) /\ classrooms[c].archived
    /\ classrooms' = [classrooms EXCEPT ![c] = [@ EXCEPT !.archived = FALSE]]
    /\ audit' = [audit EXCEPT ![c] = Append(@, "restored")]
    /\ UNCHANGED <<enrollments, minted>>

\* An archived class goes, with everybody in it.
Deletes(c) ==
    /\ Own(c) /\ classrooms[c].archived
    /\ classrooms' = [classrooms EXCEPT ![c] = NoClass]
    /\ enrollments' = {e \in enrollments : e.classroom # c}
    /\ audit' = [audit EXCEPT ![c] = Append(@, "deleted")]
    /\ UNCHANGED minted

\* The teacher leaves: every class of theirs is closed and nobody waits any more.
Closes ==
    /\ classrooms' = [c \in Classroom |-> IF Own(c) THEN [classrooms[c] EXCEPT !.left = TRUE] ELSE classrooms[c]]
    /\ enrollments' = {e \in enrollments : e.status # "pending"}
    /\ audit' = [c \in Classroom |-> IF Own(c) THEN Append(audit[c], "teacher_left") ELSE audit[c]]
    /\ UNCHANGED minted

\* One enrollment of an open class changes status.
Moves(e, from, to) ==
    /\ e \in enrollments /\ e.status = from /\ Editable(e.classroom)
    /\ enrollments' = (enrollments \ {e}) \cup {[e EXCEPT !.status = to]}
    /\ UNCHANGED <<classrooms, audit, minted>>

\* A kid asks for a place in an open class, with a new enrollment.
Enters(id, s, c) ==
    /\ Editable(c) /\ id \notin minted
    /\ enrollments' = enrollments \cup {[id |-> id, student |-> s, classroom |-> c, status |-> "pending"]}
    /\ minted' = minted \cup {id}
    /\ UNCHANGED <<classrooms, audit>>

\* Some enrollments go.
Departs ==
    /\ enrollments' \subseteq enrollments
    /\ UNCHANGED <<classrooms, audit, minted>>

\* What one step may change of who is in a class.
Change ==
    \/ Elsewhere
    \/ \E c \in Classroom : Opens(c) \/ Archives(c) \/ Restores(c) \/ Deletes(c)
    \/ Closes
    \/ \E e \in enrollments :
          \/ \E state \in {"accepted", "rejected"} : Moves(e, "pending", state)
          \/ Moves(e, "rejected", "pending")
    \/ \E id \in EnrollmentId, s \in Student, c \in Classroom : Enters(id, s, c)
    \/ Departs

\* What the handler holds, when it is about to write.
LEMMA AboutToWrite ==
    ASSUME TypeOK, InStep, NEW r \in Request, req[r].at = "write"
    PROVE  /\ req[r] \in Slot /\ Chosen(r)
           /\ \A c \in Touched(r) : c \in Classroom /\ classrooms[c] = req[r].seen[c] /\ classrooms[c] \in ClassRow
           /\ req[r].op \in OpenOnly => \E c \in Classroom : Touched(r) = {c} /\ Editable(c)
           /\ req[r].op \in ArchivedOnly =>
                 \E c \in Classroom : Touched(r) = {c} /\ Own(c) /\ classrooms[c].archived
           /\ req[r].op = "teacher_left" => req[r].seen = classrooms
<1>1. Fresh(r) /\ Chosen(r) /\ req[r] \in Slot
  BY SlotType DEF InStep
<1>2. \A c \in Touched(r) : c \in Classroom /\ req[r].seen[c] \in ClassRow
  BY SeenType DEF Touched
<1> QED
  BY <1>1, <1>2 DEF Fresh, Before

\* Editing a class, its logo included, moves nobody.
LEMMA EditCommits ==
    ASSUME TypeOK, InStep, NEW r \in Request,
           UpdateCommit(r) \/ UploadCommit(r) \/ RemoveLogoCommit(r)
    PROVE  Elsewhere
<1>1. req[r].at = "write"
  BY DEF UpdateCommit, UploadCommit, RemoveLogoCommit, Is
<1>2. \A c \in Touched(r) : c \in Classroom /\ classrooms[c] = req[r].seen[c] /\ classrooms[c] \in ClassRow
  BY <1>1, AboutToWrite
<1>3. \A c \in Classroom \ Touched(r) : classrooms'[c] = classrooms[c]
  BY DEF UpdateCommit, UploadCommit, RemoveLogoCommit, WriteBack
<1>4. \A c \in Touched(r) : SameDoor(c)
  <2> SUFFICES ASSUME NEW c \in Touched(r) PROVE SameDoor(c)
    OBVIOUS
  <2>1. classrooms[c] \in ClassRow /\ classrooms[c] # NoClass /\ req[r].seen[c] = classrooms[c] /\ c \in Classroom
    BY <1>2, ClassroomAssumption
  <2>2. CASE UpdateCommit(r)
    <3>1. classrooms'[c] = [classrooms[c] EXCEPT !.details = req[r].arg] /\ req[r].arg \in Details
      BY <2>1, <2>2, SlotType DEF UpdateCommit, WriteBack, Is, ArgOf
    <3>2. [classrooms[c] EXCEPT !.details = req[r].arg] \in ClassRow
      BY <2>1, <3>1 DEF ClassRow
    <3> QED
      BY <2>1, <3>1, <3>2, ClassroomAssumption DEF SameDoor, ClassRow
  <2>3. CASE UploadCommit(r)
    <3>1. classrooms'[c] = [classrooms[c] EXCEPT !.logo = req[r].arg] /\ req[r].arg \in File
      BY <2>1, <2>3, SlotType DEF UploadCommit, WriteBack, Is, ArgOf
    <3>2. [classrooms[c] EXCEPT !.logo = req[r].arg] \in ClassRow
      BY <2>1, <3>1 DEF ClassRow
    <3> QED
      BY <2>1, <3>1, <3>2, ClassroomAssumption DEF SameDoor, ClassRow
  <2>4. CASE RemoveLogoCommit(r)
    <3>1. classrooms'[c] = [classrooms[c] EXCEPT !.logo = Nothing]
      BY <2>1, <2>4 DEF RemoveLogoCommit, WriteBack
    <3>2. [classrooms[c] EXCEPT !.logo = Nothing] \in ClassRow
      BY <2>1, <3>1 DEF ClassRow
    <3> QED
      BY <2>1, <3>1, <3>2, ClassroomAssumption DEF SameDoor, ClassRow
  <2> QED
    BY <2>2, <2>3, <2>4
<1>5. UNCHANGED <<enrollments, audit, minted>>
  BY DEF UpdateCommit, UploadCommit, RemoveLogoCommit
<1> QED
  BY <1>3, <1>4, <1>5 DEF Elsewhere, SameDoor

\* archive_classroom drops exactly who is waiting when it commits.
LEMMA ArchiveCommits ==
    ASSUME TypeOK, Integrity, InStep, NEW r \in Request, ArchiveCommit(r)
    PROVE  \E c \in Classroom : Archives(c)
<1>1. req[r].at = "write" /\ req[r].op = "archive_classroom"
  BY DEF ArchiveCommit, Is
<1>2. PICK c \in Classroom : Touched(r) = {c} /\ Editable(c)
  BY <1>1, AboutToWrite DEF OpenOnly
<1>3. classrooms[c] = req[r].seen[c] /\ classrooms[c] # NoClass
  BY <1>1, <1>2, AboutToWrite DEF Editable, Own
<1>4. classrooms' = [classrooms EXCEPT ![c] = [@ EXCEPT !.archived = TRUE]]
  BY <1>2, <1>3 DEF ArchiveCommit, WriteBack, TypeOK
<1>5. req[r].rows = PendingOf(c) \cup AcceptedOf(c)
  BY <1>1, <1>2, AboutToWrite DEF Chosen
<1>6. enrollments' = enrollments \ PendingOf(c)
  <2>1. {e \in req[r].rows : e.status = "pending"} = PendingOf(c)
    BY <1>5 DEF PendingOf, AcceptedOf
  <2>2. enrollments' = {e \in enrollments : e.id \notin Ids(PendingOf(c))}
    BY <2>1 DEF ArchiveCommit, DeleteIds
  <2>3. \A e \in enrollments : e.id \in Ids(PendingOf(c)) <=> e \in PendingOf(c)
    BY DEF Ids, PendingOf, Integrity
  <2> QED
    BY <2>2, <2>3
<1>7. audit' = [audit EXCEPT ![c] = Append(@, "archived")]
  BY <1>2 DEF ArchiveCommit, Log, TypeOK
<1> QED
  BY <1>2, <1>4, <1>6, <1>7 DEF Archives, ArchiveCommit

\* restore_classroom opens a class that is still archived when it commits.
LEMMA RestoreCommits ==
    ASSUME TypeOK, InStep, NEW r \in Request, RestoreCommit(r)
    PROVE  \E c \in Classroom : Restores(c)
<1>1. req[r].at = "write" /\ req[r].op = "restore_classroom"
  BY DEF RestoreCommit, Is
<1>2. PICK c \in Classroom : Touched(r) = {c} /\ Own(c) /\ classrooms[c].archived
  BY <1>1, AboutToWrite DEF ArchivedOnly
<1>3. classrooms[c] = req[r].seen[c] /\ classrooms[c] # NoClass
  BY <1>1, <1>2, AboutToWrite DEF Own
<1>4. classrooms' = [classrooms EXCEPT ![c] = [@ EXCEPT !.archived = FALSE]]
  BY <1>2, <1>3 DEF RestoreCommit, WriteBack, TypeOK
<1>5. audit' = [audit EXCEPT ![c] = Append(@, "restored")]
  BY <1>2 DEF RestoreCommit, Log, TypeOK
<1> QED
  BY <1>2, <1>4, <1>5 DEF Restores, RestoreCommit

\* delete_classroom deletes a class that is still archived when it commits.
LEMMA DeleteCommits ==
    ASSUME TypeOK, InStep, NEW r \in Request, DeleteCommit(r)
    PROVE  \E c \in Classroom : Deletes(c)
<1>1. req[r].at = "write" /\ req[r].op = "delete_classroom"
  BY DEF DeleteCommit, Is
<1>2. PICK c \in Classroom : Touched(r) = {c} /\ Own(c) /\ classrooms[c].archived
  BY <1>1, AboutToWrite DEF ArchivedOnly
<1>3. classrooms' = [classrooms EXCEPT ![c] = NoClass]
  BY <1>2 DEF DeleteCommit, TypeOK
<1>4. enrollments' = {e \in enrollments : e.classroom # c}
  BY <1>2 DEF DeleteCommit
<1>5. audit' = [audit EXCEPT ![c] = Append(@, "deleted")]
  BY <1>2 DEF DeleteCommit, Log, TypeOK
<1> QED
  BY <1>2, <1>3, <1>4, <1>5 DEF Deletes, DeleteCommit

\* The teacher's leaving closes every class that is theirs when it commits.
LEMMA TeacherLeftCommits ==
    ASSUME TypeOK, Integrity, InStep, NEW r \in Request, TeacherLeftCommit(r)
    PROVE  Closes
<1>1. req[r].at = "write" /\ req[r].op = "teacher_left"
  BY DEF TeacherLeftCommit, Is
<1>2. req[r].seen = classrooms /\ req[r].rows = UNION {PendingOf(c) : c \in Touched(r)}
  BY <1>1, AboutToWrite DEF Chosen
<1>3. Touched(r) = {c \in Classroom : classrooms[c] # NoClass}
  BY <1>2 DEF Touched
<1> DEFINE mine == {c \in Touched(r) : ~req[r].seen[c].left}
<1>4. mine = {c \in Classroom : Own(c)}
  BY <1>2, <1>3 DEF Own
<1>5. WriteBack([c \in mine |-> [req[r].seen[c] EXCEPT !.left = TRUE]]) /\ Log(mine, "teacher_left")
  BY DEF TeacherLeftCommit
<1> HIDE DEF mine
<1>6. classrooms' = [c \in Classroom |-> IF Own(c) THEN [classrooms[c] EXCEPT !.left = TRUE] ELSE classrooms[c]]
  BY <1>2, <1>4, <1>5 DEF WriteBack, Own
<1>7. audit' = [c \in Classroom |-> IF Own(c) THEN Append(audit[c], "teacher_left") ELSE audit[c]]
  BY <1>4, <1>5 DEF Log
<1>8. enrollments' = {e \in enrollments : e.status # "pending"}
  <2>1. req[r].rows = {e \in enrollments : e.status = "pending"}
    <3>1. \A e \in enrollments : e.classroom \in Touched(r)
      BY <1>3 DEF Integrity, TypeOK, Row
    <3> QED
      BY <1>2, <3>1 DEF PendingOf
  <2>2. \A e \in enrollments : e.id \in Ids(req[r].rows) <=> e.status = "pending"
    BY <2>1 DEF Ids, Integrity
  <2> QED
    BY <2>2 DEF TeacherLeftCommit, DeleteIds
<1> QED
  BY <1>6, <1>7, <1>8 DEF Closes, TeacherLeftCommit

\* Writing one row by its id.
LEMMA OneRow ==
    ASSUME TypeOK, Integrity, NEW e \in enrollments, NEW status, SetStatus(Ids({e}), status)
    PROVE  enrollments' = (enrollments \ {e}) \cup {[e EXCEPT !.status = status]}
<1>1. \A f \in enrollments : f.id \in Ids({e}) <=> f = e
  BY DEF Ids, Integrity
<1> QED
  BY <1>1 DEF SetStatus

\* An answer moves one request that still waits, in a class still open.
LEMMA ResolveCommits ==
    ASSUME TypeOK, Integrity, InStep, NEW r \in Request, ResolveCommit(r)
    PROVE  \E e \in enrollments, state \in {"accepted", "rejected"} : Moves(e, "pending", state)
<1>1. req[r].at = "write" /\ req[r].op = "resolve_request" /\ req[r].arg \in {"accepted", "rejected"}
  BY SlotType DEF ResolveCommit, Is, ArgOf
<1>2. PICK c \in Classroom : Touched(r) = {c} /\ Editable(c)
  BY <1>1, AboutToWrite DEF OpenOnly
<1>3. PICK e \in PendingOf(c) : req[r].rows = {e}
  BY <1>1, <1>2, AboutToWrite DEF Chosen
<1>4. e \in enrollments /\ e.status = "pending" /\ e.classroom = c
  BY <1>3 DEF PendingOf
<1>5. enrollments' = (enrollments \ {e}) \cup {[e EXCEPT !.status = req[r].arg]}
  BY <1>3, <1>4, OneRow DEF ResolveCommit
<1> QED
  BY <1>1, <1>2, <1>4, <1>5 DEF Moves, ResolveCommit

\* A request moves a rejected enrollment back, or brings a new one, in an open class.
LEMMA RequestCommits ==
    ASSUME TypeOK, Integrity, InStep, NEW r \in Request, RequestAgainCommit(r) \/ RequestInsertCommit(r)
    PROVE  \/ \E e \in enrollments : Moves(e, "rejected", "pending")
           \/ \E id \in EnrollmentId, s \in Student, c \in Classroom : Enters(id, s, c)
<1>1. req[r].at = "write" /\ req[r].op = "request_enrollment" /\ req[r].arg \in Student
  BY SlotType DEF RequestAgainCommit, RequestInsertCommit, Is, ArgOf
<1>2. PICK c \in Classroom : Touched(r) = {c} /\ Editable(c)
  BY <1>1, AboutToWrite DEF OpenOnly
<1>3. req[r].rows = {e \in enrollments : e.student = req[r].arg /\ e.classroom = c}
      /\ \A e \in req[r].rows : e.status = "rejected"
  BY <1>1, <1>2, AboutToWrite DEF Chosen
<1>4. CASE RequestAgainCommit(r)
  <2>1. PICK e \in enrollments : e \in req[r].rows
    BY <1>3, <1>4 DEF RequestAgainCommit
  <2>2. req[r].rows = {e} /\ e.status = "rejected" /\ e.classroom = c
    BY <1>3, <2>1 DEF Integrity
  <2>3. enrollments' = (enrollments \ {e}) \cup {[e EXCEPT !.status = "pending"]}
    BY <1>4, <2>2, OneRow DEF RequestAgainCommit
  <2> QED
    BY <1>2, <1>4, <2>2, <2>3 DEF Moves, RequestAgainCommit
<1>5. CASE RequestInsertCommit(r)
  BY <1>1, <1>2, <1>5 DEF RequestInsertCommit, Enters
<1> QED
  BY <1>4, <1>5

\* Every step is one of the changes.
LEMMA EveryStep ==
    ASSUME TypeOK, Integrity, InStep, Next
    PROVE  Change
<1>1. PICK r \in Request : Begin(r) \/ Continue(r)
  BY DEF Next
<1>2. ASSUME UNCHANGED <<classrooms, enrollments, audit>>, minted \subseteq minted', minted' \subseteq minted \cup File
      PROVE  Change
  BY <1>2 DEF Change, Elsewhere, SameDoor
<1>3. CASE Begin(r)
  <2>1. CASE \E c \in Classroom, d \in Details : CreateClassroom(r, c, d)
    <3>1. PICK c \in Classroom, d \in Details : CreateClassroom(r, c, d)
      BY <2>1
    <3> DEFINE row == [details |-> d, logo |-> Nothing, archived |-> FALSE, left |-> FALSE]
    <3>2. row \in ClassRow /\ row.archived = FALSE /\ row.left = FALSE
      BY DEF ClassRow
    <3>3. row # NoClass
      BY <3>2, ClassroomAssumption
    <3>4. classrooms'[c] = row /\ \A x \in Classroom \ {c} : classrooms'[x] = classrooms[x]
      BY <3>1 DEF CreateClassroom, TypeOK
    <3>5. audit' = [audit EXCEPT ![c] = Append(@, "created")]
      BY <3>1 DEF CreateClassroom, Log, TypeOK
    <3>6. audit[c] = <<>> /\ UNCHANGED <<enrollments, minted>>
      BY <3>1 DEF CreateClassroom
    <3> HIDE DEF row
    <3>7. Opens(c)
      BY <3>2, <3>3, <3>4, <3>5, <3>6 DEF Opens
    <3> QED
      BY <3>7 DEF Change
  <2>2. CASE \E kids \in SUBSET Student : EraseStudents(r, kids)
    BY <2>2 DEF EraseStudents, Change, Departs
  <2>3. CASE UNCHANGED <<db, stored, minted>>
    BY <1>2, <2>3 DEF db
  <2> QED
    BY <1>3, <2>1, <2>2, <2>3 DEF Begin, UpdateRead, UploadRead, RemoveLogoRead,
       RemoveStudentRead, ArchiveRead, RestoreRead, DeleteRead, ResolveRead,
       RequestRead, LeaveRead, TeacherLeftRead
<1>4. CASE UpdateCommit(r) \/ UploadCommit(r) \/ RemoveLogoCommit(r)
  BY <1>4, EditCommits DEF Change
<1>5. CASE ArchiveCommit(r)
  BY <1>5, ArchiveCommits DEF Change
<1>6. CASE RestoreCommit(r)
  BY <1>6, RestoreCommits DEF Change
<1>7. CASE DeleteCommit(r)
  BY <1>7, DeleteCommits DEF Change
<1>8. CASE TeacherLeftCommit(r)
  BY <1>8, TeacherLeftCommits DEF Change
<1>9. CASE ResolveCommit(r)
  BY <1>9, ResolveCommits DEF Change
<1>10. CASE RequestAgainCommit(r) \/ RequestInsertCommit(r)
  BY <1>10, RequestCommits DEF Change
<1>11. CASE RemoveStudentCommit(r) \/ LeaveCommit(r)
  BY <1>11 DEF RemoveStudentCommit, LeaveCommit, DeleteIds, Change, Departs
<1>12. CASE \/ UploadStore(r) \/ UploadRollback(r) \/ RemoveStudentRows(r)
            \/ ArchiveRows(r) \/ RestoreRows(r) \/ DeleteLessons(r)
            \/ ResolveRows(r) \/ RequestRows(r) \/ TeacherLeftRows(r)
            \/ AfterCommit(r) \/ Abort(r)
  BY <1>2, <1>12 DEF UploadStore, UploadRollback, RemoveStudentRows, ArchiveRows, RestoreRows,
     DeleteLessons, ResolveRows, RequestRows, TeacherLeftRows, AfterCommit, Abort, db
<1> QED
  BY <1>1, <1>3, <1>4, <1>5, <1>6, <1>7, <1>8, <1>9, <1>10, <1>11, <1>12 DEF Continue

-----------------------------------------------------------------------------
(* Who waits, and what the log tells.                                      *)

\* A class that was never created has no lines.
Born == \A c \in Classroom : classrooms[c] # NoClass => audit[c] # <<>>

\* The doors after each change of a class.
LEMMA DoorsMove ==
    ASSUME TypeOK, NEW c \in Classroom
    PROVE  /\ Archives(c) => /\ classrooms'[c] # NoClass /\ classrooms'[c].archived = TRUE
                             /\ classrooms'[c].left = classrooms[c].left
           /\ Restores(c) => /\ classrooms'[c] # NoClass /\ classrooms'[c].archived = FALSE
                             /\ classrooms'[c].left = classrooms[c].left
           /\ Deletes(c) => classrooms'[c] = NoClass
           /\ Archives(c) \/ Restores(c) \/ Deletes(c) =>
                 \A d \in Classroom \ {c} : classrooms'[d] = classrooms[d]
           /\ Closes => IF Own(c) THEN /\ classrooms'[c] # NoClass /\ classrooms'[c].left = TRUE
                                       /\ classrooms'[c].archived = classrooms[c].archived
                        ELSE classrooms'[c] = classrooms[c]
<1>1. Own(c) => classrooms[c] \in ClassRow
  BY DEF TypeOK, Own
<1>2. Archives(c) => classrooms'[c] = [classrooms[c] EXCEPT !.archived = TRUE]
  BY DEF Archives, TypeOK
<1>3. Restores(c) => classrooms'[c] = [classrooms[c] EXCEPT !.archived = FALSE]
  BY DEF Restores, TypeOK
<1>4. Deletes(c) => classrooms'[c] = NoClass
  BY DEF Deletes, TypeOK
<1>5. Archives(c) \/ Restores(c) \/ Deletes(c) => \A d \in Classroom \ {c} : classrooms'[d] = classrooms[d]
  BY DEF Archives, Restores, Deletes, TypeOK
<1>6. Closes => classrooms'[c] = IF Own(c) THEN [classrooms[c] EXCEPT !.left = TRUE] ELSE classrooms[c]
  BY DEF Closes
<1>7. Archives(c) => Own(c)
  BY DEF Archives, Editable
<1>8. Restores(c) => Own(c)
  BY DEF Restores
<1>12. Own(c) =>
        /\ classrooms[c] # NoClass
        /\ [classrooms[c] EXCEPT !.archived = TRUE] # NoClass
        /\ [classrooms[c] EXCEPT !.archived = TRUE].archived = TRUE
        /\ [classrooms[c] EXCEPT !.archived = TRUE].left = classrooms[c].left
        /\ [classrooms[c] EXCEPT !.archived = FALSE] # NoClass
        /\ [classrooms[c] EXCEPT !.archived = FALSE].archived = FALSE
        /\ [classrooms[c] EXCEPT !.archived = FALSE].left = classrooms[c].left
        /\ [classrooms[c] EXCEPT !.left = TRUE] # NoClass
        /\ [classrooms[c] EXCEPT !.left = TRUE].left = TRUE
        /\ [classrooms[c] EXCEPT !.left = TRUE].archived = classrooms[c].archived
  BY <1>1, ClassroomAssumption DEF ClassRow
<1>9. Closes => IF Own(c) THEN /\ classrooms'[c] # NoClass /\ classrooms'[c].left = TRUE
                               /\ classrooms'[c].archived = classrooms[c].archived
                ELSE classrooms'[c] = classrooms[c]
  BY <1>6, <1>12
<1>10. Archives(c) => /\ classrooms'[c] # NoClass /\ classrooms'[c].archived = TRUE
                      /\ classrooms'[c].left = classrooms[c].left
  BY <1>2, <1>7, <1>12
<1>11. Restores(c) => /\ classrooms'[c] # NoClass /\ classrooms'[c].archived = FALSE
                      /\ classrooms'[c].left = classrooms[c].left
  BY <1>3, <1>8, <1>12
<1> QED
  BY <1>4, <1>5, <1>9, <1>10, <1>11

\* No change leaves somebody waiting in a class that is not open.
LEMMA WaitStep ==
    ASSUME TypeOK, Integrity, NobodyWaitsOutside, Change
    PROVE  NobodyWaitsOutside'
<1> DEFINE Waits(e) == classrooms[e.classroom] # NoClass /\ ~classrooms[e.classroom].archived
                       /\ ~classrooms[e.classroom].left
<1>0. \A e \in enrollments : e.classroom \in Classroom /\ (e.status = "pending" => Waits(e))
  BY DEF TypeOK, Row, NobodyWaitsOutside
<1>1. CASE Elsewhere
  BY <1>0, <1>1 DEF Elsewhere, SameDoor, NobodyWaitsOutside
<1>2. ASSUME NEW c \in Classroom, Opens(c)
      PROVE  NobodyWaitsOutside'
  BY <1>0, <1>2 DEF Opens, NobodyWaitsOutside
<1>3. ASSUME NEW c \in Classroom, Archives(c)
      PROVE  NobodyWaitsOutside'
  <2>1. \A e \in enrollments' : e \in enrollments /\ (e.status = "pending" => e.classroom # c)
    BY <1>3 DEF Archives, PendingOf
  <2> QED
    BY <1>0, <1>3, <2>1, DoorsMove DEF NobodyWaitsOutside
<1>4. ASSUME NEW c \in Classroom, Restores(c)
      PROVE  NobodyWaitsOutside'
  BY <1>0, <1>4, DoorsMove DEF Restores, NobodyWaitsOutside
<1>5. ASSUME NEW c \in Classroom, Deletes(c)
      PROVE  NobodyWaitsOutside'
  BY <1>0, <1>5, DoorsMove DEF Deletes, NobodyWaitsOutside
<1>6. CASE Closes
  BY <1>6 DEF Closes, NobodyWaitsOutside
<1>7. ASSUME NEW e \in enrollments, NEW from, NEW to \in Status, Moves(e, from, to)
      PROVE  NobodyWaitsOutside'
  <2>1. e \in Row
    BY DEF TypeOK
  <2>2. [e EXCEPT !.status = to].classroom = e.classroom
    BY <2>1 DEF Row
  <2> QED
    BY <1>0, <1>7, <2>2 DEF Moves, NobodyWaitsOutside, Editable, Own
<1>8. ASSUME NEW id \in EnrollmentId, NEW s \in Student, NEW c \in Classroom, Enters(id, s, c)
      PROVE  NobodyWaitsOutside'
  BY <1>0, <1>8 DEF Enters, NobodyWaitsOutside, Editable, Own
<1>9. CASE Departs
  BY <1>0, <1>9 DEF Departs, NobodyWaitsOutside
<1> QED
  BY <1>1, <1>2, <1>3, <1>4, <1>5, <1>6, <1>7, <1>8, <1>9 DEF Change, Status

\* One more line in the log of a class.
LEMMA OneMoreLine ==
    ASSUME TypeOK, NEW c \in Classroom, NEW action \in AuditAction, audit'[c] = Append(audit[c], action)
    PROVE  /\ audit'[c] # <<>> /\ Last(audit[c])' = action
           /\ \A a \in AuditAction : Logged(c, a)' <=> Logged(c, a) \/ a = action
           /\ ArchivedLast(c)' <=> action = "archived" \/ (action # "restored" /\ ArchivedLast(c))
<1> DEFINE n == Len(audit[c])
<1>1. audit[c] \in Seq(AuditAction) /\ n \in Nat
  BY DEF TypeOK
<1>2. /\ Len(audit'[c]) = n + 1 /\ DOMAIN audit'[c] = 1 .. (n + 1) /\ DOMAIN audit[c] = 1 .. n
      /\ \A i \in 1 .. n : audit'[c][i] = audit[c][i]
      /\ audit'[c][n + 1] = action
  BY <1>1
<1> HIDE DEF n
<1>3. audit'[c] # <<>> /\ Last(audit[c])' = action
  <2>1. Last(audit[c])' = audit'[c][n + 1]
    BY <1>2 DEF Last
  <2>2. audit'[c] # <<>>
    <3>1. SUFFICES ASSUME audit'[c] = <<>> PROVE FALSE
      OBVIOUS
    <3>2. Len(audit'[c]) = 0
      BY <3>1
    <3>3. n + 1 = 0
      BY <1>2, <3>2
    <3> QED
      BY <1>1, <3>3
  <2> QED
    BY <1>2, <2>1, <2>2
<1>4. ASSUME NEW a \in AuditAction
      PROVE  Logged(c, a)' <=> Logged(c, a) \/ a = action
  BY <1>1, <1>2 DEF Logged
<1>5. ASSUME action = "archived"
      PROVE  ArchivedLast(c)'
  <2>1. /\ n + 1 \in DOMAIN audit'[c] /\ audit'[c][n + 1] = "archived"
        /\ \A k \in DOMAIN audit'[c] : audit'[c][k] = "restored" => k < n + 1
    BY <1>1, <1>2, <1>5
  <2> QED
    BY <2>1 DEF ArchivedLast
<1>6. ASSUME action = "restored"
      PROVE  ~ArchivedLast(c)'
  <2>1. SUFFICES ASSUME NEW i \in DOMAIN audit'[c], audit'[c][i] = "archived",
                        \A k \in DOMAIN audit'[c] : audit'[c][k] = "restored" => k < i
                 PROVE  FALSE
    BY DEF ArchivedLast
  <2>2. n + 1 \in DOMAIN audit'[c] /\ audit'[c][n + 1] = "restored" /\ i \in 1 .. (n + 1)
    BY <1>1, <1>2, <1>6
  <2>3. n + 1 < i
    BY <2>1, <2>2
  <2> QED
    BY <1>1, <2>2, <2>3
<1>7. ASSUME action # "archived", action # "restored"
      PROVE  ArchivedLast(c)' <=> ArchivedLast(c)
  <2>1. ASSUME NEW i \in 1 .. n
        PROVE  (\A k \in 1 .. (n + 1) : audit'[c][k] = "restored" => k < i)
                 <=> \A k \in 1 .. n : audit[c][k] = "restored" => k < i
    <3>1. \A k \in 1 .. (n + 1) : k \in 1 .. n \/ k = n + 1
      BY <1>1
    <3>2. \A k \in 1 .. n : k \in 1 .. (n + 1)
      BY <1>1
    <3> QED
      BY <1>2, <1>7, <3>1, <3>2
  <2>2. \A i \in 1 .. (n + 1) : audit'[c][i] = "archived" => i \in 1 .. n /\ audit[c][i] = "archived"
    BY <1>1, <1>2, <1>7
  <2>3. \A i \in 1 .. n : i \in 1 .. (n + 1) /\ audit'[c][i] = audit[c][i]
    BY <1>1, <1>2
  <2> QED
    BY <1>2, <2>1, <2>2, <2>3 DEF ArchivedLast
<1> QED
  BY <1>3, <1>4, <1>5, <1>6, <1>7

\* What the log of one class tells.
Told(c) ==
    audit[c] # <<>> =>
        IF classrooms[c] = NoClass THEN Last(audit[c]) = "deleted"
        ELSE /\ ~Logged(c, "deleted")
             /\ classrooms[c].left = Logged(c, "teacher_left")
             /\ classrooms[c].archived = ArchivedLast(c)

\* After each change the log still tells the state of every class.
LEMMA AuditStep ==
    ASSUME TypeOK, Born, AuditTellsState, Change
    PROVE  Born' /\ AuditTellsState'
<1> DEFINE Right(c) == Told(c)' /\ (classrooms'[c] # NoClass => audit'[c] # <<>>)
<1>0. \A c \in Classroom : Told(c)
  BY DEF AuditTellsState, Told
<1>1. ASSUME NEW c \in Classroom, SameDoor(c), audit'[c] = audit[c]
      PROVE  Right(c)
  BY <1>0, <1>1 DEF SameDoor, Told, Logged, ArchivedLast, Last, Born
<1>2. ASSUME NEW c \in Classroom, classrooms'[c] = classrooms[c], audit'[c] = audit[c]
      PROVE  Right(c)
  BY <1>1, <1>2 DEF SameDoor
<1>3. SUFFICES \A c \in Classroom : Right(c)
  BY DEF AuditTellsState, Told, Born
<1> HIDE DEF Right
<1>4. CASE Elsewhere
  BY <1>1, <1>4 DEF Elsewhere
<1>5. ASSUME NEW c \in Classroom, NEW action \in AuditAction,
             audit' = [audit EXCEPT ![c] = Append(@, action)],
             \A d \in Classroom \ {c} : classrooms'[d] = classrooms[d],
             /\ classrooms'[c] = NoClass => action = "deleted"
             /\ classrooms'[c] # NoClass =>
                   /\ ~Logged(c, "deleted") /\ action # "deleted"
                   /\ classrooms'[c].left = (Logged(c, "teacher_left") \/ action = "teacher_left")
                   /\ classrooms'[c].archived =
                         (action = "archived" \/ (action # "restored" /\ ArchivedLast(c)))
      PROVE  \A d \in Classroom : Right(d)
  <2>1. audit'[c] = Append(audit[c], action) /\ \A d \in Classroom \ {c} : audit'[d] = audit[d]
    BY <1>5 DEF TypeOK
  <2>2. /\ audit'[c] # <<>> /\ Last(audit[c])' = action
        /\ \A a \in AuditAction : Logged(c, a)' <=> Logged(c, a) \/ a = action
        /\ ArchivedLast(c)' <=> action = "archived" \/ (action # "restored" /\ ArchivedLast(c))
    BY <2>1, OneMoreLine
  <2>3. /\ Logged(c, "deleted")' <=> Logged(c, "deleted") \/ action = "deleted"
        /\ Logged(c, "teacher_left")' <=> Logged(c, "teacher_left") \/ action = "teacher_left"
    BY <2>2 DEF AuditAction
  <2>4. Logged(c, "teacher_left")' \in BOOLEAN /\ ArchivedLast(c)' \in BOOLEAN
    BY DEF Logged, ArchivedLast
  <2>5. ASSUME classrooms'[c] = NoClass PROVE Right(c)
    BY <1>5, <2>2, <2>5 DEF Right, Told
  <2>6. ASSUME classrooms'[c] # NoClass PROVE Right(c)
    <3>1. ~Logged(c, "deleted")'
      BY <1>5, <2>3, <2>6
    <3>2. classrooms'[c].left = Logged(c, "teacher_left")'
      BY <1>5, <2>3, <2>4, <2>6
    <3>3. classrooms'[c].archived = ArchivedLast(c)'
      BY <1>5, <2>2, <2>4, <2>6
    <3> QED
      BY <2>2, <2>6, <3>1, <3>2, <3>3 DEF Right, Told
  <2> QED
    BY <1>2, <1>5, <2>1, <2>5, <2>6
<1>6. ASSUME NEW c \in Classroom, Opens(c)
      PROVE  \A d \in Classroom : Right(d)
  <2>1. ~Logged(c, "teacher_left") /\ ~Logged(c, "deleted") /\ ~ArchivedLast(c)
    BY <1>6 DEF Logged, ArchivedLast, Opens
  <2>2. classrooms'[c].left = FALSE /\ classrooms'[c].archived = FALSE
    BY <1>6 DEF Opens
  <2>3. "created" \in AuditAction
    BY DEF AuditAction
  <2>4. audit' = [audit EXCEPT ![c] = Append(@, "created")]
        /\ classrooms'[c] # NoClass /\ \A d \in Classroom \ {c} : classrooms'[d] = classrooms[d]
    BY <1>6 DEF Opens
  <2> QED
    BY <1>5, <2>1, <2>2, <2>3, <2>4
<1>7. ASSUME NEW c \in Classroom, Own(c)
      PROVE  /\ ~Logged(c, "deleted")
             /\ classrooms[c].left = Logged(c, "teacher_left")
             /\ classrooms[c].archived = ArchivedLast(c)
  BY <1>0, <1>7 DEF Told, Own, Born
<1>8. ASSUME NEW c \in Classroom, Archives(c)
      PROVE  \A d \in Classroom : Right(d)
  <2>1. Own(c) /\ "archived" \in AuditAction /\ audit' = [audit EXCEPT ![c] = Append(@, "archived")]
    BY <1>8 DEF Archives, Editable, AuditAction
  <2>2. classrooms'[c].archived = TRUE /\ classrooms[c].left = Logged(c, "teacher_left") /\ ~Logged(c, "deleted")
        /\ classrooms'[c] # NoClass /\ classrooms'[c].left = classrooms[c].left
        /\ \A d \in Classroom \ {c} : classrooms'[d] = classrooms[d]
    BY <1>7, <1>8, <2>1, DoorsMove
  <2>3. Logged(c, "teacher_left") \in BOOLEAN
    BY DEF Logged
  <2> QED
    BY <1>5, <2>1, <2>2, <2>3
<1>9. ASSUME NEW c \in Classroom, Restores(c)
      PROVE  \A d \in Classroom : Right(d)
  <2>1. Own(c) /\ "restored" \in AuditAction /\ audit' = [audit EXCEPT ![c] = Append(@, "restored")]
    BY <1>9 DEF Restores, AuditAction
  <2>2. classrooms'[c].archived = FALSE /\ classrooms[c].left = Logged(c, "teacher_left") /\ ~Logged(c, "deleted")
        /\ classrooms'[c] # NoClass /\ classrooms'[c].left = classrooms[c].left
        /\ \A d \in Classroom \ {c} : classrooms'[d] = classrooms[d]
    BY <1>7, <1>9, <2>1, DoorsMove
  <2>3. Logged(c, "teacher_left") \in BOOLEAN
    BY DEF Logged
  <2> QED
    BY <1>5, <2>1, <2>2, <2>3
<1>10. ASSUME NEW c \in Classroom, Deletes(c)
      PROVE  \A d \in Classroom : Right(d)
  <2>1. "deleted" \in AuditAction /\ audit' = [audit EXCEPT ![c] = Append(@, "deleted")]
    BY <1>10 DEF Deletes, AuditAction
  <2>2. classrooms'[c] = NoClass /\ \A d \in Classroom \ {c} : classrooms'[d] = classrooms[d]
    BY <1>10, DoorsMove
  <2> QED
    BY <1>5, <2>1, <2>2
<1>11. CASE Closes
  <2> SUFFICES ASSUME NEW c \in Classroom PROVE Right(c)
    OBVIOUS
  <2>1. CASE ~Own(c)
    <3>1. classrooms'[c] = classrooms[c] /\ audit'[c] = audit[c]
      BY <1>11, <2>1, DoorsMove DEF Closes
    <3> QED
      BY <1>2, <3>1
  <2>2. CASE Own(c)
    <3>1. audit'[c] = Append(audit[c], "teacher_left") /\ "teacher_left" \in AuditAction
      BY <1>11, <2>2 DEF Closes, AuditAction
    <3>2. /\ audit'[c] # <<>>
          /\ \A a \in AuditAction : Logged(c, a)' <=> Logged(c, a) \/ a = "teacher_left"
          /\ ArchivedLast(c)' <=> ArchivedLast(c)
      BY <3>1, OneMoreLine
    <3>3. ~Logged(c, "deleted")' /\ Logged(c, "teacher_left")'
      BY <1>7, <2>2, <3>2 DEF AuditAction
    <3>4. Logged(c, "teacher_left")' \in BOOLEAN /\ ArchivedLast(c)' \in BOOLEAN /\ ArchivedLast(c) \in BOOLEAN
      BY DEF Logged, ArchivedLast
    <3>5. classrooms'[c] # NoClass /\ classrooms'[c].left = TRUE /\ classrooms'[c].archived = classrooms[c].archived
      BY <1>11, <2>2, DoorsMove
    <3>6. classrooms'[c].archived = ArchivedLast(c)'
      BY <1>7, <2>2, <3>2, <3>4, <3>5
    <3>7. classrooms'[c].left = Logged(c, "teacher_left")'
      BY <3>3, <3>4, <3>5
    <3> QED
      BY <3>2, <3>3, <3>5, <3>6, <3>7 DEF Right, Told
  <2> QED
    BY <2>1, <2>2
<1>12. CASE UNCHANGED <<classrooms, audit>>
  BY <1>2, <1>12
<1> QED
  BY <1>4, <1>6, <1>8, <1>9, <1>10, <1>11, <1>12 DEF Change, Moves, Enters, Departs

-----------------------------------------------------------------------------
(* The logos.                                                              *)

\* Some class has this logo.
Shown(f) == \E c \in Classroom : classrooms[c] # NoClass /\ classrooms[c].logo = f

\* The logo of a class is a file that is there, and of no other class.
LogosHere ==
    /\ \A c \in Classroom : classrooms[c] # NoClass =>
          classrooms[c].logo \in (stored \cap minted) \cup {Nothing}
    /\ \A c, d \in Classroom :
          /\ classrooms[c] # NoClass /\ classrooms[d] # NoClass
          /\ classrooms[c].logo = classrooms[d].logo
          => c = d \/ classrooms[c].logo = Nothing

\* The file just uploaded is nobody's logo yet, and the file about to be
\* cleaned up is nobody's logo any more.
Spare(r) ==
    /\ Is(r, "upload_logo", "write") =>
          req[r].arg \in stored \cap minted /\ ~Shown(req[r].arg)
    /\ req[r].at = "after" /\ req[r].op \in CleansUp =>
          \A c \in Touched(r) : req[r].seen[c].logo # Nothing => ~Shown(req[r].seen[c].logo)

\* Both.
Logos == LogosHere /\ \A r \in Request : Spare(r)

\* The logos after the step are those before it, less some.
SameLogos ==
    \A c \in Classroom : classrooms'[c] # NoClass =>
        \/ classrooms'[c].logo = Nothing
        \/ classrooms[c] # NoClass /\ classrooms'[c].logo = classrooms[c].logo

\* No new logo: those that remain are still there, and of no other class.
LEMMA SameLogosStay ==
    ASSUME LogosHere, SameLogos, NEW S, \A f \in S \cap File : ~Shown(f),
           stored \ S \subseteq stored', minted \subseteq minted', TypeOK
    PROVE  LogosHere' /\ \A f \in File : Shown(f)' => Shown(f)
<1>1. \A c \in Classroom : classrooms[c] # NoClass => classrooms[c].logo \in File \cup {Nothing}
  BY DEF TypeOK, ClassRow
<1>2. \A f \in File : Shown(f)' => Shown(f)
  BY ClassroomAssumption DEF Shown, SameLogos
<1>3. \A c \in Classroom : classrooms[c] # NoClass /\ classrooms[c].logo # Nothing =>
         classrooms[c].logo \in stored' \cap minted'
  BY <1>1 DEF LogosHere, Shown
<1>4. \A c \in Classroom : classrooms'[c] # NoClass =>
         classrooms'[c].logo \in (stored' \cap minted') \cup {Nothing}
  BY <1>3 DEF SameLogos
<1>5. \A c, d \in Classroom :
          /\ classrooms'[c] # NoClass /\ classrooms'[d] # NoClass
          /\ classrooms'[c].logo = classrooms'[d].logo
          => c = d \/ classrooms'[c].logo = Nothing
  BY DEF SameLogos, LogosHere
<1> QED
  BY <1>2, <1>4, <1>5 DEF LogosHere

\* Every step but the commit of an upload leaves the logos or takes them off.
LEMMA LogosMove ==
    ASSUME TypeOK, Integrity, InStep, NEW r \in Request, Begin(r) \/ Continue(r), ~UploadCommit(r)
    PROVE  SameLogos
<1>1. ASSUME NEW c \in Classroom, Archives(c) \/ Restores(c) \/ Deletes(c)
      PROVE  SameLogos
  <2>1. Own(c) /\ classrooms[c] \in ClassRow
    BY <1>1 DEF TypeOK, Archives, Restores, Deletes, Editable, Own
  <2>2. \/ classrooms'[c] = [classrooms[c] EXCEPT !.archived = TRUE]
        \/ classrooms'[c] = [classrooms[c] EXCEPT !.archived = FALSE]
        \/ classrooms'[c] = NoClass
    BY <1>1 DEF TypeOK, Archives, Restores, Deletes
  <2>3. classrooms'[c] = NoClass \/ classrooms'[c].logo = classrooms[c].logo
    BY <2>1, <2>2 DEF ClassRow
  <2>4. \A d \in Classroom \ {c} : classrooms'[d] = classrooms[d]
    BY <1>1, DoorsMove
  <2> QED
    BY <2>1, <2>3, <2>4 DEF SameLogos, Own
<1>2. CASE Closes
  <2> SUFFICES ASSUME NEW c \in Classroom, classrooms'[c] # NoClass
               PROVE  classrooms[c] # NoClass /\ classrooms'[c].logo = classrooms[c].logo
    BY DEF SameLogos
  <2>1. CASE Own(c)
    <3>1. classrooms'[c] = [classrooms[c] EXCEPT !.left = TRUE] /\ classrooms[c] \in ClassRow
      BY <1>2, <2>1 DEF Closes, TypeOK, Own
    <3> QED
      BY <2>1, <3>1 DEF ClassRow, Own
  <2> QED
    BY <1>2, <2>1 DEF Closes
<1>3. CASE UNCHANGED classrooms
  BY <1>3 DEF SameLogos
<1>4. ASSUME NEW c \in Classroom, NEW d \in Details, CreateClassroom(r, c, d)
      PROVE  SameLogos
  <2>1. classrooms'[c] = [details |-> d, logo |-> Nothing, archived |-> FALSE, left |-> FALSE]
        /\ \A x \in Classroom \ {c} : classrooms'[x] = classrooms[x]
    BY <1>4 DEF CreateClassroom, TypeOK
  <2>2. classrooms'[c].logo = Nothing
    BY <2>1
  <2> QED
    BY <2>1, <2>2 DEF SameLogos
<1>5. CASE UpdateCommit(r) \/ RemoveLogoCommit(r)
  <2>1. req[r].at = "write"
    BY <1>5 DEF UpdateCommit, RemoveLogoCommit, Is
  <2>2. \A c \in Touched(r) : c \in Classroom /\ classrooms[c] = req[r].seen[c] /\ classrooms[c] \in ClassRow
    BY <2>1, AboutToWrite
  <2>3. \A c \in Classroom \ Touched(r) : classrooms'[c] = classrooms[c]
    BY <1>5 DEF UpdateCommit, RemoveLogoCommit, WriteBack
  <2>4. ASSUME NEW c \in Touched(r)
        PROVE  /\ classrooms[c] # NoClass
               /\ classrooms'[c].logo = classrooms[c].logo \/ classrooms'[c].logo = Nothing
    <3>1. classrooms[c] \in ClassRow /\ classrooms[c] # NoClass /\ req[r].seen[c] = classrooms[c]
      BY <2>2, ClassroomAssumption
    <3>2. \/ classrooms'[c] = [classrooms[c] EXCEPT !.details = req[r].arg]
          \/ classrooms'[c] = [classrooms[c] EXCEPT !.logo = Nothing]
      BY <1>5, <2>2, <3>1 DEF UpdateCommit, RemoveLogoCommit, WriteBack
    <3> QED
      BY <3>1, <3>2 DEF ClassRow
  <2> QED
    BY <2>2, <2>3, <2>4 DEF SameLogos
<1>6. CASE ArchiveCommit(r)
  BY <1>1, <1>6, ArchiveCommits
<1>7. CASE RestoreCommit(r)
  BY <1>1, <1>7, RestoreCommits
<1>8. CASE DeleteCommit(r)
  BY <1>1, <1>8, DeleteCommits
<1>9. CASE TeacherLeftCommit(r)
  BY <1>2, <1>9, TeacherLeftCommits
<1>10. CASE Begin(r)
  BY <1>3, <1>4, <1>10 DEF Begin, UpdateRead, UploadRead, RemoveLogoRead, RemoveStudentRead, ArchiveRead,
     RestoreRead, DeleteRead, ResolveRead, RequestRead, LeaveRead, EraseStudents, TeacherLeftRead, db
<1> QED
  BY <1>3, <1>5, <1>6, <1>7, <1>8, <1>9, <1>10 DEF Continue, UploadStore, UploadRollback,
     RemoveStudentRows, RemoveStudentCommit, ArchiveRows, RestoreRows, DeleteLessons, ResolveRows,
     ResolveCommit, RequestRows, RequestAgainCommit, RequestInsertCommit, LeaveCommit,
     TeacherLeftRows, AfterCommit, Abort, db

\* A handler that neither holds a new file nor is about to clean up.
LEMMA NothingSpare ==
    ASSUME OneHandler, NEW r \in Request,
           ~(req'[r].op = "upload_logo" /\ req'[r].at = "write"),
           ~(req'[r].at = "after" /\ req'[r].op \in CleansUp)
    PROVE  \A q \in Request : Spare(q)'
BY DEF OneHandler, Spare, Is

\* What the handler holds after the step, when it only moved on.
LEMMA MovedOn ==
    ASSUME TypeOK, NEW r \in Request, NEW at, Go(r, at)
    PROVE  /\ req'[r].at = at /\ req'[r].op = req[r].op
           /\ req'[r].seen = req[r].seen /\ req'[r].arg = req[r].arg
<1>1. req[r] \in Slot /\ req'[r] = [req[r] EXCEPT !.at = at]
  BY SlotType DEF Go, TypeOK
<1> QED
  BY <1>1 DEF Slot

\* The new logo takes the place of the old one.
LEMMA UploadCommits ==
    ASSUME TypeOK, OneHandler, InStep, Logos, NEW r \in Request, UploadCommit(r)
    PROVE  Logos'
<1>1. Is(r, "upload_logo", "write") /\ Spare(r) /\ LogosHere
  BY DEF UploadCommit, Logos
<1>2. PICK c \in Classroom : Touched(r) = {c} /\ Editable(c)
  BY <1>1, AboutToWrite DEF Is, OpenOnly
<1>3. classrooms[c] \in ClassRow /\ classrooms[c] # NoClass /\ classrooms[c] = req[r].seen[c]
  BY <1>1, <1>2, AboutToWrite, ClassroomAssumption DEF Is
<1> DEFINE new == req[r].arg
           old == classrooms[c].logo
<1>4. new \in File /\ new \in stored \cap minted /\ ~Shown(new) /\ new # Nothing
  BY <1>1, SlotType, ClassroomAssumption DEF Spare, Is, ArgOf
<1>5. classrooms'[c] = [classrooms[c] EXCEPT !.logo = new]
  BY <1>2, <1>3 DEF UploadCommit, WriteBack
<1>6. \A d \in Classroom \ {c} : classrooms'[d] = classrooms[d]
  BY <1>2 DEF UploadCommit, WriteBack
<1>7. classrooms'[c].logo = new /\ classrooms'[c] # NoClass
  <2>1. [classrooms[c] EXCEPT !.logo = new] \in ClassRow /\ [classrooms[c] EXCEPT !.logo = new].logo = new
    BY <1>3, <1>4 DEF ClassRow
  <2> QED
    BY <1>5, <2>1, ClassroomAssumption
<1>8. UNCHANGED <<stored, minted>>
  BY DEF UploadCommit
<1>9. \A d \in Classroom \ {c} : classrooms[d] # NoClass => classrooms[d].logo # new
  BY <1>4 DEF Shown
<1> HIDE DEF new
<1>10. LogosHere'
  <2>1. \A d \in Classroom : classrooms'[d] # NoClass =>
           classrooms'[d].logo \in (stored' \cap minted') \cup {Nothing}
    BY <1>1, <1>4, <1>6, <1>7, <1>8 DEF LogosHere
  <2>2. \A d, e \in Classroom :
            /\ classrooms'[d] # NoClass /\ classrooms'[e] # NoClass
            /\ classrooms'[d].logo = classrooms'[e].logo
            => d = e \/ classrooms'[d].logo = Nothing
    BY <1>1, <1>6, <1>7, <1>9 DEF LogosHere
  <2> QED
    BY <2>1, <2>2 DEF LogosHere
<1>11. old # Nothing => \A d \in Classroom : classrooms'[d] # NoClass => classrooms'[d].logo # old
  <2>1. old # new
    BY <1>3, <1>4 DEF Shown, new
  <2>2. \A d \in Classroom \ {c} : classrooms[d] # NoClass /\ old # Nothing => classrooms[d].logo # old
    BY <1>1, <1>3 DEF LogosHere
  <2> HIDE DEF old
  <2> QED
    BY <1>6, <1>7, <2>1, <2>2
<1>12. /\ req'[r].at = "after" /\ req'[r].op = "upload_logo" /\ req'[r].seen = req[r].seen
       /\ Touched(r)' = {c}
  <2>1. Go(r, "after") /\ req[r].op = "upload_logo"
    BY <1>1 DEF UploadCommit, Is
  <2>2. req'[r].at = "after" /\ req'[r].op = "upload_logo" /\ req'[r].seen = req[r].seen
    BY <2>1, MovedOn
  <2> QED
    BY <1>2, <2>2 DEF Touched
<1>13. Spare(r)'
  BY <1>3, <1>11, <1>12 DEF Spare, Is, Shown
<1> QED
  BY <1>10, <1>13 DEF Logos, OneHandler

\* The class gives up its logo, and nobody else has it.
LEMMA GivenUp ==
    ASSUME TypeOK, OneHandler, Integrity, InStep, Logos, NEW r \in Request,
           RemoveLogoCommit(r) \/ DeleteCommit(r)
    PROVE  \A q \in Request : Spare(q)'
<1>1. req[r].at = "write" /\ req[r].op \in {"remove_logo", "delete_classroom"} /\ Go(r, "after")
  BY DEF RemoveLogoCommit, DeleteCommit, Is
<1>2. PICK c \in Classroom : Touched(r) = {c}
  BY <1>1, AboutToWrite DEF OpenOnly, ArchivedOnly
<1>3. classrooms[c] \in ClassRow /\ classrooms[c] # NoClass /\ classrooms[c] = req[r].seen[c]
  BY <1>1, <1>2, AboutToWrite, ClassroomAssumption
<1>4. classrooms'[c] = NoClass \/ classrooms'[c].logo = Nothing
  <2>1. CASE RemoveLogoCommit(r)
    <3>1. classrooms'[c] = [classrooms[c] EXCEPT !.logo = Nothing]
      BY <1>2, <1>3, <2>1 DEF RemoveLogoCommit, WriteBack
    <3> QED
      BY <1>3, <3>1 DEF ClassRow
  <2>2. CASE DeleteCommit(r)
    BY <1>2, <2>2 DEF DeleteCommit
  <2> QED
    BY <2>1, <2>2
<1>5. \A d \in Classroom \ {c} : classrooms'[d] = classrooms[d]
  BY <1>2 DEF RemoveLogoCommit, DeleteCommit, WriteBack
<1> DEFINE old == classrooms[c].logo
<1>6. old # Nothing => \A d \in Classroom : classrooms'[d] # NoClass => classrooms'[d].logo # old
  <2>1. \A d \in Classroom \ {c} : classrooms[d] # NoClass /\ old # Nothing => classrooms[d].logo # old
    BY <1>3 DEF Logos, LogosHere
  <2> HIDE DEF old
  <2> QED
    BY <1>4, <1>5, <2>1
<1>7. /\ req'[r].at = "after" /\ req'[r].seen = req[r].seen /\ Touched(r)' = {c}
  <2>1. req'[r].at = "after" /\ req'[r].seen = req[r].seen
    BY <1>1, MovedOn
  <2> QED
    BY <1>2, <2>1 DEF Touched
<1>8. Spare(r)'
  BY <1>3, <1>6, <1>7 DEF Spare, Is, Shown
<1> QED
  BY <1>8 DEF OneHandler

\* The logos stay in order, whatever the handler does.
LEMMA LogosStep ==
    ASSUME TypeOK, OneHandler, Integrity, InStep, Logos, Next
    PROVE  Logos'
<1>1. PICK r \in Request : Begin(r) \/ Continue(r)
  BY DEF Next
<1>2. CASE UploadCommit(r)
  BY <1>2, UploadCommits
<1>3. ASSUME ~UploadCommit(r)
      PROVE  Logos'
  <2>0. SameLogos /\ LogosHere /\ Spare(r)
    BY <1>1, <1>3, LogosMove DEF Logos
  <2>1. ASSUME stored \subseteq stored', minted \subseteq minted'
        PROVE  LogosHere'
    <3>1. stored \ {} \subseteq stored' /\ \A f \in {} \cap File : ~Shown(f)
      BY <2>1
    <3> QED
      BY <2>0, <2>1, <3>1, SameLogosStay
  <2>2. CASE UploadStore(r)
    <3>1. PICK f \in File \ minted : /\ stored' = stored \cup {f} /\ minted' = minted \cup {f}
                                     /\ req' = [req EXCEPT ![r].at = "write", ![r].arg = f]
      BY <2>2 DEF UploadStore
    <3>2. req'[r].arg = f
      BY <3>1, SlotType DEF TypeOK, Slot
    <3>3. req'[r].at = "write"
      BY <3>1, SlotType DEF TypeOK, Slot
    <3>4. \A c \in Classroom : classrooms'[c] # NoClass => classrooms'[c].logo # f
      BY <2>0, <3>1, ClassroomAssumption DEF LogosHere, SameLogos
    <3>5. Spare(r)'
      <4>1. req'[r].arg \in stored' \cap minted'
        BY <3>1, <3>2
      <4>2. ~Shown(req[r].arg)'
        BY <3>2, <3>4 DEF Shown
      <4> QED
        BY <3>3, <4>1, <4>2 DEF Spare
    <3> QED
      BY <2>1, <3>1, <3>5 DEF Logos, OneHandler
  <2>3. CASE UploadRollback(r)
    <3>1. req'[r] = IdleSlot
      BY <2>3 DEF UploadRollback, Finish, TypeOK
    <3>2. \A q \in Request : Spare(q)'
      BY <3>1, NothingSpare DEF IdleSlot
    <3>3. \A f \in {req[r].arg} \cap File : ~Shown(f)
      BY <2>0, <2>3 DEF UploadRollback, Spare
    <3>4. stored \ {req[r].arg} \subseteq stored' /\ minted \subseteq minted'
      BY <2>3 DEF UploadRollback
    <3> QED
      BY <2>0, <3>2, <3>3, <3>4, SameLogosStay DEF Logos
  <2>4. CASE AfterCommit(r)
    <3>1. req'[r] = IdleSlot
      BY <2>4 DEF AfterCommit, Finish, TypeOK
    <3>2. \A q \in Request : Spare(q)'
      BY <3>1, NothingSpare DEF IdleSlot
    <3> DEFINE freed == IF req[r].op \in CleansUp THEN {req[r].seen[c].logo : c \in Touched(r)} ELSE {}
    <3>3. \A f \in freed \cap File : ~Shown(f)
      BY <2>0, <2>4, ClassroomAssumption DEF AfterCommit, Spare
    <3>4. stored \ freed \subseteq stored' /\ minted \subseteq minted'
      BY <2>4 DEF AfterCommit, CleansUp
    <3> HIDE DEF freed
    <3> QED
      BY <2>0, <3>2, <3>3, <3>4, SameLogosStay DEF Logos
  <2>5. CASE RemoveLogoCommit(r) \/ DeleteCommit(r)
    <3>1. stored \subseteq stored' /\ minted \subseteq minted'
      BY <2>5 DEF RemoveLogoCommit, DeleteCommit
    <3> QED
      BY <2>1, <2>5, <3>1, GivenUp DEF Logos
  <2>6. ASSUME stored' = stored, minted \subseteq minted',
               ~(req'[r].op = "upload_logo" /\ req'[r].at = "write"),
               ~(req'[r].at = "after" /\ req'[r].op \in CleansUp)
        PROVE  Logos'
    BY <2>1, <2>6, NothingSpare DEF Logos
  <2>7. CASE Begin(r)
    <3>1. stored' = stored /\ minted' = minted
      BY <2>7 DEF Begin, CreateClassroom, UpdateRead, UploadRead, RemoveLogoRead, RemoveStudentRead, ArchiveRead,
         RestoreRead, DeleteRead, ResolveRead, RequestRead, LeaveRead, EraseStudents, TeacherLeftRead
    <3>2. req'[r].at # "after" /\ (req'[r].op = "upload_logo" => req'[r].at # "write")
      <4>1. ASSUME NEW op, NEW at, NEW seen, NEW arg, Start(r, op, at, seen, arg)
            PROVE  req'[r].op = op /\ req'[r].at = at
        BY <4>1 DEF Start, TypeOK
      <4>2. CASE req[r].at = "idle" /\ req' = req
        BY <4>2
      <4>3. ASSUME NEW e \in enrollments, LeaveRead(r, e)
            PROVE  req'[r].at = "write" /\ req'[r].op = "leave_classroom"
        BY <4>3 DEF LeaveRead, TypeOK
      <4>4. ASSUME NEW c \in Classroom, NEW d \in Details, CreateClassroom(r, c, d) \/ UpdateRead(r, c, d)
            PROVE  req'[r].at # "after" /\ (req'[r].op = "upload_logo" => req'[r].at # "write")
        BY <4>1, <4>2, <4>4 DEF CreateClassroom, UpdateRead
      <4>5. ASSUME NEW c \in Classroom,
                   \/ UploadRead(r, c) \/ RemoveLogoRead(r, c) \/ RemoveStudentRead(r, c)
                   \/ ArchiveRead(r, c) \/ RestoreRead(r, c) \/ DeleteRead(r, c)
                   \/ \E decision \in {"accepted", "rejected"} : ResolveRead(r, c, decision)
                   \/ \E s \in Student : RequestRead(r, c, s)
            PROVE  req'[r].at # "after" /\ (req'[r].op = "upload_logo" => req'[r].at # "write")
        BY <4>1, <4>5 DEF UploadRead, RemoveLogoRead, RemoveStudentRead, ArchiveRead,
           RestoreRead, DeleteRead, ResolveRead, RequestRead
      <4>6. CASE TeacherLeftRead(r)
        BY <4>1, <4>6 DEF TeacherLeftRead
      <4>7. CASE \E kids \in SUBSET Student : EraseStudents(r, kids)
        BY <4>2, <4>7 DEF EraseStudents
      <4> QED
        BY <2>7, <4>3, <4>4, <4>5, <4>6, <4>7 DEF Begin
    <3> QED
      BY <2>6, <3>1, <3>2
  <2>8. CASE UpdateCommit(r) \/ Abort(r)
    <3>1. req'[r] = IdleSlot
      BY <2>8 DEF UpdateCommit, Abort, Finish, TypeOK
    <3> QED
      BY <2>6, <2>8, <3>1 DEF UpdateCommit, Abort, IdleSlot
  <2>9. ASSUME NEW at, Go(r, at), stored' = stored, minted \subseteq minted',
               req[r].op \notin {"upload_logo", "remove_logo"}, at # "after" \/ req[r].op # "delete_classroom"
        PROVE  Logos'
    <3>1. req'[r].at = at /\ req'[r].op = req[r].op
      BY <2>9, MovedOn
    <3> QED
      BY <2>6, <2>9, <3>1 DEF CleansUp
  <2>10. ASSUME NEW rows, Keep(r, rows), stored' = stored, minted \subseteq minted', req[r].op # "upload_logo"
         PROVE  Logos'
    <3>1. req'[r] = [req[r] EXCEPT !.at = "write", !.rows = rows] /\ req[r] \in Slot
      BY <2>10, SlotType DEF Keep, TypeOK
    <3>2. req'[r].at = "write" /\ req'[r].op = req[r].op
      BY <3>1 DEF Slot
    <3> QED
      BY <2>6, <2>10, <3>2
  <2>11. CASE \/ RemoveStudentCommit(r) \/ ArchiveCommit(r) \/ RestoreCommit(r) \/ DeleteLessons(r)
              \/ ResolveCommit(r) \/ RequestAgainCommit(r) \/ RequestInsertCommit(r)
              \/ LeaveCommit(r) \/ TeacherLeftCommit(r)
    BY <2>9, <2>11 DEF RemoveStudentCommit, ArchiveCommit, RestoreCommit, DeleteLessons,
       ResolveCommit, RequestAgainCommit, RequestInsertCommit, LeaveCommit, TeacherLeftCommit, Is
  <2>12. CASE \/ RemoveStudentRows(r) \/ ArchiveRows(r) \/ RestoreRows(r) \/ ResolveRows(r)
              \/ RequestRows(r) \/ TeacherLeftRows(r)
    BY <2>10, <2>12 DEF RemoveStudentRows, ArchiveRows, RestoreRows, ResolveRows, RequestRows,
       TeacherLeftRows, Is
  <2> QED
    BY <1>1, <1>3, <2>2, <2>3, <2>4, <2>5, <2>7, <2>8, <2>11, <2>12 DEF Continue
<1> QED
  BY <1>2, <1>3

-----------------------------------------------------------------------------
(* The invariant of one handler at a time, and what follows from it.       *)

\* The inductive invariant: what the run checks, what each handler holds until
\* it commits, and what it owes the bucket afterwards.
Serial ==
    /\ TypeOK /\ Integrity /\ InStep /\ Born
    /\ NobodyWaitsOutside /\ AuditTellsState /\ Logos

\* The empty service satisfies it.
LEMMA SerialInit == Init => Serial
<1> SUFFICES ASSUME Init PROVE Serial
  OBVIOUS
<1>1. TypeOK /\ Integrity
  BY TypeInit DEF Init, Integrity
<1>2. InStep
  BY DEF Init, InStep, Fresh, Chosen, Before, IdleSlot
<1>3. Born /\ NobodyWaitsOutside /\ AuditTellsState
  BY DEF Init, Born, NobodyWaitsOutside, AuditTellsState
<1>4. Logos
  BY DEF Init, Logos, LogosHere, Spare, Is, IdleSlot
<1> QED
  BY <1>1, <1>2, <1>3, <1>4 DEF Serial

\* Every step of the only handler keeps it.
LEMMA SerialStep ==
    ASSUME OneHandler, Serial, [Next]_vars
    PROVE  Serial'
<1>1. CASE UNCHANGED vars
  <2>1. TypeOK' /\ Integrity'
    BY <1>1 DEF Serial, TypeOK, Integrity, vars
  <2>2. InStep'
    <3>1. \A c \in Classroom : /\ PendingOf(c)' = PendingOf(c) /\ AcceptedOf(c)' = AcceptedOf(c)
                               /\ Editable(c)' = Editable(c) /\ Own(c)' = Own(c)
      BY <1>1 DEF vars, PendingOf, AcceptedOf, Editable, Own
    <3>2. \A r \in Request : Touched(r)' = Touched(r) /\ Touched(r) \subseteq Classroom
      BY <1>1 DEF vars, Touched
    <3>3. ASSUME NEW r \in Request, Fresh(r), Chosen(r)
          PROVE  Fresh(r)' /\ Chosen(r)'
      <4>1. Fresh(r)'
        BY <1>1, <3>1, <3>2, <3>3 DEF vars, Fresh
      <4>2. Chosen(r)'
        BY <1>1, <3>1, <3>2, <3>3 DEF vars, Chosen
      <4> QED
        BY <4>1, <4>2
    <3> QED
      BY <3>3 DEF Serial, InStep
  <2>3. Born' /\ NobodyWaitsOutside'
    BY <1>1 DEF Serial, Born, NobodyWaitsOutside, vars
  <2>4. AuditTellsState'
    BY <1>1 DEF Serial, AuditTellsState, vars, Logged, ArchivedLast, Last
  <2>5. LogosHere'
    BY <1>1 DEF Serial, Logos, LogosHere, vars
  <2>6. \A r \in Request : Spare(r)'
    BY <1>1 DEF Serial, Logos, Spare, Shown, Is, Touched, vars
  <2> QED
    BY <2>1, <2>2, <2>3, <2>4, <2>5, <2>6 DEF Serial, Logos
<1>2. CASE Next
  <2>1. TypeOK' /\ Integrity'
    BY <1>2, TypeBegin, TypeContinue, IntegrityStep DEF Next, Serial
  <2>2. Change
    BY <1>2, EveryStep DEF Serial
  <2>3. NobodyWaitsOutside' /\ Born' /\ AuditTellsState'
    BY <2>2, WaitStep, AuditStep DEF Serial
  <2>4. Logos'
    BY <1>2, LogosStep DEF Serial
  <2>5. InStep'
    BY <1>2, StartsInStep, StaysInStep DEF Next, Serial
  <2> QED
    BY <2>1, <2>3, <2>4, <2>5 DEF Serial
<1> QED
  BY <1>1, <1>2

\* One handler at a time, crashes between two of its steps included, the
\* invariant holds in every state.
THEOREM SerialHolds == ASSUME OneHandler PROVE Spec => []Serial
BY SerialInit, SerialStep, PTL DEF Spec

\* One handler at a time, nobody waits in a class that is archived, left or
\* deleted: archive_classroom and teacher_left end every request still pending.
THEOREM QueueEmptyOutside == ASSUME OneHandler PROVE Spec => []NobodyWaitsOutside
BY SerialHolds, PTL DEF Serial

\* One handler at a time, the last lines of the audit log of a class tell
\* whether it is archived, without teacher or deleted.
THEOREM AuditIsTrue == ASSUME OneHandler PROVE Spec => []AuditTellsState
BY SerialHolds, PTL DEF Serial

\* One handler at a time, no clean-up and no failed upload deletes the file a
\* class shows as its logo.
THEOREM LogosAreThere == ASSUME OneHandler PROVE Spec => []LogoIsStored
<1>1. Serial => LogoIsStored
  BY DEF Serial, Logos, LogosHere, LogoIsStored
<1> QED
  BY <1>1, SerialHolds, PTL

\* What a change does to the classes: only an archived class goes, and the
\* class of a teacher who left stays so.
LEMMA ClassesMove ==
    ASSUME TypeOK, Integrity, Born, Change, NEW c \in Classroom, classrooms[c] # NoClass
    PROVE  /\ classrooms'[c] = NoClass => classrooms[c].archived
           /\ classrooms'[c] # NoClass => (classrooms[c].left => classrooms'[c].left)
<1>1. ASSUME NEW d \in Classroom, Opens(d)
      PROVE  classrooms'[c] = classrooms[c]
  BY <1>1 DEF Opens, Born
<1>2. ASSUME NEW d \in Classroom, Archives(d) \/ Restores(d) \/ Deletes(d)
      PROVE  /\ classrooms'[c] = NoClass => classrooms[c].archived
             /\ classrooms'[c] # NoClass => (classrooms[c].left => classrooms'[c].left)
  <2>1. CASE c # d
    BY <1>2, <2>1, DoorsMove
  <2>2. CASE c = d
    BY <1>2, <2>2, DoorsMove DEF Deletes
  <2> QED
    BY <2>1, <2>2
<1>3. CASE Closes
  BY <1>3, DoorsMove
<1>4. CASE Elsewhere
  BY <1>4 DEF Elsewhere, SameDoor
<1>5. CASE UNCHANGED classrooms
  BY <1>5
<1> QED
  BY <1>1, <1>2, <1>3, <1>4, <1>5 DEF Change, Moves, Enters, Departs

\* What a change does to an enrollment: a status that is not pending changes
\* only from rejected to pending.
LEMMA RowsMove ==
    ASSUME TypeOK, Integrity, Change, NEW e \in enrollments, NEW status \in Status,
           [e EXCEPT !.status = status] \in enrollments'
    PROVE  status = e.status \/ e.status = "pending" \/ (e.status = "rejected" /\ status = "pending")
<1> DEFINE f == [e EXCEPT !.status = status]
<1>1. f.id = e.id /\ f.status = status
  BY DEF TypeOK, Row
<1> HIDE DEF f
<1>2. f \in enrollments'
  BY DEF f
<1>3. CASE f \in enrollments
  BY <1>1, <1>3 DEF Integrity
<1>4. ASSUME NEW g \in enrollments, NEW from, NEW to, Moves(g, from, to)
      PROVE  f \in enrollments \/ (e.status = from /\ status = to)
  <2>1. [g EXCEPT !.status = to].id = g.id /\ [g EXCEPT !.status = to].status = to
    BY DEF TypeOK, Row
  <2>2. f \in enrollments \/ f = [g EXCEPT !.status = to]
    BY <1>2, <1>4 DEF Moves
  <2> QED
    BY <1>1, <1>4, <2>1, <2>2 DEF Moves, Integrity
<1>5. ASSUME NEW id \in EnrollmentId, NEW s \in Student, NEW c \in Classroom, Enters(id, s, c)
      PROVE  f \in enrollments
  <2>1. f # [id |-> id, student |-> s, classroom |-> c, status |-> "pending"]
    BY <1>1, <1>5 DEF Enters, Integrity
  <2> QED
    BY <1>2, <1>5, <2>1 DEF Enters
<1>6. CASE enrollments' \subseteq enrollments
  BY <1>2, <1>3, <1>6
<1> QED
  BY <1>3, <1>4, <1>5, <1>6 DEF Change, Elsewhere, Opens, Archives, Restores, Deletes, Closes, Departs

\* One handler at a time: delete_classroom deletes only a class that is still
\* archived, and the class of a teacher who left stays without teacher.
THEOREM ClassesEndInOrder ==
    ASSUME OneHandler PROVE Spec => OnlyArchivedIsDeleted /\ LeftForGood
<1>1. Serial /\ [Next]_vars =>
         /\ [\A c \in Classroom : classrooms[c] # NoClass /\ classrooms'[c] = NoClass => classrooms[c].archived]_vars
         /\ [\A c \in Classroom : classrooms[c] # NoClass /\ classrooms'[c] # NoClass
                                    => (classrooms[c].left => classrooms'[c].left)]_vars
  BY EveryStep, ClassesMove DEF Serial
<1> QED
  BY <1>1, SerialHolds, PTL DEF Spec, OnlyArchivedIsDeleted, LeftForGood

\* One handler at a time: a request is answered once, and a kid in the class
\* never goes back to the queue.
THEOREM AnswersStand ==
    ASSUME OneHandler PROVE Spec => OneAnswer /\ AcceptedBlocksANewRequest
<1>1. ASSUME Serial, Next
      PROVE  /\ \A e \in enrollments : e.status = "accepted" => [e EXCEPT !.status = "pending"] \notin enrollments'
             /\ \A e \in enrollments : e.status \in {"accepted", "rejected"} =>
                   \A status \in {"accepted", "rejected"} \ {e.status} : [e EXCEPT !.status = status] \notin enrollments'
  BY <1>1, EveryStep, RowsMove DEF Serial, Status
<1>2. Serial /\ [Next]_vars =>
         /\ [\A e \in enrollments : e.status = "accepted" => [e EXCEPT !.status = "pending"] \notin enrollments']_vars
         /\ [\A e \in enrollments : e.status \in {"accepted", "rejected"} =>
                \A status \in {"accepted", "rejected"} \ {e.status} : [e EXCEPT !.status = status] \notin enrollments']_vars
  BY <1>1
<1> QED
  BY <1>2, SerialHolds, PTL DEF Spec, OneAnswer, AcceptedBlocksANewRequest

-----------------------------------------------------------------------------
(* The refinement: the doors and the places of EnrollmentPromise.           *)

\* The places of the abstract specification.
Gone == [state |-> "gone"]
In(c, state) == [state |-> state, classroom |-> c]

\* The doors and the places, by the rows.
Doors ==
    \A c \in Classroom :
        /\ DoorOf(c) = "unborn" <=> audit[c] = <<>>
        /\ DoorOf(c) = "open" <=> Editable(c)
        /\ DoorOf(c) = "archived" <=> Own(c) /\ classrooms[c].archived
        /\ DoorOf(c) = "left" <=> classrooms[c] # NoClass /\ ~classrooms[c].archived /\ classrooms[c].left
        /\ DoorOf(c) = "archived_left" <=> classrooms[c] # NoClass /\ classrooms[c].archived /\ classrooms[c].left
        /\ DoorOf(c) = "deleted" <=> audit[c] # <<>> /\ classrooms[c] = NoClass
Places ==
    /\ \A e \in enrollments : PlaceOf(e.id) = In(e.classroom, e.status)
    /\ \A id \in minted \ Ids(enrollments) : PlaceOf(id) = Gone
    /\ \A id : id \notin minted => PlaceOf(id) = [state |-> "free"]

\* The abstract door of a class is what its row says.
LEMMA DoorsAre == Born => Doors
<1> SUFFICES ASSUME Born, NEW c \in Classroom
             PROVE  /\ DoorOf(c) = "unborn" <=> audit[c] = <<>>
                    /\ DoorOf(c) = "open" <=> Editable(c)
                    /\ DoorOf(c) = "archived" <=> Own(c) /\ classrooms[c].archived
                    /\ DoorOf(c) = "left" <=> classrooms[c] # NoClass /\ ~classrooms[c].archived /\ classrooms[c].left
                    /\ DoorOf(c) = "archived_left" <=> classrooms[c] # NoClass /\ classrooms[c].archived /\ classrooms[c].left
                    /\ DoorOf(c) = "deleted" <=> audit[c] # <<>> /\ classrooms[c] = NoClass
  BY DEF Doors
<1>1. classrooms[c] # NoClass => audit[c] # <<>>
  BY DEF Born
<1>2. CASE classrooms[c] = NoClass
  BY <1>2 DEF DoorOf, Editable, Own
<1>3. CASE classrooms[c] # NoClass
  BY <1>1, <1>3 DEF DoorOf, Editable, Own
<1> QED
  BY <1>2, <1>3

\* The abstract place of an enrollment is what its only row says.
LEMMA PlacesAre == Integrity => Places
<1> SUFFICES ASSUME Integrity PROVE Places
  OBVIOUS
<1>1. ASSUME NEW e \in enrollments
      PROVE  PlaceOf(e.id) = In(e.classroom, e.status)
  <2>1. e.id \in minted /\ e.id \in Ids(enrollments)
    BY DEF Integrity, Ids
  <2>2. (CHOOSE row \in enrollments : row.id = e.id) = e
    BY DEF Integrity
  <2> QED
    BY <2>1, <2>2 DEF PlaceOf, In
<1> QED
  BY <1>1 DEF Places, PlaceOf, Gone

\* The same, after a step.
LEMMA AfterTheStep == (Born' => Doors') /\ (Integrity' => Places')
BY DoorsAre, PlacesAre, PTL

\* Rows that go leave their enrollments gone, and no other place changes.
LEMMA PlacesVacate ==
    ASSUME Integrity, Integrity', enrollments' \subseteq enrollments,
           minted \subseteq minted', minted' \subseteq minted \cup File,
           NEW id \in EnrollmentId
    PROVE  PlaceOf(id)' = IF id \in Ids(enrollments \ enrollments') THEN Gone ELSE PlaceOf(id)
<1>0. id \notin File
  BY ClassroomAssumption
<1>1. Places /\ Places'
  BY PlacesAre, AfterTheStep
<1>2. CASE id \in Ids(enrollments \ enrollments')
  <2>1. id \in minted' /\ id \notin Ids(enrollments')
    BY <1>2 DEF Ids, Integrity
  <2> QED
    BY <1>1, <1>2, <2>1 DEF Places
<1>3. CASE id \in Ids(enrollments')
  <2>1. PICK e \in enrollments' : e.id = id
    BY <1>3 DEF Ids
  <2>2. PlaceOf(id)' = In(e.classroom, e.status) /\ PlaceOf(id) = In(e.classroom, e.status)
    BY <1>1, <2>1 DEF Places
  <2>3. id \notin Ids(enrollments \ enrollments')
    BY <2>1 DEF Ids, Integrity
  <2> QED
    BY <2>2, <2>3
<1>4. CASE id \notin Ids(enrollments)
  <2>1. id \notin Ids(enrollments') /\ id \notin Ids(enrollments \ enrollments')
    BY <1>4 DEF Ids
  <2>2. CASE id \in minted
    BY <1>1, <1>4, <2>1, <2>2 DEF Places
  <2>3. CASE id \notin minted
    BY <1>0, <1>1, <2>1, <2>3 DEF Places
  <2> QED
    BY <2>1, <2>2, <2>3
<1> QED
  BY <1>2, <1>3, <1>4 DEF Ids

\* The new status of a row is the new place of its enrollment.
LEMMA PlaceMoves ==
    ASSUME TypeOK, Integrity, Integrity', NEW e \in enrollments, NEW from, NEW to, Moves(e, from, to),
           NEW id \in EnrollmentId
    PROVE  PlaceOf(id)' = IF id = e.id THEN In(e.classroom, to) ELSE PlaceOf(id)
<1>1. Places /\ Places'
  BY PlacesAre, AfterTheStep
<1> DEFINE f == [e EXCEPT !.status = to]
<1>2. f.id = e.id /\ f.classroom = e.classroom /\ f.status = to
  BY DEF TypeOK, Row
<1>3. enrollments' = (enrollments \ {e}) \cup {f} /\ minted' = minted
  BY DEF Moves
<1> HIDE DEF f
<1>4. CASE id = e.id
  BY <1>1, <1>2, <1>3, <1>4 DEF Places
<1>5. ASSUME id # e.id, id \in Ids(enrollments)
      PROVE  PlaceOf(id)' = PlaceOf(id)
  <2>1. PICK g \in enrollments : g.id = id
    BY <1>5 DEF Ids
  <2> QED
    BY <1>1, <1>3, <1>5, <2>1 DEF Places
<1>6. ASSUME id # e.id, id \notin Ids(enrollments)
      PROVE  PlaceOf(id)' = PlaceOf(id)
  <2>1. id \notin Ids(enrollments')
    BY <1>2, <1>3, <1>6 DEF Ids
  <2> QED
    BY <1>1, <1>3, <1>6, <2>1 DEF Places
<1> QED
  BY <1>4, <1>5, <1>6

\* The new row is the place of its enrollment, which was free.
LEMMA PlaceTaken ==
    ASSUME TypeOK, Integrity, Integrity', NEW new \in EnrollmentId, NEW s \in Student, NEW c \in Classroom,
           Enters(new, s, c), NEW id \in EnrollmentId
    PROVE  PlaceOf(id)' = IF id = new THEN In(c, "pending") ELSE PlaceOf(id)
<1>1. Places /\ Places'
  BY PlacesAre, AfterTheStep
<1> DEFINE f == [id |-> new, student |-> s, classroom |-> c, status |-> "pending"]
<1>2. f.id = new /\ f.classroom = c /\ f.status = "pending"
  OBVIOUS
<1>3. enrollments' = enrollments \cup {f} /\ minted' = minted \cup {new}
  BY DEF Enters
<1> HIDE DEF f
<1>4. CASE id = new
  BY <1>1, <1>2, <1>3, <1>4 DEF Places
<1>5. ASSUME id # new, id \in Ids(enrollments)
      PROVE  PlaceOf(id)' = PlaceOf(id)
  <2>1. PICK g \in enrollments : g.id = id
    BY <1>5 DEF Ids
  <2> QED
    BY <1>1, <1>3, <2>1 DEF Places
<1>6. ASSUME id # new, id \notin Ids(enrollments)
      PROVE  PlaceOf(id)' = PlaceOf(id)
  <2>1. id \notin Ids(enrollments')
    BY <1>2, <1>3, <1>6 DEF Ids
  <2> QED
    BY <1>1, <1>3, <1>6, <2>1 DEF Places
<1> QED
  BY <1>4, <1>5, <1>6

-----------------------------------------------------------------------------

\* The refinement mapping, named.
door == [c \in Classroom |-> DoorOf(c)]
place == [id \in EnrollmentId |-> PlaceOf(id)]

\* Who holds a place, and who waits for one, in the tables.
LEMMA WhoWaits ==
    ASSUME TypeOK, Integrity
    PROVE  /\ \A e \in enrollments : e.id \in EnrollmentId /\ Promise!Held(e.id)
           /\ \A c \in Classroom : Promise!Waiting(c) = Ids(PendingOf(c))
           /\ \A c \in Classroom : Promise!Of(c) = Ids({e \in enrollments : e.classroom = c})
<1>1. Places
  BY PlacesAre
<1>2. \A e \in enrollments : e.id \in EnrollmentId /\ e.status \in Status
  BY DEF TypeOK, Row
<1>3. \A e \in enrollments : place[e.id].state = e.status /\ place[e.id].classroom = e.classroom
  <2> SUFFICES ASSUME NEW e \in enrollments
               PROVE  place[e.id].state = e.status /\ place[e.id].classroom = e.classroom
    OBVIOUS
  <2>1. place[e.id] = [state |-> e.status, classroom |-> e.classroom]
    BY <1>1, <1>2 DEF Places, place, In
  <2> QED
    BY <2>1
<1>4. \A id \in EnrollmentId : id \notin Ids(enrollments) => place[id].state \in {"gone", "free"}
  BY <1>1 DEF Places, place, Gone
<1>5. \A id : Promise!Held(id) <=> place[id].state \in {"pending", "accepted", "rejected"}
  BY DEF Promise!Held, place
<1>6. \A id \in EnrollmentId : Promise!Held(id) <=> id \in Ids(enrollments)
  BY <1>2, <1>3, <1>4, <1>5 DEF Ids, Status
<1>7. ASSUME NEW c \in Classroom
      PROVE  Promise!Of(c) = Ids({e \in enrollments : e.classroom = c})
  <2>1. Promise!Of(c) = {id \in EnrollmentId : Promise!Held(id) /\ place[id].classroom = c}
    BY DEF Promise!Of, place
  <2> QED
    BY <1>2, <1>3, <1>6, <2>1 DEF Ids
<1>8. ASSUME NEW c \in Classroom
      PROVE  Promise!Waiting(c) = Ids(PendingOf(c))
  <2>1. Promise!Waiting(c) = {id \in Promise!Of(c) : place[id].state = "pending"}
    BY DEF Promise!Waiting, place
  <2> QED
    BY <1>2, <1>3, <1>7, <2>1 DEF Ids, PendingOf
<1> QED
  BY <1>2, <1>6, <1>7, <1>8 DEF Ids

\* A step of the doors and the places, for each change.
LEMMA KeepsStep ==
    ASSUME TypeOK, Integrity, Integrity', Born, Born', Change
    PROVE  Promise!Next \/ UNCHANGED Promise!vars
<1>1. Doors /\ Doors'
  BY DoorsAre, AfterTheStep
<1>2. Promise!vars = <<door, place>> /\ Promise!vars' = <<door', place'>>
  BY DEF Promise!vars, door, place
<1>3. \A S : Promise!Vacate(S) <=> place' = [id \in EnrollmentId |-> IF id \in S THEN Gone ELSE place[id]]
  BY DEF Promise!Vacate, Promise!Gone, Gone, place
<1>4. ASSUME enrollments' \subseteq enrollments, minted' = minted
      PROVE  Promise!Vacate(Ids(enrollments \ enrollments'))
  <2>1. \A id \in EnrollmentId :
           PlaceOf(id)' = IF id \in Ids(enrollments \ enrollments') THEN Gone ELSE PlaceOf(id)
    BY <1>4, PlacesVacate
  <2>2. place' = [id \in EnrollmentId |-> PlaceOf(id)']
    BY DEF place
  <2>3. \A id \in EnrollmentId : place[id] = PlaceOf(id)
    BY DEF place
  <2> QED
    BY <1>3, <2>1, <2>2, <2>3
<1>5. ASSUME UNCHANGED <<enrollments, minted>>
      PROVE  UNCHANGED place
  <2>1. \A id \in EnrollmentId : PlaceOf(id)' = PlaceOf(id)
    BY <1>5 DEF PlaceOf, Ids
  <2> QED
    BY <2>1 DEF place
<1>6. door' = [c \in Classroom |-> DoorOf(c)'] /\ \A c \in Classroom : door[c] = DoorOf(c)
  BY DEF door
<1>7. ASSUME NEW c \in Classroom, NEW value, DoorOf(c)' = value,
             \A d \in Classroom \ {c} : DoorOf(d)' = DoorOf(d)
      PROVE  door' = [door EXCEPT ![c] = value]
  BY <1>6, <1>7 DEF door
<1>8. \A c \in Classroom : classrooms'[c] = classrooms[c] /\ audit'[c] = audit[c] => DoorOf(c)' = DoorOf(c)
  BY DEF DoorOf
<1>9. ASSUME UNCHANGED <<classrooms, audit>>
      PROVE  UNCHANGED door
  BY <1>6, <1>8, <1>9 DEF door
<1>10. CASE Elsewhere
  <2>1. \A c \in Classroom : DoorOf(c)' = DoorOf(c)
    BY <1>10 DEF Elsewhere, SameDoor, DoorOf
  <2>2. \A id \in EnrollmentId : PlaceOf(id)' = PlaceOf(id)
    BY <1>10, PlacesVacate DEF Elsewhere, Ids
  <2>3. UNCHANGED <<door, place>>
    BY <2>1, <2>2 DEF door, place
  <2> QED
    BY <1>2, <2>3
<1>11. ASSUME NEW c \in Classroom, Opens(c)
       PROVE  Promise!Create(c)
  <2>1. DoorOf(c) = "unborn"
    BY <1>1, <1>11 DEF Opens, Doors
  <2>2. DoorOf(c)' = "open"
    <3>1. Editable(c)'
      BY <1>11 DEF Opens, Editable, Own
    <3> QED
      BY <1>1, <3>1 DEF Doors
  <2>3. \A d \in Classroom \ {c} : DoorOf(d)' = DoorOf(d)
    BY <1>8, <1>11 DEF Opens, TypeOK
  <2>4. door[c] = "unborn" /\ door' = [door EXCEPT ![c] = "open"] /\ UNCHANGED place
    BY <1>5, <1>6, <1>7, <1>11, <2>1, <2>2, <2>3 DEF Opens
  <2> QED
    BY <2>4 DEF Promise!Create, door, place
<1>12. ASSUME NEW c \in Classroom, Archives(c)
       PROVE  Promise!Archive(c)
  <2>1. DoorOf(c) = "open"
    BY <1>1, <1>12 DEF Archives, Doors
  <2>2. DoorOf(c)' = "archived"
    <3>1. Own(c)' /\ classrooms'[c].archived
      BY <1>12, DoorsMove DEF Archives, Own, Editable
    <3> QED
      BY <1>1, <3>1 DEF Doors
  <2>3. \A d \in Classroom \ {c} : DoorOf(d)' = DoorOf(d)
    BY <1>8, <1>12, DoorsMove DEF Archives, TypeOK
  <2>4. enrollments \ enrollments' = PendingOf(c)
    BY <1>12 DEF Archives, PendingOf
  <2>5. Promise!Vacate(Promise!Waiting(c))
    BY <1>4, <1>12, <2>4, WhoWaits DEF Archives
  <2>6. door[c] = "open" /\ door' = [door EXCEPT ![c] = "archived"]
    BY <1>6, <1>7, <2>1, <2>2, <2>3
  <2> QED
    BY <2>5, <2>6 DEF Promise!Archive, door
<1>13. ASSUME NEW c \in Classroom, Restores(c)
       PROVE  Promise!Restore(c)
  <2>1. DoorOf(c) = "archived"
    BY <1>1, <1>13 DEF Restores, Doors
  <2>2. DoorOf(c)' = "open"
    <3>1. Editable(c)'
      BY <1>13, DoorsMove DEF Restores, Own, Editable
    <3> QED
      BY <1>1, <3>1 DEF Doors
  <2>3. \A d \in Classroom \ {c} : DoorOf(d)' = DoorOf(d)
    BY <1>8, <1>13, DoorsMove DEF Restores, TypeOK
  <2>4. door[c] = "archived" /\ door' = [door EXCEPT ![c] = "open"] /\ UNCHANGED place
    BY <1>5, <1>6, <1>7, <1>13, <2>1, <2>2, <2>3 DEF Restores
  <2> QED
    BY <2>4 DEF Promise!Restore, door, place
<1>14. ASSUME NEW c \in Classroom, Deletes(c)
       PROVE  Promise!Delete(c)
  <2>1. DoorOf(c) = "archived"
    BY <1>1, <1>14 DEF Deletes, Doors
  <2>2. DoorOf(c)' = "deleted"
    <3>1. classrooms'[c] = NoClass /\ audit'[c] = Append(audit[c], "deleted")
      BY <1>14, DoorsMove DEF Deletes, TypeOK
    <3>2. audit'[c] # <<>>
      BY <3>1, OneMoreLine DEF AuditAction
    <3> QED
      BY <1>1, <3>1, <3>2 DEF Doors
  <2>3. \A d \in Classroom \ {c} : DoorOf(d)' = DoorOf(d)
    BY <1>8, <1>14, DoorsMove DEF Deletes, TypeOK
  <2>4. enrollments \ enrollments' = {e \in enrollments : e.classroom = c}
    BY <1>14 DEF Deletes
  <2>5. Promise!Vacate(Promise!Of(c))
    BY <1>4, <1>14, <2>4, WhoWaits DEF Deletes
  <2>6. door[c] = "archived" /\ door' = [door EXCEPT ![c] = "deleted"]
    BY <1>6, <1>7, <2>1, <2>2, <2>3
  <2> QED
    BY <2>5, <2>6 DEF Promise!Delete, door
<1>15. CASE Closes
  <2>1. ASSUME NEW c \in Classroom
        PROVE  DoorOf(c)' = CASE door[c] = "open" -> "left"
                              [] door[c] = "archived" -> "archived_left"
                              [] OTHER -> door[c]
    <3>1. CASE ~Own(c)
      <4>1. DoorOf(c) # "open" /\ DoorOf(c) # "archived"
        BY <1>1, <3>1 DEF Doors, Editable
      <4>2. classrooms'[c] = classrooms[c] /\ audit'[c] = audit[c]
        BY <1>15, <3>1, DoorsMove DEF Closes
      <4>3. DoorOf(c)' = DoorOf(c)
        BY <1>8, <4>2
      <4> QED
        BY <1>6, <4>1, <4>3
    <3>2. CASE Own(c)
      <4>1. /\ classrooms'[c] # NoClass /\ classrooms'[c].left
            /\ classrooms'[c].archived = classrooms[c].archived
        BY <1>15, <3>2, DoorsMove
      <4>2. CASE classrooms[c].archived
        <5>1. DoorOf(c) = "archived" /\ DoorOf(c)' = "archived_left"
          BY <1>1, <3>2, <4>1, <4>2 DEF Doors
        <5> QED
          BY <1>6, <5>1
      <4>3. CASE ~classrooms[c].archived
        <5>1. DoorOf(c) = "open" /\ DoorOf(c)' = "left"
          BY <1>1, <3>2, <4>1, <4>3 DEF Doors, Editable
        <5> QED
          BY <1>6, <5>1
      <4> QED
        BY <4>2, <4>3
    <3> QED
      BY <3>1, <3>2
  <2>2. door' = [c \in Classroom |-> CASE door[c] = "open" -> "left"
                                      [] door[c] = "archived" -> "archived_left"
                                      [] OTHER -> door[c]]
    BY <1>6, <2>1
  <2>3. Ids(enrollments \ enrollments') = UNION {Promise!Waiting(c) : c \in Classroom}
    <3>1. enrollments \ enrollments' = UNION {PendingOf(c) : c \in Classroom}
      <4>1. \A e \in enrollments : e.classroom \in Classroom
        BY DEF TypeOK, Row
      <4> QED
        BY <1>15, <4>1 DEF Closes, PendingOf
    <3>2. \A c \in Classroom : Promise!Waiting(c) = Ids(PendingOf(c))
      BY WhoWaits
    <3>3. Ids(UNION {PendingOf(c) : c \in Classroom}) = UNION {Ids(PendingOf(c)) : c \in Classroom}
      BY DEF Ids
    <3> QED
      BY <3>1, <3>2, <3>3
  <2>4. Promise!Vacate(UNION {Promise!Waiting(c) : c \in Classroom})
    BY <1>4, <1>15, <2>3 DEF Closes
  <2>5. Promise!TeacherLeaves
    BY <2>2, <2>4 DEF Promise!TeacherLeaves, door
  <2> QED
    BY <2>5 DEF Promise!Next
<1>16. ASSUME NEW e \in enrollments, NEW from, NEW to, Moves(e, from, to)
       PROVE  /\ e.id \in EnrollmentId /\ e.classroom \in Classroom
              /\ door[e.classroom] = "open" /\ UNCHANGED door
              /\ place[e.id] = In(e.classroom, from)
              /\ place' = [place EXCEPT ![e.id] = In(e.classroom, to)]
  <2>1. e.id \in EnrollmentId /\ e.classroom \in Classroom
    BY DEF TypeOK, Row
  <2>2. door[e.classroom] = "open" /\ UNCHANGED door
    BY <1>1, <1>6, <1>9, <1>16, <2>1 DEF Moves, Doors
  <2>3. \A id \in EnrollmentId : PlaceOf(id)' = IF id = e.id THEN In(e.classroom, to) ELSE PlaceOf(id)
    BY <1>16, PlaceMoves
  <2>4. PlaceOf(e.id) = In(e.classroom, from)
    BY <1>16, PlacesAre DEF Places, Moves
  <2> QED
    BY <2>1, <2>2, <2>3, <2>4 DEF place
<1>17. ASSUME NEW e \in enrollments, NEW state \in {"accepted", "rejected"}, Moves(e, "pending", state)
       PROVE  Promise!Next
  <2>1. Promise!Answer(e.id, e.classroom, state)
    BY <1>16, <1>17 DEF Promise!Answer, Promise!Put, Promise!In, In, door, place
  <2>2. e.id \in EnrollmentId /\ e.classroom \in Classroom
    BY <1>16, <1>17
  <2> QED
    BY <2>1, <2>2 DEF Promise!Next
<1>18. ASSUME NEW e \in enrollments, Moves(e, "rejected", "pending")
       PROVE  Promise!Next
  <2>1. Promise!AskAgain(e.id, e.classroom)
    BY <1>16, <1>18 DEF Promise!AskAgain, Promise!Put, Promise!In, In, door, place
  <2>2. e.id \in EnrollmentId /\ e.classroom \in Classroom
    BY <1>16, <1>18
  <2> QED
    BY <2>1, <2>2 DEF Promise!Next
<1>19. ASSUME NEW new \in EnrollmentId, NEW s \in Student, NEW c \in Classroom, Enters(new, s, c)
       PROVE  Promise!Ask(new, c)
  <2>1. door[c] = "open" /\ UNCHANGED door
    BY <1>1, <1>6, <1>9, <1>19 DEF Enters, Doors
  <2>2. \A id \in EnrollmentId : PlaceOf(id)' = IF id = new THEN In(c, "pending") ELSE PlaceOf(id)
    BY <1>19, PlaceTaken
  <2>3. PlaceOf(new) = [state |-> "free"]
    BY <1>19, PlacesAre DEF Places, Enters
  <2>4. place[new] = [state |-> "free"] /\ place' = [place EXCEPT ![new] = In(c, "pending")]
    BY <2>2, <2>3 DEF place
  <2> QED
    BY <2>1, <2>4 DEF Promise!Ask, Promise!Put, Promise!In, Promise!Free, In, door, place
<1>20. CASE Departs
  <2>1. Promise!Vacate(Ids(enrollments \ enrollments')) /\ UNCHANGED door
    BY <1>4, <1>9, <1>20 DEF Departs
  <2>2. Ids(enrollments \ enrollments') \subseteq EnrollmentId
        /\ \A id \in Ids(enrollments \ enrollments') : Promise!Held(id)
    BY WhoWaits DEF Ids
  <2>3. Promise!Depart(Ids(enrollments \ enrollments'))
    BY <2>1, <2>2 DEF Promise!Depart, door
  <2> QED
    BY <2>2, <2>3 DEF Promise!Next
<1> QED
  BY <1>10, <1>11, <1>12, <1>13, <1>14, <1>15, <1>17, <1>18, <1>19, <1>20 DEF Change, Promise!Next

\* One handler at a time, classroom-service implements EnrollmentPromise: every
\* commit is one step of it, and reads, clean-ups, crashes and edits are none.
THEOREM PromiseIsKept == ASSUME OneHandler PROVE Spec => KeepsThePromise
<1>1. Init => Promise!Init
  BY DEF Init, Promise!Init, Promise!Free, DoorOf, PlaceOf
<1>2. Serial /\ Serial' /\ [Next]_vars => [Promise!Next]_(Promise!vars)
  <2> SUFFICES ASSUME Serial, Serial', [Next]_vars
               PROVE  Promise!Next \/ UNCHANGED Promise!vars
    OBVIOUS
  <2>1. CASE Next
    BY <2>1, EveryStep, KeepsStep DEF Serial
  <2>2. CASE UNCHANGED vars
    <3>1. UNCHANGED <<door, place>>
      BY <2>2 DEF vars, door, place, DoorOf, PlaceOf, Ids
    <3> QED
      BY <3>1 DEF Promise!vars, door, place
  <2> QED
    BY <2>1, <2>2
<1> QED
  BY <1>1, <1>2, SerialHolds, PTL DEF Spec, KeepsThePromise, Promise!Spec
=============================================================================
