------------------------- MODULE ClassroomService -------------------------
(***************************************************************************)
(* classroom-service: the classes of one teacher, the enrollments of the   *)
(* kids in them, the audit log and the logo files.                         *)
(*                                                                         *)
(* A use case is a request handler: a coroutine that reads with SELECTs,   *)
(* decides, writes and commits, and then publishes or cleans up.  Handlers *)
(* interleave at every step.  The database runs at READ COMMITTED and the  *)
(* repositories keep no row between two statements, so what a handler read *)
(* may be stale when it commits, and repositories.update writes back the   *)
(* whole entity it was given, stale fields included.                       *)
(*                                                                         *)
(* With one request slot the handlers run one after the other; with more   *)
(* they interleave.  A definition whose name ends in Mutant is used by no   *)
(* action: it is the definition after it with a plausible mistake.         *)
(***************************************************************************)
EXTENDS Naturals, Sequences

CONSTANTS
    Classroom,     \* ids of classes
    Student,       \* ids of kids
    EnrollmentId,  \* ids of enrollments (uuid4: never given twice)
    File,          \* keys of stored logo files (uuid4: never given twice)
    Details,       \* name, description, color, area and grade of a class
    Request,       \* slots for handlers in flight
    MaxAudit,      \* bound on audit lines: none is begun with more than this
    NoClass,       \* the class does not exist (was not read)
    Nothing        \* None

Status == {"pending", "accepted", "rejected"}

Row == [id: EnrollmentId, student: Student, classroom: Classroom, status: Status]

ClassRow == [details: Details, logo: File \cup {Nothing},
             archived: BOOLEAN, left: BOOLEAN]

AuditAction == {"created", "archived", "restored", "deleted", "teacher_left"}

Op == {"none", "update_classroom", "upload_logo", "remove_logo",
       "remove_student", "archive_classroom", "restore_classroom",
       "delete_classroom", "resolve_request", "request_enrollment",
       "leave_classroom", "teacher_left"}

\* idle; before the storage upload; before the enrollments are read; before
\* the call to content-service; before the commit; after the commit.
Phase == {"idle", "store", "rows", "content", "write", "after"}

Slot == [op: Op, at: Phase, seen: [Classroom -> ClassRow \cup {NoClass}],
         rows: SUBSET Row,
         arg: Details \cup Student \cup Status \cup File \cup {Nothing}]

\* What the argument of each use case may be.
ArgOf(op, at) ==
    CASE op = "update_classroom" -> Details
      [] op = "upload_logo" /\ at # "store" -> File
      [] op = "resolve_request" -> {"accepted", "rejected"}
      [] op = "request_enrollment" -> Student
      [] OTHER -> {Nothing}

ASSUME ClassroomAssumption ==
    /\ NoClass \notin ClassRow
    /\ Nothing \notin File /\ EnrollmentId \cap File = {}
    /\ MaxAudit \in Nat

VARIABLES
    classrooms,   \* table classrooms: id -> row
    enrollments,  \* table enrollments: a set of rows
    audit,        \* table classroom_audit_log: class -> its lines, in order
    stored,       \* logo files in the bucket
    minted,       \* every enrollment id and file key given out so far
    req           \* the handler in each slot

db == <<classrooms, enrollments, audit>>
vars == <<classrooms, enrollments, audit, stored, minted, req>>

-----------------------------------------------------------------------------
IdleSlot == [op |-> "none", at |-> "idle", seen |-> [c \in Classroom |-> NoClass],
             rows |-> {}, arg |-> Nothing]

Init ==
    /\ classrooms = [c \in Classroom |-> NoClass]
    /\ enrollments = {}
    /\ audit = [c \in Classroom |-> <<>>]
    /\ stored = {}
    /\ minted = {}
    /\ req = [r \in Request |-> IdleSlot]

\* _get_own_classroom and _get_editable_classroom let the handler go on.
Own(c) == classrooms[c] # NoClass /\ ~classrooms[c].left

EditableMutant(c) == Own(c)
Editable(c) == Own(c) /\ ~classrooms[c].archived

PendingOf(c) == {e \in enrollments : e.classroom = c /\ e.status = "pending"}
AcceptedOf(c) == {e \in enrollments : e.classroom = c /\ e.status = "accepted"}

Only(c) == [x \in Classroom |-> IF x = c THEN classrooms[c] ELSE NoClass]
Ids(rows) == {e.id : e \in rows}
Touched(r) == {c \in Classroom : req[r].seen[c] # NoClass}

Is(r, op, at) == req[r].op = op /\ req[r].at = at
Start(r, op, at, seen, arg) ==
    /\ req[r].at = "idle"
    /\ req' = [req EXCEPT ![r] = [op |-> op, at |-> at, seen |-> seen,
                                  rows |-> {}, arg |-> arg]]
Go(r, at) == req' = [req EXCEPT ![r].at = at]
Keep(r, rows) == req' = [req EXCEPT ![r].at = "write", ![r].rows = rows]
Finish(r) == req' = [req EXCEPT ![r] = IdleSlot]

\* ClassroomRepository.update: the row is selected again and, if it is still
\* there, takes every field of the entity.

WriteBack(entities) ==
    classrooms' = [c \in Classroom |->
                     IF c \in DOMAIN entities /\ classrooms[c] # NoClass
                     THEN entities[c] ELSE classrooms[c]]

LogMutant(classes, action) ==
    audit' = [c \in Classroom |-> IF c \in classes /\ classrooms'[c] # NoClass
                                  THEN Append(audit[c], action) ELSE audit[c]]

Log(classes, action) ==
    audit' = [c \in Classroom |-> IF c \in classes THEN Append(audit[c], action)
                                  ELSE audit[c]]

\* As a merge would: a row that is gone comes back.
SetStatusMutant(ids, status) ==
    enrollments' = {e \in enrollments : e.id \notin ids} \cup
        {[e EXCEPT !.status = status] :
            e \in {f \in UNION {req[r].rows : r \in Request} : f.id \in ids}}

\* EnrollmentRepository.update: nothing happens when the row is gone.
SetStatus(ids, status) ==
    enrollments' = {IF e.id \in ids THEN [e EXCEPT !.status = status] ELSE e :
                      e \in enrollments}

DeleteIds(ids) == enrollments' = {e \in enrollments : e.id \notin ids}

-----------------------------------------------------------------------------
(* The teacher's use cases.                                                *)

CreateClassroom(r, c, d) ==
    /\ req[r].at = "idle"
    /\ audit[c] = <<>>
    /\ classrooms' = [classrooms EXCEPT ![c] =
                        [details |-> d, logo |-> Nothing,
                         archived |-> FALSE, left |-> FALSE]]
    /\ Log({c}, "created")
    /\ UNCHANGED <<enrollments, stored, minted, req>>

UpdateRead(r, c, d) ==
    /\ Editable(c)
    /\ Start(r, "update_classroom", "write", Only(c), d)
    /\ UNCHANGED <<db, stored, minted>>

UpdateCommit(r) ==
    /\ Is(r, "update_classroom", "write")
    /\ WriteBack([c \in Touched(r) |-> [req[r].seen[c] EXCEPT !.details = req[r].arg]])
    /\ Finish(r)
    /\ UNCHANGED <<enrollments, audit, stored, minted>>

UploadRead(r, c) ==
    /\ Editable(c)
    /\ Start(r, "upload_logo", "store", Only(c), Nothing)
    /\ UNCHANGED <<db, stored, minted>>

UploadStore(r) ==
    /\ Is(r, "upload_logo", "store")
    /\ \E f \in File \ minted :
          /\ stored' = stored \cup {f}
          /\ minted' = minted \cup {f}
          /\ req' = [req EXCEPT ![r].at = "write", ![r].arg = f]
    /\ UNCHANGED db

UploadCommit(r) ==
    /\ Is(r, "upload_logo", "write")
    /\ WriteBack([c \in Touched(r) |-> [req[r].seen[c] EXCEPT !.logo = req[r].arg]])
    /\ Go(r, "after")
    /\ UNCHANGED <<enrollments, audit, stored, minted>>

\* The commit raised: the file just stored is deleted.
UploadRollback(r) ==
    /\ Is(r, "upload_logo", "write")
    /\ stored' = stored \ {req[r].arg}
    /\ Finish(r)
    /\ UNCHANGED <<db, minted>>

RemoveLogoRead(r, c) ==
    /\ Editable(c)
    /\ Start(r, "remove_logo", "write", Only(c), Nothing)
    /\ UNCHANGED <<db, stored, minted>>

RemoveLogoCommit(r) ==
    /\ Is(r, "remove_logo", "write")
    /\ WriteBack([c \in Touched(r) |-> [req[r].seen[c] EXCEPT !.logo = Nothing]])
    /\ Go(r, "after")
    /\ UNCHANGED <<enrollments, audit, stored, minted>>

RemoveStudentRead(r, c) ==
    /\ Editable(c)
    /\ Start(r, "remove_student", "rows", Only(c), Nothing)
    /\ UNCHANGED <<db, stored, minted>>

RemoveStudentRows(r) ==
    /\ Is(r, "remove_student", "rows")
    /\ \E c \in Touched(r) : \E e \in AcceptedOf(c) : Keep(r, {e})
    /\ UNCHANGED <<db, stored, minted>>

RemoveStudentCommit(r) ==
    /\ Is(r, "remove_student", "write")
    /\ DeleteIds(Ids(req[r].rows))
    /\ Go(r, "after")
    /\ UNCHANGED <<classrooms, audit, stored, minted>>

ArchiveRead(r, c) ==
    /\ Own(c) /\ ~classrooms[c].archived
    /\ Len(audit[c]) < MaxAudit
    /\ Start(r, "archive_classroom", "rows", Only(c), Nothing)
    /\ UNCHANGED <<db, stored, minted>>

ArchiveRows(r) ==
    /\ Is(r, "archive_classroom", "rows")
    /\ Keep(r, UNION {PendingOf(c) \cup AcceptedOf(c) : c \in Touched(r)})
    /\ UNCHANGED <<db, stored, minted>>

ArchiveCommit(r) ==
    /\ Is(r, "archive_classroom", "write")
    /\ WriteBack([c \in Touched(r) |-> [req[r].seen[c] EXCEPT !.archived = TRUE]])
    /\ DeleteIds(Ids({e \in req[r].rows : e.status = "pending"}))
    /\ Log(Touched(r), "archived")
    /\ Go(r, "after")
    /\ UNCHANGED <<stored, minted>>

RestoreRead(r, c) ==
    /\ Own(c) /\ classrooms[c].archived
    /\ Len(audit[c]) < MaxAudit
    /\ Start(r, "restore_classroom", "rows", Only(c), Nothing)
    /\ UNCHANGED <<db, stored, minted>>

RestoreRows(r) ==
    /\ Is(r, "restore_classroom", "rows")
    /\ Keep(r, UNION {AcceptedOf(c) : c \in Touched(r)})
    /\ UNCHANGED <<db, stored, minted>>

RestoreCommit(r) ==
    /\ Is(r, "restore_classroom", "write")
    /\ WriteBack([c \in Touched(r) |-> [req[r].seen[c] EXCEPT !.archived = FALSE]])
    /\ Log(Touched(r), "restored")
    /\ Go(r, "after")
    /\ UNCHANGED <<enrollments, stored, minted>>

\* The first transaction of delete_classroom: only for an archived class.
DeleteRead(r, c) ==
    /\ Own(c) /\ classrooms[c].archived
    /\ Start(r, "delete_classroom", "content", Only(c), Nothing)
    /\ UNCHANGED <<db, stored, minted>>

\* content-service deleted the lessons of the class and answered 204.
DeleteLessons(r) ==
    /\ Is(r, "delete_classroom", "content")
    /\ Go(r, "write")
    /\ UNCHANGED <<db, stored, minted>>

\* The second transaction: the enrollments go by cascade, and the audit line
\* is written even when the row was already gone.
DeleteCommit(r) ==
    /\ Is(r, "delete_classroom", "write")
    /\ classrooms' = [c \in Classroom |-> IF c \in Touched(r) THEN NoClass
                                          ELSE classrooms[c]]
    /\ enrollments' = {e \in enrollments : e.classroom \notin Touched(r)}
    /\ Log(Touched(r), "deleted")
    /\ Go(r, "after")
    /\ UNCHANGED <<stored, minted>>

ResolveRead(r, c, decision) ==
    /\ Editable(c)
    /\ Start(r, "resolve_request", "rows", Only(c), decision)
    /\ UNCHANGED <<db, stored, minted>>

ResolveRows(r) ==
    /\ Is(r, "resolve_request", "rows")
    /\ \E c \in Touched(r) : \E e \in PendingOf(c) : Keep(r, {e})
    /\ UNCHANGED <<db, stored, minted>>

\* The decision is saved as it came, not as a status.

ResolveCommit(r) ==
    /\ Is(r, "resolve_request", "write")
    /\ SetStatus(Ids(req[r].rows), req[r].arg)
    /\ Go(r, "after")
    /\ UNCHANGED <<classrooms, audit, stored, minted>>

-----------------------------------------------------------------------------
(* The families.                                                           *)

RequestRead(r, c, s) ==
    /\ Editable(c)
    /\ Start(r, "request_enrollment", "rows", Only(c), s)
    /\ UNCHANGED <<db, stored, minted>>

RequestRowsMutant(r) ==
    LET existing == {e \in enrollments : e.student = req[r].arg
                                         /\ e.classroom \in Touched(r)} IN
    /\ Is(r, "request_enrollment", "rows")
    /\ \A e \in existing : e.status # "pending"
    /\ Keep(r, existing)
    /\ UNCHANGED <<db, stored, minted>>

RequestRows(r) ==
    LET existing == {e \in enrollments : e.student = req[r].arg
                                         /\ e.classroom \in Touched(r)} IN
    /\ Is(r, "request_enrollment", "rows")
    /\ \A e \in existing : e.status \notin {"pending", "accepted"}
    /\ Keep(r, existing)
    /\ UNCHANGED <<db, stored, minted>>

\* A rejected request goes back to pending.
RequestAgainCommit(r) ==
    /\ Is(r, "request_enrollment", "write")
    /\ req[r].rows # {}
    /\ SetStatus(Ids(req[r].rows), "pending")
    /\ Go(r, "after")
    /\ UNCHANGED <<classrooms, audit, stored, minted>>

\* A new row. The unique constraint and the foreign key refuse it when another
\* request got there first or the class is gone; the handler then fails.
RequestInsertCommit(r) ==
    /\ Is(r, "request_enrollment", "write")
    /\ req[r].rows = {}
    /\ \E c \in Touched(r), id \in EnrollmentId \ minted :
          /\ classrooms[c] # NoClass
          /\ \A e \in enrollments : ~(e.student = req[r].arg /\ e.classroom = c)
          /\ enrollments' = enrollments \cup
                {[id |-> id, student |-> req[r].arg, classroom |-> c,
                  status |-> "pending"]}
          /\ minted' = minted \cup {id}
    /\ Go(r, "after")
    /\ UNCHANGED <<classrooms, audit, stored>>

\* _family_enrollment reads in a transaction of its own.
LeaveRead(r, e) ==
    /\ req[r].at = "idle"
    /\ req' = [req EXCEPT ![r] = [op |-> "leave_classroom", at |-> "write",
                                  seen |-> IdleSlot.seen, rows |-> {e},
                                  arg |-> Nothing]]
    /\ UNCHANGED <<db, stored, minted>>

LeaveCommit(r) ==
    /\ Is(r, "leave_classroom", "write")
    /\ DeleteIds(Ids(req[r].rows))
    /\ Go(r, "after")
    /\ UNCHANGED <<classrooms, audit, stored, minted>>

-----------------------------------------------------------------------------
(* Asked by identity-service before it deletes an account.                 *)

EraseStudents(r, kids) ==
    /\ req[r].at = "idle"
    /\ enrollments' = {e \in enrollments : e.student \notin kids}
    /\ UNCHANGED <<classrooms, audit, stored, minted, req>>

TeacherLeftRead(r) ==
    /\ \A c \in Classroom : Len(audit[c]) <= MaxAudit
    /\ Start(r, "teacher_left", "rows", classrooms, Nothing)
    /\ UNCHANGED <<db, stored, minted>>

TeacherLeftRows(r) ==
    /\ Is(r, "teacher_left", "rows")
    /\ Keep(r, UNION {PendingOf(c) : c \in Touched(r)})
    /\ UNCHANGED <<db, stored, minted>>

\* A class already without a teacher is not written again, its requests go.
TeacherLeftCommit(r) ==
    LET mine == {c \in Touched(r) : ~req[r].seen[c].left} IN
    /\ Is(r, "teacher_left", "write")
    /\ WriteBack([c \in mine |-> [req[r].seen[c] EXCEPT !.left = TRUE]])
    /\ DeleteIds(Ids(req[r].rows))
    /\ Log(mine, "teacher_left")
    /\ Go(r, "after")
    /\ UNCHANGED <<stored, minted>>

-----------------------------------------------------------------------------
\* The logo deleted is the one the class has now.
AfterCommitMutant(r) ==
    /\ req[r].at = "after"
    /\ stored' = IF req[r].op \in {"upload_logo", "remove_logo", "delete_classroom"}
                 THEN stored \ {classrooms[c].logo : c \in {x \in Touched(r) : classrooms[x] # NoClass}}
                 ELSE stored
    /\ Finish(r)
    /\ UNCHANGED <<db, minted>>

\* After the commit: the logo nobody points at any more is deleted, the
\* others publish their event (external to this module).
AfterCommit(r) ==
    /\ req[r].at = "after"
    /\ stored' = IF req[r].op \in {"upload_logo", "remove_logo", "delete_classroom"}
                 THEN stored \ {req[r].seen[c].logo : c \in Touched(r)}
                 ELSE stored
    /\ Finish(r)
    /\ UNCHANGED <<db, minted>>

\* The handler ends early: a check failed, another service did not answer,
\* the database refused the commit, or the process died.
Abort(r) ==
    /\ req[r].at # "idle"
    /\ Finish(r)
    /\ UNCHANGED <<db, stored, minted>>

Begin(r) ==
    \/ \E c \in Classroom :
          \/ \E d \in Details : CreateClassroom(r, c, d) \/ UpdateRead(r, c, d)
          \/ UploadRead(r, c) \/ RemoveLogoRead(r, c)
          \/ RemoveStudentRead(r, c)
          \/ ArchiveRead(r, c) \/ RestoreRead(r, c) \/ DeleteRead(r, c)
          \/ \E decision \in {"accepted", "rejected"} : ResolveRead(r, c, decision)
          \/ \E s \in Student : RequestRead(r, c, s)
    \/ \E e \in enrollments : LeaveRead(r, e)
    \/ \E kids \in SUBSET Student : EraseStudents(r, kids)
    \/ TeacherLeftRead(r)

Continue(r) ==
    \/ UpdateCommit(r)
    \/ UploadStore(r) \/ UploadCommit(r) \/ UploadRollback(r)
    \/ RemoveLogoCommit(r)
    \/ RemoveStudentRows(r) \/ RemoveStudentCommit(r)
    \/ ArchiveRows(r) \/ ArchiveCommit(r)
    \/ RestoreRows(r) \/ RestoreCommit(r)
    \/ DeleteLessons(r) \/ DeleteCommit(r)
    \/ ResolveRows(r) \/ ResolveCommit(r)
    \/ RequestRows(r) \/ RequestAgainCommit(r) \/ RequestInsertCommit(r)
    \/ LeaveCommit(r)
    \/ TeacherLeftRows(r) \/ TeacherLeftCommit(r)
    \/ AfterCommit(r)
    \/ Abort(r)

Next == \E r \in Request : Begin(r) \/ Continue(r)

Spec == Init /\ [][Next]_vars
=============================================================================
