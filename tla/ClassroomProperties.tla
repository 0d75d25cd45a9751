------------------------ MODULE ClassroomProperties ------------------------
(***************************************************************************)
(* What classroom-service must get right.  The first part holds however    *)
(* the handlers interleave; the second part holds when they run one at a   *)
(* time (a single request slot), crashes between two steps included.       *)
(***************************************************************************)
EXTENDS ClassroomService

\* Type correctness of the tables, the bucket and the handlers, each of which
\* holds the argument its use case takes.
TypeOK ==
    /\ classrooms \in [Classroom -> ClassRow \cup {NoClass}]
    /\ enrollments \subseteq Row
    /\ audit \in [Classroom -> Seq(AuditAction)]
    /\ stored \subseteq File
    /\ minted \subseteq EnrollmentId \cup File
    /\ req \in [Request -> Slot]
    /\ \A r \in Request : req[r].arg \in ArgOf(req[r].op, req[r].at)

-----------------------------------------------------------------------------
(* However the handlers interleave.                                        *)

\* Every enrollment belongs to a class that exists, has an id of its own that
\* was given out, and is the only one of that kid in that class: the cascade
\* of delete_classroom, the insert and the write-back by id never break it.
Integrity ==
    \A e \in enrollments :
        /\ classrooms[e.classroom] # NoClass
        /\ e.id \in minted
        /\ \A f \in enrollments \ {e} :
              f.id # e.id /\ ~(f.student = e.student /\ f.classroom = e.classroom)

\* A kid who left, was removed or was erased comes back to a class only with a
\* new enrollment, waiting for the teacher: a stale answer or a stale new
\* request never revives the enrollment that was deleted.
ComesBackOnlyAsking ==
    [][\A e \in enrollments' :
          e.id \notin Ids(enrollments) => e.id \notin minted /\ e.status = "pending"]_vars

\* A kid gets a place, or a place in the queue, only from a handler that found
\* the class open; and gets in only from an answer of the teacher to a request
\* the handler had seen waiting.
OnlyThroughTheDoor ==
    [][\A e \in enrollments' :
          e \notin enrollments /\ e.status \in {"pending", "accepted"} =>
             \E r \in Request :
                /\ LET seen == req[r].seen[e.classroom] IN
                      seen # NoClass /\ ~seen.archived /\ ~seen.left
                /\ e.status = "accepted" =>
                      \E was \in req[r].rows : was.id = e.id /\ was.status = "pending"]_vars

\* What the two handlers that give places hold until they end: entities of
\* open classes only, and rows that have not moved to another class since.
HoldsOpenClasses(r) ==
    req[r].op \in {"resolve_request", "request_enrollment"} =>
        /\ \A c \in Touched(r) : ~req[r].seen[c].archived /\ ~req[r].seen[c].left
        /\ \A was \in req[r].rows :
              /\ was.classroom \in Touched(r) /\ was.id \in minted
              /\ req[r].op = "resolve_request" => was.status = "pending"
              /\ \A e \in enrollments : e.id = was.id => e.classroom = was.classroom

HandlersHoldOpenClasses == \A r \in Request : HoldsOpenClasses(r)

\* A class that was deleted never comes back: the handlers that still hold
\* its entity find no row to write on.
DeletedForGood ==
    [][\A c \in Classroom :
          classrooms[c] = NoClass /\ audit[c] # <<>> => classrooms'[c] = NoClass]_vars

-----------------------------------------------------------------------------
(* One handler at a time.                                                  *)

\* The class takes nobody new once it is archived or without teacher: no
\* request waits in it.
NobodyWaitsOutside ==
    \A e \in enrollments :
        e.status = "pending" =>
            /\ classrooms[e.classroom] # NoClass
            /\ ~classrooms[e.classroom].archived /\ ~classrooms[e.classroom].left

Last(s) == s[Len(s)]
Logged(c, action) == \E i \in DOMAIN audit[c] : audit[c][i] = action
\* The last line that archived or restored the class archived it.
ArchivedLast(c) ==
    \E i \in DOMAIN audit[c] :
        /\ audit[c][i] = "archived"
        /\ \A j \in DOMAIN audit[c] : audit[c][j] = "restored" => j < i

\* The audit log tells the state of the class: archived by its last archiving
\* or restoring, without teacher since its teacher_left line, deleted by the
\* line that is then the last one.
AuditTellsState ==
    \A c \in Classroom : audit[c] # <<>> =>
        IF classrooms[c] = NoClass THEN Last(audit[c]) = "deleted"
        ELSE /\ ~Logged(c, "deleted")
             /\ classrooms[c].left = Logged(c, "teacher_left")
             /\ classrooms[c].archived = ArchivedLast(c)

\* The logo of a class is a file that is still in the bucket.
LogoIsStored ==
    \A c \in Classroom :
        classrooms[c] # NoClass => classrooms[c].logo \in stored \cup {Nothing}

\* delete_classroom is the last step, only for an archived class.
OnlyArchivedIsDeleted ==
    [][\A c \in Classroom :
          classrooms[c] # NoClass /\ classrooms'[c] = NoClass => classrooms[c].archived]_vars

\* The class of a teacher who left stays without teacher.
LeftForGood ==
    [][\A c \in Classroom :
          classrooms[c] # NoClass /\ classrooms'[c] # NoClass
             => (classrooms[c].left => classrooms'[c].left)]_vars

\* A kid in the class does not go back to the queue: a pending or accepted
\* request blocks a new one.
AcceptedBlocksANewRequest ==
    [][\A e \in enrollments : e.status = "accepted" =>
          [e EXCEPT !.status = "pending"] \notin enrollments']_vars

\* A request is answered once: RequestAlreadyResolved refuses a second answer.
OneAnswer ==
    [][\A e \in enrollments : e.status \in {"accepted", "rejected"} =>
          \A status \in {"accepted", "rejected"} \ {e.status} :
             [e EXCEPT !.status = status] \notin enrollments']_vars

-----------------------------------------------------------------------------
(* The abstract specification, and where each of its variables is found.   *)

DoorOf(c) ==
    IF audit[c] = <<>> THEN "unborn"
    ELSE IF classrooms[c] = NoClass THEN "deleted"
    ELSE IF classrooms[c].archived
         THEN IF classrooms[c].left THEN "archived_left" ELSE "archived"
         ELSE IF classrooms[c].left THEN "left" ELSE "open"

PlaceOf(id) ==
    IF id \notin minted THEN [state |-> "free"]
    ELSE IF id \notin Ids(enrollments) THEN [state |-> "gone"]
    ELSE LET e == CHOOSE row \in enrollments : row.id = id
         IN [state |-> e.status, classroom |-> e.classroom]

Promise == INSTANCE EnrollmentPromise WITH
              door <- [c \in Classroom |-> DoorOf(c)],
              place <- [id \in EnrollmentId |-> PlaceOf(id)]

\* One at a time, the handlers keep the promise: every commit is one step of
\* the abstract specification, and every other step changes nothing of it.
KeepsThePromise == Promise!Spec

=============================================================================
