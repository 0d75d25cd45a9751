------------------------- MODULE EnrollmentPromise -------------------------
(***************************************************************************)
(* What classroom-service promises the families and the teacher, without   *)
(* handlers, transactions or tables: a class has a door, and each          *)
(* enrollment has one place in one class.  Closing the door (archiving, or *)
(* the teacher leaving) ends every request still waiting, in one step.     *)
(***************************************************************************)
EXTENDS Naturals

CONSTANTS Classroom, EnrollmentId

VARIABLES
    door,   \* class -> "unborn", "open", "archived", "left", "archived_left", "deleted"
    place   \* enrollment -> its state and its class

vars == <<door, place>>

Free == [state |-> "free"]
Gone == [state |-> "gone"]
In(c, state) == [state |-> state, classroom |-> c]

Held(e) == place[e].state \in {"pending", "accepted", "rejected"}
Of(c) == {e \in EnrollmentId : Held(e) /\ place[e].classroom = c}
Waiting(c) == {e \in Of(c) : place[e].state = "pending"}

Vacate(es) == place' = [e \in EnrollmentId |-> IF e \in es THEN Gone ELSE place[e]]
Put(e, c, state) == place' = [place EXCEPT ![e] = In(c, state)]

Init == /\ door = [c \in Classroom |-> "unborn"]
        /\ place = [e \in EnrollmentId |-> Free]

Create(c) == /\ door[c] = "unborn"
             /\ door' = [door EXCEPT ![c] = "open"]
             /\ UNCHANGED place

Ask(e, c) == /\ door[c] = "open" /\ place[e] = Free
             /\ Put(e, c, "pending")
             /\ UNCHANGED door

AskAgain(e, c) == /\ door[c] = "open" /\ place[e] = In(c, "rejected")
                  /\ Put(e, c, "pending")
                  /\ UNCHANGED door

\* One answer for each request, while the class is open.
Answer(e, c, state) == /\ door[c] = "open" /\ place[e] = In(c, "pending")
                       /\ Put(e, c, state)
                       /\ UNCHANGED door

\* Leaving, being removed, or being erased.
Depart(es) == /\ \A e \in es : Held(e)
              /\ Vacate(es)
              /\ UNCHANGED door

Archive(c) == /\ door[c] = "open"
              /\ door' = [door EXCEPT ![c] = "archived"]
              /\ Vacate(Waiting(c))

Restore(c) == /\ door[c] = "archived"
              /\ door' = [door EXCEPT ![c] = "open"]
              /\ UNCHANGED place

\* The teacher leaves: the door of every class of theirs closes for good.
TeacherLeaves ==
    /\ door' = [c \in Classroom |-> CASE door[c] = "open" -> "left"
                                      [] door[c] = "archived" -> "archived_left"
                                      [] OTHER -> door[c]]
    /\ Vacate(UNION {Waiting(c) : c \in Classroom})

Delete(c) == /\ door[c] = "archived"
             /\ door' = [door EXCEPT ![c] = "deleted"]
             /\ Vacate(Of(c))

Next == \/ \E c \in Classroom : Create(c) \/ Archive(c) \/ Restore(c) \/ Delete(c)
        \/ \E c \in Classroom, e \in EnrollmentId :
              \/ Ask(e, c) \/ AskAgain(e, c)
              \/ \E state \in {"accepted", "rejected"} : Answer(e, c, state)
        \/ \E es \in SUBSET EnrollmentId : Depart(es)
        \/ TeacherLeaves

Spec == Init /\ [][Next]_vars

=============================================================================
