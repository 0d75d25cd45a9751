--------------------------- MODULE AccountErasure ---------------------------
(***************************************************************************)
(* Deleting an account for good (account_erasure.py): the other services   *)
(* erase their part, one after the other, then the sessions are closed,    *)
(* and the account goes last.  Each step may fail, with its work done, not *)
(* done or done later, and the person may ask again, or from two tabs.     *)
(*                                                                         *)
(* A row is one thing that a service keeps of the person or of a kid: at   *)
(* classroom-service an enrollment, or a class that has its teacher; at    *)
(* content-service the progress of a kid; at notification-service a        *)
(* notification or a name in one; at "sessions" a session of the person.   *)
(***************************************************************************)
EXTENDS Naturals, FiniteSets

CONSTANTS
    Kid,      \* the kids a guardian may have, in all
    Form,     \* the tabs the deletion may be asked from
    MaxRows,  \* the bound on the rows written
    MaxLate   \* the bound on the calls given up that the service has still to do

Person == "person"
ErasureAssumption == Person \notin Kid /\ MaxRows \in Nat /\ MaxLate \in Nat

VARIABLES
    role,     \* "guardian" or "teacher"
    account,  \* the account, "here" or "gone"
    kid,      \* the rows of the kids, "unborn" before they are created
    rows,     \* what the others keep: [at, of, n]
    written,  \* how many rows were written
    asked,    \* the deletions under way: where they are, the kids read, the rows written until then
    late,     \* the calls given up that may still be done
    took      \* the deletion that took the account

vars == <<role, account, kid, rows, written, asked, late, took>>

Idle == [at |-> "idle", kids |-> {}, since |-> 0]
students == {k \in Kid : kid[k] = "here"}
Known == {k \in Kid : kid[k] # "unborn"}

Init ==
    /\ role \in {"guardian", "teacher"} /\ account = "here"
    /\ kid = [k \in Kid |-> "unborn"] /\ rows = {} /\ written = 0
    /\ asked = [f \in Form |-> Idle] /\ late = {} /\ took = Idle

\* Whose rows a step erases: erase_students the kids', erase_notifications the
\* kids' and the person's, teacher_left and revoke_all the person's.
Concerned(at, kids) ==
    IF role = "teacher" \/ at = "sessions" THEN {Person}
    ELSE IF at = "notification" THEN {Person} \cup kids
    ELSE kids
Erased(at, kids) == {row \in rows : row.at = at /\ row.of \in Concerned(at, kids)}

\* The steps, in their order; erase_students is two calls, or none without kids.
First(kids) == IF role = "guardian" /\ kids = {} THEN "notification" ELSE "classroom"
Then(at) ==
    CASE at = "classroom" -> IF role = "guardian" THEN "content" ELSE "notification"
      [] at = "content" -> "notification"
      [] at = "notification" -> "sessions"
      [] at = "sessions" -> "account"
      [] OTHER -> "idle"
Goes(f, at) == asked' = [asked EXCEPT ![f].at = at]

-----------------------------------------------------------------------------
(* Meanwhile.                                                              *)

createStudent(k) ==
    /\ role = "guardian" /\ account = "here" /\ kid[k] = "unborn"
    /\ kid' = [kid EXCEPT ![k] = "here"]
    /\ UNCHANGED <<role, account, rows, written, asked, late, took>>

\* What the other services write: they keep no account, and a kid's token or an
\* event on its way may outlive it. What a handler there writes back after it was
\* erased is a new row as well. A session begins with a login.
Write(at, of) ==
    /\ written < MaxRows /\ of \in Concerned(at, Known)
    /\ role = "teacher" => at # "content"
    /\ at = "sessions" => account = "here"
    /\ rows' = rows \cup {[at |-> at, of |-> of, n |-> written + 1]}
    /\ written' = written + 1
    /\ UNCHANGED <<role, account, kid, asked, late, took>>

-----------------------------------------------------------------------------
(* delete_guardian and delete_teacher.                                     *)

\* After the code and the password the account is read, with its kids.
deleteMyAccount(f) ==
    /\ asked[f].at = "idle" /\ account = "here"
    /\ asked' = [asked EXCEPT ![f] = [at |-> First(students), kids |-> students, since |-> written]]
    /\ UNCHANGED <<role, account, kid, rows, written, late, took>>

\* A service, or Redis, did its part and said so.
Answers(f) ==
    /\ asked[f].at \in {"classroom", "content", "notification", "sessions"}
    /\ rows' = rows \ Erased(asked[f].at, asked[f].kids)
    /\ Goes(f, Then(asked[f].at))
    /\ UNCHANGED <<role, account, kid, written, late, took>>

\* ErasureUnavailable, or the process dies: the deletion ends there. What was
\* asked was done, will be, or never.
FailsMutant(f) ==
    /\ asked[f].at # "idle"
    /\ Goes(f, Then(asked[f].at))
    /\ UNCHANGED <<role, account, kid, rows, written, late, took>>
Fails(f) ==
    /\ asked[f].at # "idle"
    /\ asked' = [asked EXCEPT ![f] = Idle]
    /\ \/ asked[f].at # "account" /\ rows' = rows \ Erased(asked[f].at, asked[f].kids) /\ UNCHANGED late
       \/ /\ asked[f].at \in {"classroom", "content", "notification"} /\ Cardinality(late) < MaxLate
          /\ late' = late \cup {[at |-> asked[f].at, kids |-> asked[f].kids]} /\ UNCHANGED rows
       \/ UNCHANGED <<rows, late>>
    /\ UNCHANGED <<role, account, kid, written, took>>
ComesLate(c) ==
    /\ late' = late \ {c}
    /\ rows' = rows \ Erased(c.at, c.kids)
    /\ UNCHANGED <<role, account, kid, written, asked, took>>

\* guardians.delete or teachers.delete, with the kids, if it is still there.
deleteAccount(f) ==
    /\ asked[f].at = "account"
    /\ asked' = [asked EXCEPT ![f] = Idle]
    /\ account' = "gone"
    /\ kid' = [k \in Kid |-> IF k \in students THEN "gone" ELSE kid[k]]
    /\ took' = IF account = "here" THEN asked[f] ELSE took
    /\ UNCHANGED <<role, rows, written, late>>

Next ==
    \/ \E k \in Kid : createStudent(k)
    \/ \E at \in {"classroom", "content", "notification", "sessions"}, of \in {Person} \cup Kid : Write(at, of)
    \/ \E f \in Form : deleteMyAccount(f) \/ Answers(f) \/ Fails(f) \/ deleteAccount(f)
    \/ \E c \in late : ComesLate(c)

Spec == Init /\ [][Next]_vars

-----------------------------------------------------------------------------
(* Properties.                                                             *)

\* "The other services erase their part first and the account goes last": once
\* it is gone nothing is left anywhere that was written before the deletion that
\* took it was asked for, whichever step failed before and however often it was
\* asked again.
NothingOlderIsLeft == account = "gone" => \A row \in rows : row.n > took.since

\* Every kid that went with the account was named to the other services. The code
\* does not hold it: a kid created after the kids were read goes with the account,
\* what the others keep of that kid stays, and nobody can ask again.
NoKidIsForgotten ==
    account = "gone" => \A k \in Kid : kid[k] = "gone" =>
        k \in took.kids \/ \E f \in Form : asked[f].at # "idle" /\ k \in asked[f].kids
=============================================================================
