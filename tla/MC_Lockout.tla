----------------------------- MODULE MC_Lockout ------------------------------
(***************************************************************************)
(* Small instances of the locks: the forms and their keys.                 *)
(***************************************************************************)
EXTENDS LockoutProperties, TLC

CONSTANTS own, shared, kid, change

\* The portal of one session, with its own lock and the one of the account.
PortalLocks == [f \in Form |-> <<own, shared>>]
PortalClears == [f \in Form |-> None]

\* The PIN of a kid, and the form where a parent changes it.
PinLocks == [f \in Form |-> IF f = change THEN <<own>> ELSE <<kid>>]
PinClears == [f \in Form |-> IF f = change THEN kid ELSE None]

\* Two failures lock, and one the session of the portal, which comes before the
\* account as in the settings; their window is as short as it can be.
Failures == [k \in Key |-> IF k = own /\ shared \in Key THEN 1 ELSE 2]
Short == [k \in Key |-> 1]

\* A longer wait from the second lock on.
TwoWaits == [k \in Key |-> <<1, 2>>]
=============================================================================
