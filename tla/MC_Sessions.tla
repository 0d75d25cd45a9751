----------------------------- MODULE MC_Sessions -----------------------------
(***************************************************************************)
(* Small instances of the sessions.                                        *)
(***************************************************************************)
EXTENDS SessionsProperties, TLC

\* Ids are only compared, so any two of them may be swapped.
Symmetry == Permutations(Jti) \cup Permutations(Sid) \cup Permutations(Request)
=============================================================================
