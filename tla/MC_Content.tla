----------------------------- MODULE MC_Content -----------------------------
(***************************************************************************)
(* Small instances of content-service.                                     *)
(***************************************************************************)
EXTENDS ContentProperties, TLC

\* Ids are only compared, so any two of them may be swapped.
Symmetry == Permutations(Unit) \cup Permutations(Lesson) \cup Permutations(Request)

\* A bound: with the class closed, one unit and one lesson are enough.
FewWhenClosed == class = "open" \/ Cardinality(minted) <= 2
=============================================================================
