------------------------------ MODULE MC_Units ------------------------------
(***************************************************************************)
(* An instance of Units for TLC: two units, one lesson, and one DBA with   *)
(* one evidence.                                                           *)
(***************************************************************************)
EXTENDS Units, TLC

OneDba == "dba1" :> {"e1"}

=============================================================================
