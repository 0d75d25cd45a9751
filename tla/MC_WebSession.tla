--------------------------- MODULE MC_WebSession ---------------------------
(***************************************************************************)
(* Instances of WebSession for TLC: two tabs of one browser.               *)
(***************************************************************************)
EXTENDS WebSession

CONSTANTS t1, t2, c1, ana, luis

OneCall == [c \in {c1} |-> t1]
=============================================================================
