--------------------------- MODULE MCOverlapCheck ---------------------------
(* Instances of OverlapCheck for TLC. *)
EXTENDS OverlapCheck
=============================================================================
