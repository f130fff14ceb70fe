------------------------------- MODULE MCApp --------------------------------
(* Instances of App for TLC; a tick is ten seconds. *)
EXTENDS App
=============================================================================
