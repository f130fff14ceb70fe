--------------------------- MODULE MCEntryStream ----------------------------
(* Instances of EntryStream for TLC. *)
EXTENDS EntryStream
=============================================================================
