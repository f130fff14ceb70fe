---------------------------- MODULE MCExtraction ----------------------------
(* Instances of Extraction for TLC. *)
EXTENDS Extraction, TLC

(* Deliveries differ in nothing but their name. *)
DeliverySymmetry == Permutations(Deliveries)
=============================================================================
