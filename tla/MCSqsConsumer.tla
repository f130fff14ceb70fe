--------------------------- MODULE MCSqsConsumer ---------------------------
(* Instances of SqsConsumer for TLC. *)
EXTENDS SqsConsumer, TLC

PodSymmetry == Permutations(Pods)
=============================================================================
