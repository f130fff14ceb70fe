----------------------------- MODULE MCPipeline -----------------------------
(* Instances of Pipeline for TLC. *)
EXTENDS Pipeline, TLC

PodSymmetry == Permutations(Pods)

(* A bound: the messages that compete with Focus are received once. *)
OthersOnce == \A m \in Messages \ {Focus} : count[m] <= 1
=============================================================================
