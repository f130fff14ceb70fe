---------------------------- MODULE AtLeastOnce -----------------------------
(***************************************************************************)
(* What the queue and its consumers promise to whoever sends a message,    *)
(* said without visibility, workers, heartbeats or pods: a message is      *)
(* handed out one or more times, but no more often than the redrive policy *)
(* allows; it is deleted only after a handler has brought it to its end,   *)
(* or because it can never be handled; and it is given up only after its   *)
(* last receipt.                                                           *)
(***************************************************************************)
EXTENDS Naturals

CONSTANTS
  Messages,
  Valid,        (* messages a handler can bring to an end                   *)
  MaxReceives

VARIABLES
  fate,      (* fate[m]: "pending", "deleted" or "dead"                      *)
  receipts,  (* receipts[m]: how often m was handed out                      *)
  done       (* messages that a handler has brought to an end                *)

vars == <<fate, receipts, done>>

Init ==
  /\ fate = [m \in Messages |-> "pending"]
  /\ receipts = [m \in Messages |-> 0]
  /\ done = {}

HandOut(S) ==
  /\ \A m \in S : fate[m] = "pending" /\ receipts[m] < MaxReceives
  /\ receipts' = [m \in Messages |->
                    IF m \in S THEN receipts[m] + 1 ELSE receipts[m]]
  /\ UNCHANGED <<fate, done>>

(* A handler may end after another receipt has settled the message. *)
Finish(m) ==
  /\ m \in Valid
  /\ receipts[m] > 0
  /\ done' = done \cup {m}
  /\ UNCHANGED <<fate, receipts>>

Delete(m) ==
  /\ fate[m] = "pending"
  /\ receipts[m] > 0
  /\ m \in Valid => m \in done
  /\ fate' = [fate EXCEPT ![m] = "deleted"]
  /\ UNCHANGED <<receipts, done>>

GiveUp(m) ==
  /\ fate[m] = "pending"
  /\ receipts[m] = MaxReceives
  /\ fate' = [fate EXCEPT ![m] = "dead"]
  /\ UNCHANGED <<receipts, done>>

Next ==
  \/ \E S \in SUBSET Messages : HandOut(S)
  \/ \E m \in Messages : Finish(m) \/ Delete(m) \/ GiveUp(m)

Spec == Init /\ [][Next]_vars
=============================================================================
