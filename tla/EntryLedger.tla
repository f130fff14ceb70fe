---------------------------- MODULE EntryLedger -----------------------------
(***************************************************************************)
(* What processing an archive promises to whoever reads the staging        *)
(* bucket, the pipeline_files table and the slipsheet, said without        *)
(* deliveries, retries, contexts or control flow.  Each step publishes one *)
(* fact, and a fact is published only when what it rests on is there.      *)
(***************************************************************************)
EXTENDS Naturals

CONSTANT Entries     (* indices of the archive's entries *)

VARIABLES
  storable,   (* entries whose content may be stored; fixed by the archive  *)
  stored,     (* entries that have an object                                *)
  rows,       (* rows[i]: "none", or the status recorded for entry i        *)
  report      (* the slipsheet: its status, and the entries it calls        *)
              (* UPLOADED                                                   *)

vars == <<storable, stored, rows, report>>

Init ==
  /\ storable \in SUBSET Entries
  /\ stored = {}
  /\ rows = [i \in Entries |-> "none"]
  /\ report = [status |-> "none", uploaded |-> {}]

(* An object appears only for an entry that may be stored, and stays. *)
Store(i) ==
  /\ i \in storable
  /\ stored' = stored \cup {i}
  /\ UNCHANGED <<storable, rows, report>>

(* The first row of an entry is its only one; UPLOADED needs the object. *)
Record(i, s) ==
  /\ rows[i] = "none"
  /\ s = "UPLOADED" => i \in stored
  /\ rows' = [rows EXCEPT ![i] = s]
  /\ UNCHANGED <<storable, stored, report>>

(* The slipsheet may be replaced, but only by one whose children are all    *)
(* stored and recorded, and whose status they justify.                      *)
Publish(s, up) ==
  /\ up \subseteq stored
  /\ \A i \in up : rows[i] # "none"
  /\ s = "SUCCESS" => up = Entries
  /\ s = "PARTIAL_FAILED" => up # {} /\ up # Entries
  /\ report' = [status |-> s, uploaded |-> up]
  /\ UNCHANGED <<storable, stored, rows>>

Next ==
  \/ \E i \in Entries : Store(i)
  \/ \E i \in Entries, s \in {"UPLOADED", "FAILED"} : Record(i, s)
  \/ \E up \in SUBSET Entries,
        s \in {"SUCCESS", "PARTIAL_FAILED", "FAILED"} : Publish(s, up)

Spec == Init /\ [][Next]_vars
=============================================================================
