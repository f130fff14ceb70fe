----------------------------- MODULE Extraction -----------------------------
(***************************************************************************)
(* extraction.Service.Process (internal/extraction/service.go): what one   *)
(* delivery of a claim-check message does to the staging bucket, to the    *)
(* pipeline_files table and to the slipsheet of ONE archive.               *)
(*                                                                         *)
(* SQS delivers at least once, so several deliveries of the message may    *)
(* run, one after the other or at the same time in different workers or    *)
(* pods.  They share nothing but the three stores, which are keyed by the  *)
(* pipeline execution and the entry index.                                 *)
(*                                                                         *)
(* Each network call is one atomic effect between the step that starts it  *)
(* and the step that sees its answer; a call that fails may have taken     *)
(* effect all the same (the answer was lost).                              *)
(***************************************************************************)
EXTENDS Naturals, Sequences

CONSTANTS
  Deliveries,   (* deliveries of the message that may ever be processed     *)
  Kinds,        (* the kinds of entries the archive may hold                *)
  NumEntries,   (* number of entries in the archive's central directory     *)
  MaxAttempts   (* config.RetryConfig.MaxAttempts                           *)

Entries == 1..NumEntries

-----------------------------------------------------------------------------
(* The archive is the same in every delivery.  What matters of an entry is *)
(* at which step of processEntry it stops.                                  *)

Rejected   == {"badPath", "bombHeader", "bombPeek"}  (* stopped before any  *)
                                                     (* upload: abort       *)
Unreadable == {"unopenable", "badPeek"}              (* skipped, loop goes on *)
Streamed   == {"clean", "bombStream", "badStream"}   (* reach the upload    *)
EntryKinds == Rejected \cup Unreadable \cup Streamed

Headers  == {"ok", "unsupported", "corrupt", "bomb"}
Archives == [header : Headers, kind : [Entries -> Kinds]]

ASSUME ExtractionAssumption ==
  /\ NumEntries \in Nat
  /\ MaxAttempts \in Nat \ {0}    (* config.Validate rejects anything else  *)
  /\ Kinds \subseteq EntryKinds

(* FailureReason of an entry and of the archive, up to their wording.       *)
EntryReasons   == {"path", "bomb", "open", "peek", "canceled", "deadline",
                   "exhausted", "raw", "record"}
ArchiveReasons == {"", "drain", "rule10", "download", "spill", "unsupported",
                   "corrupt", "bomb", "path"}
Statuses       == {"SUCCESS", "PARTIAL_FAILED", "FAILED"}

Uploaded        == [status |-> "UPLOADED", reason |-> ""]
Failed(r)       == [status |-> "FAILED", reason |-> r]
EntryOutcomes   == {Uploaded} \cup {Failed(r) : r \in EntryReasons}
IsUploaded(o)   == o.status = "UPLOADED"

Slipsheets == [status : Statuses, reason : ArchiveReasons,
               children : Seq(EntryOutcomes)]
NoSlip     == [status |-> "none", reason |-> "", children |-> << >>]

Preparing  == {"download", "spill", "open"}
PerEntry   == {"upload", "uploading", "record", "recording", "classify",
               "failing", "rejecting"}
Extracting == Preparing \cup {"loop"} \cup PerEntry  (* inside Process      *)
Deferred   == {"slipsheet", "unwinding"}             (* its deferred write  *)
Ended      == {"returned", "panicked", "crashed"}
PCs        == {"waiting"} \cup Extracting \cup Deferred \cup Ended

VARIABLES
  archive,   (* the archive; never changes                                  *)
  pc,        (* pc[d]: where delivery d is                                  *)
  ctx,       (* ctx[d]: Err of the extraction context (rule 10)             *)
  live,      (* live[d]: the worker context it derives from is not canceled *)
  entries,   (* entries[d]: the outcomes appended so far                    *)
  why,       (* why[d]: FailureReason of the entry being failed             *)
  attempt,   (* attempt[d]: attempts the running Retrier.Do has used up     *)
  fresh,     (* fresh[d]: the stream of the entry in hand is still unread   *)
  status,    (* status[d], reason[d]: archiveStatus and archiveReason       *)
  reason,
  objects,   (* objects[i]: the child in the staging bucket                 *)
  rows,      (* rows[i]: status of the entry's row in pipeline_files        *)
  slip       (* the slipsheet object                                        *)

work   == <<entries, why, attempt, fresh, status, reason>>
stores == <<objects, rows, slip>>
vars   == <<archive, pc, ctx, live, work, stores>>

TypeOK ==
  /\ archive \in Archives
  /\ pc \in [Deliveries -> PCs]
  /\ ctx \in [Deliveries -> {"live", "deadline", "canceled"}]
  /\ live \in [Deliveries -> BOOLEAN]
  /\ entries \in [Deliveries -> Seq(EntryOutcomes)]
  /\ why \in [Deliveries -> EntryReasons \cup {""}]
  /\ attempt \in [Deliveries -> 0..(MaxAttempts - 1)]
  /\ fresh \in [Deliveries -> BOOLEAN]
  /\ status \in [Deliveries -> Statuses]
  /\ reason \in [Deliveries -> ArchiveReasons]
  /\ objects \in [Entries -> {"none", "whole", "short"}]
  /\ rows \in [Entries -> {"none", "UPLOADED", "FAILED"}]
  /\ slip \in Slipsheets \cup {NoSlip}

Init ==
  /\ archive \in Archives
  /\ pc = [d \in Deliveries |-> "waiting"]
  /\ ctx = [d \in Deliveries |-> "live"]
  /\ live = [d \in Deliveries |-> TRUE]
  /\ entries = [d \in Deliveries |-> << >>]
  /\ why = [d \in Deliveries |-> ""]
  /\ attempt = [d \in Deliveries |-> 0]
  /\ fresh = [d \in Deliveries |-> TRUE]
  /\ status = [d \in Deliveries |-> "FAILED"]
  /\ reason = [d \in Deliveries |-> ""]
  /\ objects = [i \in Entries |-> "none"]
  /\ rows = [i \in Entries |-> "none"]
  /\ slip = NoSlip

Goto(d, p) == pc' = [pc EXCEPT ![d] = p]

Current(d) == Len(entries[d]) + 1          (* index of the entry in hand    *)
Kind(d)    == archive.kind[Current(d)]
SomeUploaded(es) == \E j \in 1..Len(es) : IsUploaded(es[j])
AllUploaded(es)  == \A j \in 1..Len(es) : IsUploaded(es[j])

(* A return of Process: the deferred slipsheet write is what is left to do. *)
Return(d, s, r) ==
  /\ Goto(d, "slipsheet")
  /\ status' = [status EXCEPT ![d] = s]
  /\ reason' = [reason EXCEPT ![d] = r]

(* Mutant of PutRow: the put without its condition. *)
PutRowUnconditional(i, s) == rows' = [rows EXCEPT ![i] = s]

(* dynamodb.Adapter.RecordEntry's PutItem, conditional on                   *)
(* attribute_not_exists(pk); ConditionalCheckFailed is success.             *)
PutRow(i, s) ==
  rows' = IF rows[i] = "none" THEN [rows EXCEPT ![i] = s] ELSE rows

-----------------------------------------------------------------------------
(* Up to the loop                                                           *)

Begin(d) ==
  /\ pc[d] = "waiting"
  /\ Goto(d, "download")
  /\ UNCHANGED <<archive, ctx, live, work, stores>>

DownloadOk(d) ==
  /\ pc[d] = "download"
  /\ Goto(d, "spill")
  /\ UNCHANGED <<archive, ctx, live, work, stores>>

(* classifyArchiveErr *)
DownloadReason(d) ==
  CASE ctx[d] = "deadline" -> {"rule10", "download"}
    [] ctx[d] = "canceled" -> {"drain", "download"}
    [] ctx[d] = "live"     -> {"download"}

DownloadFails(d) ==
  /\ pc[d] = "download"
  /\ \E r \in DownloadReason(d) : Return(d, "FAILED", r)
  /\ UNCHANGED <<archive, ctx, live, entries, why, attempt, fresh, stores>>

SpillOk(d) ==
  /\ pc[d] = "spill"
  /\ Goto(d, "open")
  /\ UNCHANGED <<archive, ctx, live, work, stores>>

SpillFails(d) ==
  /\ pc[d] = "spill"
  /\ Return(d, "FAILED", "spill")
  /\ UNCHANGED <<archive, ctx, live, entries, why, attempt, fresh, stores>>

(* openZip, then PreCheck and OverlapCheck *)
OpenAndCheck(d) ==
  /\ pc[d] = "open"
  /\ \/ /\ archive.header = "ok"
        /\ Goto(d, "loop")
        /\ UNCHANGED <<status, reason>>
     \/ /\ archive.header # "ok"
        /\ Return(d, "FAILED", archive.header)
  /\ UNCHANGED <<archive, ctx, live, entries, why, attempt, fresh, stores>>

-----------------------------------------------------------------------------
(* The per-entry loop                                                       *)

(* Mutant of Interrupted: successCount is not looked at. *)
InterruptedAlwaysPartial(d) ==
  /\ pc[d] = "loop"
  /\ Current(d) \in Entries
  /\ ctx[d] # "live"
  /\ Return(d, "PARTIAL_FAILED", "drain")
  /\ UNCHANGED <<archive, ctx, live, entries, why, attempt, fresh, stores>>

(* The loop found its context done. *)
Interrupted(d) ==
  /\ pc[d] = "loop"
  /\ Current(d) \in Entries
  /\ \/ /\ ctx[d] = "deadline"
        /\ Return(d, "FAILED", "rule10")
     \/ /\ ctx[d] = "canceled"
        /\ Return(d, IF SomeUploaded(entries[d]) THEN "PARTIAL_FAILED"
                                                 ELSE "FAILED", "drain")
  /\ UNCHANGED <<archive, ctx, live, entries, why, attempt, fresh, stores>>

NextEntry(d) ==
  /\ pc[d] = "loop"
  /\ Current(d) \in Entries
  /\ ctx[d] = "live"

FailWith(d, p, r) ==
  /\ Goto(d, p)
  /\ why' = [why EXCEPT ![d] = r]

(* Sanitize, EntryCheck or the peek rejects the entry: record, then abort.  *)
RejectEntry(d) ==
  /\ NextEntry(d)
  /\ Kind(d) \in Rejected
  /\ FailWith(d, "rejecting", IF Kind(d) = "badPath" THEN "path" ELSE "bomb")
  /\ UNCHANGED <<archive, ctx, live, entries, attempt, fresh, status, reason,
                 stores>>

(* file.Open or the peek fails: the entry gets an outcome but no row.       *)
SkipUnreadable(d) ==
  /\ NextEntry(d)
  /\ Kind(d) \in Unreadable
  /\ entries' = [entries EXCEPT ![d] =
       Append(@, Failed(IF Kind(d) = "unopenable" THEN "open" ELSE "peek"))]
  /\ UNCHANGED <<archive, pc, ctx, live, why, attempt, fresh, status, reason,
                 stores>>

(* Mutant of StreamEntry: the row is recorded before the upload. *)
StreamEntryRecordFirst(d) ==
  /\ NextEntry(d)
  /\ Kind(d) \in Streamed
  /\ Goto(d, "record")
  /\ UNCHANGED <<archive, ctx, live, entries, why, attempt, fresh, status,
                 reason, stores>>

StreamEntry(d) ==
  /\ NextEntry(d)
  /\ Kind(d) \in Streamed
  /\ Goto(d, "upload")
  /\ UNCHANGED <<archive, ctx, live, entries, why, attempt, fresh, status,
                 reason, stores>>

(* Mutant of StatusOf: one upload is enough for SUCCESS. *)
StatusOfAnySuccess(es) == IF SomeUploaded(es) THEN "SUCCESS" ELSE "FAILED"

(* computeStatus *)
StatusOf(es) ==
  CASE AllUploaded(es)                        -> "SUCCESS"
    [] SomeUploaded(es) /\ ~AllUploaded(es)   -> "PARTIAL_FAILED"
    [] ~SomeUploaded(es) /\ ~AllUploaded(es)  -> "FAILED"

Complete(d) ==
  /\ pc[d] = "loop"
  /\ Current(d) \notin Entries
  /\ Return(d, StatusOf(entries[d]), "")
  /\ UNCHANGED <<archive, ctx, live, entries, why, attempt, fresh, stores>>

-----------------------------------------------------------------------------
(* Mutant of DoHead: no ctx.Err() check before an attempt. *)
DoHeadUnchecked(d, top, call, giveUp) ==
  /\ pc[d] = top
  /\ Goto(d, call)
  /\ UNCHANGED <<why, attempt>>

(* Retrier.Do, run once around the upload and once around the row.  "top"   *)
(* is the head of its loop, "call" the operation.  The wait between two     *)
(* attempts ends with ctx.Err() exactly when the next head would.           *)

DoHead(d, top, call, giveUp) ==
  /\ pc[d] = top
  /\ \/ /\ ctx[d] = "live"
        /\ Goto(d, call)
        /\ UNCHANGED <<why, attempt>>
     \/ /\ ctx[d] # "live"
        /\ FailWith(d, "failing", giveUp)
        /\ attempt' = [attempt EXCEPT ![d] = 0]

(* Mutant of DoTransient: an attempt too many. *)
DoTransientOneMore(d, top, giveUp) ==
  \/ /\ attempt[d] < MaxAttempts
     /\ attempt' = [attempt EXCEPT ![d] = @ + 1]
     /\ Goto(d, top)
     /\ UNCHANGED why
  \/ /\ attempt[d] = MaxAttempts
     /\ attempt' = [attempt EXCEPT ![d] = 0]
     /\ FailWith(d, "failing", giveUp)

(* Mutant of DoTransient: the attempts are not counted. *)
DoTransientForever(d, top, giveUp) ==
  /\ Goto(d, top)
  /\ UNCHANGED <<why, attempt>>

(* A *TransientError, which a call cut off by the deadline also gets from   *)
(* AsTransient: try again, or give up with a *PermanentError.               *)
DoTransient(d, top, giveUp) ==
  \/ /\ attempt[d] + 1 < MaxAttempts
     /\ attempt' = [attempt EXCEPT ![d] = @ + 1]
     /\ Goto(d, top)
     /\ UNCHANGED why
  \/ /\ attempt[d] + 1 = MaxAttempts
     /\ attempt' = [attempt EXCEPT ![d] = 0]
     /\ FailWith(d, "failing", giveUp)

(* Any other error comes out of Do at once. *)
DoAbort(d, p, r) ==
  /\ attempt' = [attempt EXCEPT ![d] = 0]
  /\ FailWith(d, p, r)

DoSucceed(d, p) ==
  /\ attempt' = [attempt EXCEPT ![d] = 0]
  /\ Goto(d, p)
  /\ UNCHANGED why

-----------------------------------------------------------------------------
(* Uploading the child.  Every attempt is given the same reader, so one     *)
(* that follows an attempt which read from it stores only what is left.     *)

UploadHead(d) ==
  /\ DoHead(d, "upload", "uploading", ctx[d])
  /\ UNCHANGED <<archive, ctx, live, entries, fresh, status, reason, stores>>

StoreChild(d) ==
  objects' = [objects EXCEPT ![Current(d)] =
                IF fresh[d] THEN "whole" ELSE "short"]

(* Mutant of UploadOk: the upload alone makes the outcome UPLOADED. *)
UploadOkWithoutRow(d) ==
  /\ pc[d] = "uploading"
  /\ Kind(d) = "clean"
  /\ StoreChild(d)
  /\ fresh' = [fresh EXCEPT ![d] = TRUE]
  /\ DoSucceed(d, "classify")
  /\ UNCHANGED <<archive, ctx, live, entries, status, reason, rows, slip>>

UploadOk(d) ==
  /\ pc[d] = "uploading"
  /\ Kind(d) = "clean"
  /\ StoreChild(d)
  /\ fresh' = [fresh EXCEPT ![d] = TRUE]
  /\ DoSucceed(d, "record")
  /\ UNCHANGED <<archive, ctx, live, entries, status, reason, rows, slip>>

(* The limited reader trips rule 2 or 3, or the entry does not decompress. *)
UploadUnreadable(d) ==
  /\ pc[d] = "uploading"
  /\ \/ /\ Kind(d) = "bombStream"
        /\ DoAbort(d, "rejecting", "bomb")
     \/ /\ Kind(d) = "badStream"
        /\ DoAbort(d, "failing", "raw")
  /\ fresh' = [fresh EXCEPT ![d] = FALSE]
  /\ UNCHANGED <<archive, ctx, live, entries, status, reason, stores>>

(* The call fails before or after reading the stream, and when it was read  *)
(* to its end the object may be there although the answer is an error.      *)
UploadFails(d) ==
  /\ pc[d] = "uploading"
  /\ \/ DoTransient(d, "upload", "exhausted")
     \/ DoAbort(d, "failing", "raw")
     \/ ctx[d] = "canceled" /\ DoAbort(d, "failing", "canceled")
  /\ \/ UNCHANGED <<fresh, objects>>
     \/ /\ fresh' = [fresh EXCEPT ![d] = FALSE]
        /\ \/ UNCHANGED objects
           \/ Kind(d) = "clean" /\ StoreChild(d)
  /\ UNCHANGED <<archive, ctx, live, entries, status, reason, rows, slip>>

-----------------------------------------------------------------------------
(* Recording the row, then the best-effort classification.                  *)

RecordHead(d) ==
  /\ DoHead(d, "record", "recording", "record")
  /\ UNCHANGED <<archive, ctx, live, entries, fresh, status, reason, stores>>

RecordOk(d) ==
  /\ pc[d] = "recording"
  /\ PutRow(Current(d), "UPLOADED")
  /\ DoSucceed(d, "classify")
  /\ UNCHANGED <<archive, ctx, live, entries, fresh, status, reason, objects,
                 slip>>

(* Mutant of RecordFails: a failed record leaves the outcome UPLOADED. *)
RecordFailsIgnored(d) ==
  /\ pc[d] = "recording"
  /\ DoSucceed(d, "classify")
  /\ UNCHANGED <<archive, ctx, live, entries, fresh, status, reason, stores>>

RecordFails(d) ==
  /\ pc[d] = "recording"
  /\ \/ DoTransient(d, "record", "record")
     \/ DoAbort(d, "failing", "record")
  /\ \/ UNCHANGED rows
     \/ PutRow(Current(d), "UPLOADED")
  /\ UNCHANGED <<archive, ctx, live, entries, fresh, status, reason, objects,
                 slip>>

(* classifyChild: neither its result nor its failure changes the status.    *)
Classify(d) ==
  /\ pc[d] = "classify"
  /\ Goto(d, "loop")
  /\ entries' = [entries EXCEPT ![d] = Append(@, Uploaded)]
  /\ UNCHANGED <<archive, ctx, live, why, attempt, fresh, status, reason,
                 stores>>

(* recordFailedEntry: one unretried put on the extraction context, whose    *)
(* error is only logged.  Then the outcome is appended, and the loop goes   *)
(* on or the archive is aborted.                                            *)
RecordFailedEntry(d) ==
  /\ \/ UNCHANGED rows
     \/ ctx[d] = "live" /\ PutRow(Current(d), "FAILED")
  /\ entries' = [entries EXCEPT ![d] = Append(@, Failed(why[d]))]
  /\ why' = [why EXCEPT ![d] = ""]
  /\ fresh' = [fresh EXCEPT ![d] = TRUE]

FailEntry(d) ==
  /\ pc[d] = "failing"
  /\ RecordFailedEntry(d)
  /\ Goto(d, "loop")
  /\ UNCHANGED <<archive, ctx, live, attempt, status, reason, objects, slip>>

(* Mutant of AbortArchive: the abort flag is dropped and the loop goes on. *)
AbortArchiveContinues(d) ==
  /\ pc[d] = "rejecting"
  /\ RecordFailedEntry(d)
  /\ Goto(d, "loop")
  /\ UNCHANGED <<archive, ctx, live, attempt, status, reason, objects, slip>>

AbortArchive(d) ==
  /\ pc[d] = "rejecting"
  /\ RecordFailedEntry(d)
  /\ Return(d, "FAILED", why[d])
  /\ UNCHANGED <<archive, ctx, live, attempt, objects, slip>>

-----------------------------------------------------------------------------
(* The end of a delivery: its locals and its contexts are gone.             *)
End(d, p) ==
  /\ Goto(d, p)
  /\ ctx' = [ctx EXCEPT ![d] = "live"]
  /\ live' = [live EXCEPT ![d] = TRUE]
  /\ entries' = [entries EXCEPT ![d] = << >>]
  /\ why' = [why EXCEPT ![d] = ""]
  /\ attempt' = [attempt EXCEPT ![d] = 0]
  /\ fresh' = [fresh EXCEPT ![d] = TRUE]
  /\ status' = [status EXCEPT ![d] = "FAILED"]
  /\ reason' = [reason EXCEPT ![d] = ""]

(* The deferred slipsheet write.  Its context derives from the worker       *)
(* context, not from the extraction context: the deadline does not stop it, *)
(* a drain does.  A failure is logged and counted, nothing else.            *)

WriteSlipsheet(d) ==
  /\ pc[d] \in Deferred
  /\ End(d, IF pc[d] = "slipsheet" THEN "returned" ELSE "panicked")
  /\ \/ UNCHANGED slip
     \/ /\ live[d]
        /\ slip' = [status |-> status[d], reason |-> reason[d],
                    children |-> entries[d]]
  /\ UNCHANGED <<archive, objects, rows>>

-----------------------------------------------------------------------------
(* The environment of a delivery                                            *)

(* Rule 10.  The extraction context is not used after the loop. *)
Deadline(d) ==
  /\ pc[d] \in Extracting
  /\ ctx[d] = "live"
  /\ ctx' = [ctx EXCEPT ![d] = "deadline"]
  /\ UNCHANGED <<archive, pc, live, work, stores>>

(* SIGTERM cancels the root context and with it the worker context. *)
Drain(d) ==
  /\ pc[d] \in Extracting \cup Deferred
  /\ live[d]
  /\ live' = [live EXCEPT ![d] = FALSE]
  /\ ctx' = [ctx EXCEPT ![d] = IF @ = "live" THEN "canceled" ELSE @]
  /\ UNCHANGED <<archive, pc, work, stores>>

(* A panic unwinds through the deferred write with archiveStatus as it was  *)
(* initialised; sqs.Adapter.dispatch recovers it and leaves the message.    *)
Panic(d) ==
  /\ pc[d] \in Extracting
  /\ Goto(d, "unwinding")
  /\ UNCHANGED <<archive, ctx, live, work, stores>>

(* The process dies: nothing deferred runs. *)
Crash(d) ==
  /\ pc[d] \in Extracting \cup Deferred
  /\ End(d, "crashed")
  /\ UNCHANGED <<archive, stores>>

-----------------------------------------------------------------------------
Step(d) ==
  \/ DownloadOk(d) \/ DownloadFails(d) \/ SpillOk(d) \/ SpillFails(d)
  \/ OpenAndCheck(d)
  \/ Interrupted(d) \/ RejectEntry(d) \/ SkipUnreadable(d) \/ StreamEntry(d)
  \/ Complete(d)
  \/ UploadHead(d) \/ UploadOk(d) \/ UploadUnreadable(d) \/ UploadFails(d)
  \/ RecordHead(d) \/ RecordOk(d) \/ RecordFails(d) \/ Classify(d)
  \/ FailEntry(d) \/ AbortArchive(d) \/ WriteSlipsheet(d)

Environment(d) == Begin(d) \/ Deadline(d) \/ Drain(d) \/ Panic(d) \/ Crash(d)

Next == \E d \in Deliveries : Step(d) \/ Environment(d)

(* The worker goroutine keeps running, and each network call it makes       *)
(* returns: the SDK answers, fails, or is cut off by the deadline.          *)
Fairness == \A d \in Deliveries : WF_vars(Step(d))

Spec == Init /\ [][Next]_vars /\ Fairness

-----------------------------------------------------------------------------
(* Safety                                                                   *)

(* Entries the archive allows to be stored: readable to the end, and not    *)
(* behind an entry that aborts the archive before its upload.               *)
Storable == {i \in Entries : /\ archive.header = "ok"
                             /\ archive.kind[i] = "clean"
                             /\ \A j \in 1..(i - 1) :
                                  archive.kind[j] \notin Rejected}

(* Whatever deliveries, retries, crashes and drains happen, the staging     *)
(* bucket holds no child of a rejected archive, none that failed a bomb,    *)
(* path or decompression check, and none behind an entry that aborted the   *)
(* archive (BR-BOMB-006, BR-SLIP-005: the loop short-circuits).             *)
OnlyStorableStored == \A i \in Entries : objects[i] # "none" => i \in Storable

(* Upload first, then record (BR-IDEMPOTENCY-003): an UPLOADED row always   *)
(* points at an object that exists, in every interleaving of deliveries.    *)
UploadedRowHasObject ==
  \A i \in Entries : rows[i] = "UPLOADED" => objects[i] # "none"

(* A child that the slipsheet calls UPLOADED has an object and a row, also  *)
(* when the slipsheet of one delivery describes rows another one wrote.     *)
SlipsheetIsBacked ==
  \A j \in 1..Len(slip.children) :
    IsUploaded(slip.children[j]) => objects[j] # "none" /\ rows[j] # "none"

AbortReasons == {"bomb", "path"}

(* The status in the slipsheet describes its children: SUCCESS covers every *)
(* entry of an accepted archive, PARTIAL_FAILED is never claimed with       *)
(* nothing uploaded nor with everything uploaded, and an entry that aborts  *)
(* the archive is the last child and makes it FAILED (BR-STATUS-001,        *)
(* BR-STATUS-002, BR-SLIP-005).                                             *)
StatusDescribesChildren ==
  LET cs == slip.children
      all == Len(cs) = NumEntries /\ AllUploaded(cs)
  IN /\ slip.status = "SUCCESS" => all /\ archive.header = "ok"
     /\ slip.status = "PARTIAL_FAILED" => SomeUploaded(cs) /\ ~all
     /\ \A j \in 1..Len(cs) : cs[j].reason \in AbortReasons =>
          j = Len(cs) /\ slip.status = "FAILED"

(* With one delivery of the message, a child the slipsheet calls UPLOADED   *)
(* has an UPLOADED row (BR-STATUS-004).                                     *)
SlipsheetAgreesWithRows ==
  \A j \in 1..Len(slip.children) :
    IsUploaded(slip.children[j]) => rows[j] = "UPLOADED"

(* A row is never overwritten, whoever attempts it (BR-IDEMPOTENCY-002).    *)
RowsAreWriteOnce ==
  [][\A i \in Entries : rows[i] # "none" => rows'[i] = rows[i]]_vars

(* Once its context is done a delivery starts no further call: it may only  *)
(* see the end of the one in flight.  So each store changes at most once    *)
(* more before the delivery ends, however many entries are left.            *)
DoneContextStartsNothing ==
  [][\A d \in Deliveries :
       ctx[d] # "live" /\ pc'[d] \in {"uploading", "recording"} =>
         pc[d] = pc'[d]]_vars

(* The abstract promise of a delivery to the readers of the stores.         *)
Ledger == INSTANCE EntryLedger WITH
  Entries  <- Entries,
  storable <- Storable,
  stored   <- {i \in Entries : objects[i] # "none"},
  rows     <- rows,
  report   <- [status |-> slip.status,
               uploaded |-> {j \in 1..Len(slip.children) :
                               IsUploaded(slip.children[j])}]

(* Every step of every delivery is a step of the ledger, or invisible.      *)
ImplementsLedger == Ledger!Spec

-----------------------------------------------------------------------------
(* Liveness                                                                 *)

(* A delivery that starts comes to its end: retries are bounded and every   *)
(* path leads through the deferred slipsheet write.                         *)
EveryDeliveryEnds ==
  \A d \in Deliveries : pc[d] = "download" ~> pc[d] \in Ended

-----------------------------------------------------------------------------
(* What the documents say and the code does not do                          *)

(* BR-IDEMPOTENCY-004: what a child key holds is the entry's bytes.         *)
StoredChildrenAreWhole == \A i \in Entries : objects[i] # "short"

(* BR-DDB-002: no entry that was iterated over is without a row.  Entries   *)
(* whose record attempt failed are left out: the doc allows for those.      *)
UnreadableEntriesHaveRows ==
  \A d \in Deliveries : pc[d] = "slipsheet" =>
    \A j \in 1..Len(entries[d]) :
      entries[d][j].reason \in {"open", "peek"} => rows[j] # "none"

(* BR-STATUS-002, BR-RETRY-012: when the deadline of rule 10 cuts an entry  *)
(* off, the archive is FAILED and not PARTIAL_FAILED.                       *)
DeadlineFailsArchive ==
  \A d \in Deliveries :
    /\ pc[d] = "slipsheet"
    /\ \E j \in 1..Len(entries[d]) : entries[d][j].reason = "deadline"
    => status[d] = "FAILED"

(* BR-IDEMPOTENCY-003: a conditional-check failure means that the row of    *)
(* an earlier delivery stands for a stored child; so a SUCCESS slipsheet    *)
(* never describes a FAILED row.                                            *)
SuccessHasNoFailedRow ==
  slip.status = "SUCCESS" => \A i \in Entries : rows[i] # "FAILED"

(* business-logic-model.md section 5: a drain during the download still     *)
(* writes the slipsheet.                                                    *)
DrainedDownloadHasSlipsheet ==
  [][\A d \in Deliveries :
       /\ pc[d] = "slipsheet" /\ pc'[d] = "returned"
       /\ reason[d] = "drain" /\ entries[d] = << >>
       => slip' # NoSlip]_vars
=============================================================================
