-------------------------- MODULE ExtractionProofs --------------------------
(***************************************************************************)
(* Theorems about Extraction, for every number of deliveries, entries and  *)
(* attempts and for every archive: its types; the inductive invariant      *)
(* behind OnlyStorableStored, UploadedRowHasObject, SlipsheetIsBacked and  *)
(* StatusDescribesChildren; and, from it, that Extraction implements       *)
(* EntryLedger.                                                            *)
(***************************************************************************)
EXTENDS Extraction, TLAPS

-----------------------------------------------------------------------------
(* Type correctness.  The reason kept in why[d] is one of the archive's     *)
(* own reasons when the archive is about to be aborted with it.             *)

WhyOK == \A d \in Deliveries :
           /\ pc[d] = "rejecting" => why[d] \in AbortReasons
           /\ pc[d] = "failing" => why[d] \in EntryReasons \ AbortReasons

TypeInv == TypeOK /\ WhyOK

(* The invariant holds before any delivery. *)
LEMMA TypeInit == Init => TypeInv
<1> SUFFICES ASSUME Init PROVE TypeInv
  OBVIOUS
<1>1. MaxAttempts - 1 \in Nat
  BY ExtractionAssumption
<1>a. archive \in Archives
  BY DEF Init
<1>b. pc \in [Deliveries -> PCs]
  BY DEF Init, PCs
<1>c. ctx \in [Deliveries -> {"live", "deadline", "canceled"}]
  BY DEF Init
<1>d. entries \in [Deliveries -> Seq(EntryOutcomes)]
  <2>1. << >> \in Seq(EntryOutcomes)
    OBVIOUS
  <2> QED
    BY <2>1 DEF Init
<1>e. why \in [Deliveries -> EntryReasons \cup {""}]
  BY DEF Init
<1>f. attempt \in [Deliveries -> 0..(MaxAttempts - 1)]
  <2>1. 0 \in 0..(MaxAttempts - 1)
    BY ExtractionAssumption
  <2> QED
    BY <2>1 DEF Init
<1>g. status \in [Deliveries -> Statuses] /\ reason \in [Deliveries -> ArchiveReasons]
  BY DEF Init, Statuses, ArchiveReasons
<1>h. slip \in Slipsheets \cup {NoSlip}
  BY DEF Init
<1>2. TypeOK
  BY <1>a, <1>b, <1>c, <1>d, <1>e, <1>f, <1>g, <1>h DEF Init, TypeOK
<1>3. WhyOK
  BY DEF Init, WhyOK
<1> QED
  BY <1>2, <1>3 DEF TypeInv

(* The strings the actions assign are members of the sets they are typed    *)
(* by.                                                                      *)
LEMMA Names ==
  /\ \A p \in {"waiting", "download", "spill", "open", "loop", "upload",
               "uploading", "record", "recording", "classify", "failing",
               "rejecting", "slipsheet", "unwinding", "returned", "panicked",
               "crashed"} : p \in PCs
  /\ \A s \in {"SUCCESS", "PARTIAL_FAILED", "FAILED"} : s \in Statuses
  /\ \A r \in {"", "drain", "rule10", "download", "spill", "unsupported",
               "corrupt", "bomb", "path"} : r \in ArchiveReasons
  /\ \A r \in {"path", "bomb", "open", "peek", "canceled", "deadline",
               "exhausted", "raw", "record"} : r \in EntryReasons
  /\ AbortReasons \subseteq ArchiveReasons \cap EntryReasons
  /\ archive \in Archives => archive.header \in ArchiveReasons \cup {"ok"}
BY DEF PCs, Extracting, Preparing, PerEntry, Deferred, Ended, Statuses,
       ArchiveReasons, EntryReasons, AbortReasons, Archives, Headers

(* The outcomes processEntry builds, and what computeStatus returns. *)
LEMMA OutcomeTypes ==
  /\ Uploaded \in EntryOutcomes
  /\ \A r \in EntryReasons : Failed(r) \in EntryOutcomes
  /\ \A es \in Seq(EntryOutcomes), o \in EntryOutcomes :
       Append(es, o) \in Seq(EntryOutcomes)
  /\ \A es : StatusOf(es) \in Statuses
BY DEF EntryOutcomes, StatusOf, Statuses

(* What the deferred write stores is a slipsheet. *)
LEMMA SlipsheetType ==
  \A s \in Statuses, r \in ArchiveReasons, c \in Seq(EntryOutcomes) :
    [status |-> s, reason |-> r, children |-> c] \in Slipsheets
BY DEF Slipsheets

(* The attempt counter of Retrier.Do stays below MaxAttempts. *)
LEMMA AttemptType ==
  /\ 0 \in 0..(MaxAttempts - 1)
  /\ \A a \in 0..(MaxAttempts - 1) :
       a + 1 < MaxAttempts => a + 1 \in 0..(MaxAttempts - 1)
BY ExtractionAssumption

(* What the end of a delivery, and a transient error inside Retrier.Do,      *)
(* leave in the delivery's locals.                                          *)
LEMMA EndType ==
  ASSUME TypeOK, NEW d \in Deliveries,
         NEW p \in {"returned", "panicked", "crashed"}, End(d, p)
  PROVE  /\ pc' \in [Deliveries -> PCs]
         /\ ctx' \in [Deliveries -> {"live", "deadline", "canceled"}]
         /\ live' \in [Deliveries -> BOOLEAN]
         /\ entries' \in [Deliveries -> Seq(EntryOutcomes)]
         /\ why' \in [Deliveries -> EntryReasons \cup {""}]
         /\ attempt' \in [Deliveries -> 0..(MaxAttempts - 1)]
         /\ fresh' \in [Deliveries -> BOOLEAN]
         /\ status' \in [Deliveries -> Statuses]
         /\ reason' \in [Deliveries -> ArchiveReasons]
<1>1. << >> \in Seq(EntryOutcomes)
  OBVIOUS
<1>2. /\ pc' \in [Deliveries -> PCs]
      /\ ctx' \in [Deliveries -> {"live", "deadline", "canceled"}]
      /\ live' \in [Deliveries -> BOOLEAN]
  BY Names DEF End, Goto, TypeOK
<1>3. /\ entries' \in [Deliveries -> Seq(EntryOutcomes)]
      /\ why' \in [Deliveries -> EntryReasons \cup {""}]
      /\ attempt' \in [Deliveries -> 0..(MaxAttempts - 1)]
  BY <1>1, AttemptType DEF End, TypeOK
<1>4. /\ fresh' \in [Deliveries -> BOOLEAN]
      /\ status' \in [Deliveries -> Statuses]
      /\ reason' \in [Deliveries -> ArchiveReasons]
  BY Names DEF End, TypeOK
<1> QED
  BY <1>2, <1>3, <1>4

(* Failing an entry keeps the types of pc and why. *)
LEMMA FailWithType ==
  ASSUME TypeOK, NEW d \in Deliveries, NEW r \in EntryReasons,
         NEW p \in {"failing", "rejecting"}, FailWith(d, p, r)
  PROVE  /\ pc' \in [Deliveries -> PCs]
         /\ why' \in [Deliveries -> EntryReasons \cup {""}]
BY Names DEF FailWith, Goto, TypeOK

(* So does the head of the loop of Retrier.Do. *)
LEMMA HeadType ==
  ASSUME TypeOK, NEW d \in Deliveries, NEW top \in {"upload", "record"},
         NEW call \in {"uploading", "recording"}, NEW giveUp \in EntryReasons,
         DoHead(d, top, call, giveUp)
  PROVE  /\ pc' \in [Deliveries -> PCs]
         /\ why' \in [Deliveries -> EntryReasons \cup {""}]
         /\ attempt' \in [Deliveries -> 0..(MaxAttempts - 1)]
<1>1. CASE ctx[d] = "live"
  <2>1. Goto(d, call) /\ UNCHANGED why /\ UNCHANGED attempt
    BY <1>1 DEF DoHead
  <2>2. pc' \in [Deliveries -> PCs]
    BY <2>1, Names DEF Goto, TypeOK
  <2> QED
    BY <2>1, <2>2 DEF TypeOK
<1>2. CASE ctx[d] # "live"
  <2>1. FailWith(d, "failing", giveUp)
    BY <1>2 DEF DoHead
  <2>2. attempt' \in [Deliveries -> 0..(MaxAttempts - 1)]
    BY <1>2, AttemptType DEF DoHead, TypeOK
  <2> QED
    BY <2>1, <2>2, FailWithType
<1> QED
  BY <1>1, <1>2

(* So does a transient error inside Retrier.Do. *)
LEMMA TransientType ==
  ASSUME TypeOK, NEW d \in Deliveries, NEW top \in {"upload", "record"},
         NEW giveUp \in EntryReasons, DoTransient(d, top, giveUp)
  PROVE  /\ pc' \in [Deliveries -> PCs]
         /\ why' \in [Deliveries -> EntryReasons \cup {""}]
         /\ attempt' \in [Deliveries -> 0..(MaxAttempts - 1)]
<1>1. CASE /\ attempt[d] + 1 < MaxAttempts
           /\ attempt' = [attempt EXCEPT ![d] = @ + 1]
           /\ Goto(d, top)
           /\ UNCHANGED why
  <2>1. attempt[d] + 1 \in 0..(MaxAttempts - 1)
    BY <1>1, AttemptType DEF TypeOK
  <2>2. pc' \in [Deliveries -> PCs]
    BY <1>1, Names DEF Goto, TypeOK
  <2> QED
    BY <1>1, <2>1, <2>2 DEF TypeOK
<1>2. CASE /\ attempt' = [attempt EXCEPT ![d] = 0]
           /\ FailWith(d, "failing", giveUp)
  <2>1. attempt' \in [Deliveries -> 0..(MaxAttempts - 1)]
    BY <1>2, AttemptType DEF TypeOK
  <2> QED
    BY <1>2, <2>1, FailWithType
<1> QED
  BY <1>1, <1>2 DEF DoTransient

(* Every step of every delivery keeps the types. *)
LEMMA TypeStep == TypeInv /\ [Next]_vars => TypeOK'
<1> SUFFICES ASSUME TypeInv, [Next]_vars PROVE TypeOK'
  OBVIOUS
<1> USE Names, OutcomeTypes, AttemptType, SlipsheetType DEF TypeInv
<1>0. CASE UNCHANGED vars
  BY <1>0 DEF TypeOK, vars, work, stores
<1> SUFFICES ASSUME NEW d \in Deliveries, Step(d) \/ Environment(d)
             PROVE  TypeOK'
  BY <1>0 DEF Next
<1>1. CASE Begin(d)
  BY <1>1 DEF TypeOK, Goto, Return, End, FailWith, work, stores, Begin
<1>2. CASE DownloadOk(d)
  BY <1>2 DEF TypeOK, Goto, Return, End, FailWith, work, stores, DownloadOk
<1>3. CASE DownloadFails(d)
  <2>1. PICK r \in {"rule10", "download", "drain"} : Return(d, "FAILED", r)
    BY <1>3 DEF DownloadFails, DownloadReason, TypeOK
  <2> QED
    BY <1>3, <2>1 DEF DownloadFails, Return, Goto, TypeOK, stores
<1>4. CASE SpillOk(d)
  BY <1>4 DEF TypeOK, Goto, Return, End, FailWith, work, stores, SpillOk
<1>5. CASE SpillFails(d)
  BY <1>5 DEF TypeOK, Goto, Return, End, FailWith, work, stores, SpillFails
<1>6. CASE OpenAndCheck(d)
  BY <1>6 DEF TypeOK, Goto, Return, End, FailWith, work, stores, OpenAndCheck
<1>7. CASE Interrupted(d)
  <2>1. PICK s \in {"PARTIAL_FAILED", "FAILED"}, r \in {"rule10", "drain"} :
          Return(d, s, r)
    BY <1>7 DEF Interrupted
  <2> QED
    BY <1>7, <2>1 DEF Interrupted, Return, Goto, TypeOK, stores
<1>8. CASE RejectEntry(d)
  BY <1>8 DEF TypeOK, Goto, Return, End, FailWith, work, stores, RejectEntry, NextEntry
<1>9. CASE SkipUnreadable(d)
  BY <1>9 DEF TypeOK, Goto, Return, End, FailWith, work, stores, SkipUnreadable, NextEntry
<1>10. CASE StreamEntry(d)
  BY <1>10 DEF TypeOK, Goto, Return, End, FailWith, work, stores, StreamEntry, NextEntry
<1>11. CASE Complete(d)
  BY <1>11 DEF TypeOK, Goto, Return, End, FailWith, work, stores, Complete
<1>12. CASE UploadHead(d)
  <2>1. ctx[d] # "live" => ctx[d] \in {"deadline", "canceled"}
    BY DEF TypeOK
  <2>2. PICK r \in {"deadline", "canceled"} :
          \/ ctx[d] = "live" /\ DoHead(d, "upload", "uploading", r)
          \/ ctx[d] # "live" /\ DoHead(d, "upload", "uploading", r)
    BY <1>12, <2>1 DEF UploadHead, DoHead
  <2> QED
    BY <1>12, <2>2, HeadType DEF UploadHead, TypeOK, stores
<1>13. CASE UploadOk(d)
  BY <1>13 DEF TypeOK, Goto, Return, End, FailWith, work, stores, UploadOk, StoreChild, DoSucceed
<1>14. CASE UploadUnreadable(d)
  <2>1. PICK p \in {"rejecting", "failing"}, r \in {"bomb", "raw"} :
          DoAbort(d, p, r)
    BY <1>14 DEF UploadUnreadable
  <2> QED
    BY <1>14, <2>1 DEF UploadUnreadable, DoAbort, FailWith, Goto, TypeOK, stores
<1>15. CASE UploadFails(d)
  <2>1. /\ pc' \in [Deliveries -> PCs]
        /\ why' \in [Deliveries -> EntryReasons \cup {""}]
        /\ attempt' \in [Deliveries -> 0..(MaxAttempts - 1)]
    <3>1. CASE DoTransient(d, "upload", "exhausted")
      BY <3>1, TransientType
    <3>2. ASSUME NEW r \in {"raw", "canceled"}, DoAbort(d, "failing", r)
          PROVE  <2>1
      BY <3>2 DEF DoAbort, FailWith, Goto, TypeOK
    <3> QED
      BY <1>15, <3>1, <3>2 DEF UploadFails
  <2>2. /\ fresh' \in [Deliveries -> BOOLEAN]
        /\ objects' \in [Entries -> {"none", "whole", "short"}]
    BY <1>15 DEF UploadFails, StoreChild, TypeOK
  <2> QED
    BY <1>15, <2>1, <2>2 DEF UploadFails, TypeOK
<1>16. CASE RecordHead(d)
  <2> QED
    BY <1>16, HeadType DEF RecordHead, TypeOK, stores
<1>17. CASE RecordOk(d)
  BY <1>17 DEF TypeOK, Goto, Return, End, FailWith, work, stores, RecordOk, PutRow, DoSucceed
<1>18. CASE RecordFails(d)
  <2>1. /\ pc' \in [Deliveries -> PCs]
        /\ why' \in [Deliveries -> EntryReasons \cup {""}]
        /\ attempt' \in [Deliveries -> 0..(MaxAttempts - 1)]
    <3>1. CASE DoTransient(d, "record", "record")
      BY <3>1, TransientType
    <3>2. CASE DoAbort(d, "failing", "record")
      BY <3>2 DEF DoAbort, FailWith, Goto, TypeOK
    <3> QED
      BY <1>18, <3>1, <3>2 DEF RecordFails
  <2>2. rows' \in [Entries -> {"none", "UPLOADED", "FAILED"}]
    BY <1>18 DEF RecordFails, PutRow, TypeOK
  <2> QED
    BY <1>18, <2>1, <2>2 DEF RecordFails, TypeOK
<1>19. CASE Classify(d)
  BY <1>19 DEF TypeOK, Goto, Return, End, FailWith, work, stores, Classify
<1>20. CASE FailEntry(d)
  BY <1>20 DEF TypeOK, Goto, Return, End, FailWith, work, stores, WhyOK, FailEntry, RecordFailedEntry, PutRow
<1>21. CASE AbortArchive(d)
  BY <1>21 DEF TypeOK, Goto, Return, End, FailWith, work, stores, WhyOK, AbortArchive, RecordFailedEntry, PutRow
<1>22. CASE WriteSlipsheet(d)
  <2>1. PICK p \in {"returned", "panicked"} : End(d, p)
    BY <1>22 DEF WriteSlipsheet
  <2>2. slip' \in Slipsheets \cup {NoSlip}
    <3>1. CASE UNCHANGED slip
      BY <3>1 DEF TypeOK
    <3>2. CASE slip' = [status |-> status[d], reason |-> reason[d],
                        children |-> entries[d]]
      <4>1. /\ status[d] \in Statuses
            /\ reason[d] \in ArchiveReasons
            /\ entries[d] \in Seq(EntryOutcomes)
        BY DEF TypeOK
      <4> QED
        BY <3>2, <4>1
    <3> QED
      BY <1>22, <3>1, <3>2 DEF WriteSlipsheet
  <2> QED
    BY <1>22, <2>1, <2>2, EndType DEF WriteSlipsheet, TypeOK
<1>23. CASE Deadline(d)
  BY <1>23 DEF TypeOK, Goto, Return, End, FailWith, work, stores, Deadline
<1>24. CASE Drain(d)
  BY <1>24 DEF TypeOK, Goto, Return, End, FailWith, work, stores, Drain
<1>25. CASE Panic(d)
  BY <1>25 DEF TypeOK, Goto, Return, End, FailWith, work, stores, Panic
<1>26. CASE Crash(d)
  <2>1. End(d, "crashed")
    BY <1>26 DEF Crash
  <2> QED
    BY <1>26, <2>1, EndType DEF Crash, TypeOK, stores
<1> QED
  BY <1>1, <1>2, <1>3, <1>4, <1>5, <1>6, <1>7, <1>8, <1>9, <1>10, <1>11, <1>12, <1>13, <1>14, <1>15, <1>16, <1>17, <1>18, <1>19, <1>20, <1>21, <1>22, <1>23, <1>24, <1>25, <1>26 DEF Step, Environment

(* Every step keeps the reason of a failing entry where AbortArchive and    *)
(* FailEntry expect it.                                                     *)
LEMMA WhyStep == TypeInv /\ [Next]_vars => WhyOK'
<1> SUFFICES ASSUME TypeInv, [Next]_vars PROVE WhyOK'
  OBVIOUS
<1> USE DEF TypeInv
<1>0. CASE UNCHANGED vars
  BY <1>0 DEF WhyOK, vars, work
<1> SUFFICES ASSUME NEW d \in Deliveries, Step(d) \/ Environment(d)
             PROVE  WhyOK'
  BY <1>0 DEF Next
<1>1. ASSUME UNCHANGED why, NEW p \in PCs \ {"failing", "rejecting"},
             Goto(d, p) \/ UNCHANGED pc
      PROVE  WhyOK'
  BY <1>1 DEF WhyOK, TypeOK, Goto
<1>2. ASSUME NEW p \in PCs \ {"failing", "rejecting"}, Goto(d, p),
             why' = [why EXCEPT ![d] = ""]
      PROVE  WhyOK'
  BY <1>2 DEF WhyOK, TypeOK, Goto
<1>3. ASSUME NEW r \in EntryReasons \ AbortReasons, FailWith(d, "failing", r)
      PROVE  WhyOK'
  BY <1>3 DEF WhyOK, TypeOK, FailWith, Goto
<1>4. ASSUME NEW r \in AbortReasons, FailWith(d, "rejecting", r)
      PROVE  WhyOK'
  BY <1>4 DEF WhyOK, TypeOK, FailWith, Goto
<1>5. \A p \in {"waiting", "download", "spill", "open", "loop", "upload",
               "uploading", "record", "recording", "classify", "slipsheet",
               "unwinding", "returned", "panicked", "crashed"} :
         p \in PCs \ {"failing", "rejecting"}
  BY Names
<1>6. ASSUME NEW r \in EntryReasons \ AbortReasons,
             NEW top \in {"upload", "record"}, DoTransient(d, top, r)
      PROVE  WhyOK'
  BY <1>6, <1>1, <1>3, <1>5 DEF DoTransient
<1>7. {"canceled", "deadline", "exhausted", "raw", "record"}
        \subseteq EntryReasons \ AbortReasons
  BY DEF EntryReasons, AbortReasons
<1>8. CASE Begin(d)
  BY <1>8, <1>1, <1>5 DEF Begin, work
<1>9. CASE DownloadOk(d)
  BY <1>9, <1>1, <1>5 DEF DownloadOk, work
<1>10. CASE DownloadFails(d)
  BY <1>10, <1>1, <1>5 DEF DownloadFails, Return, work
<1>11. CASE SpillOk(d)
  BY <1>11, <1>1, <1>5 DEF SpillOk, work
<1>12. CASE SpillFails(d)
  BY <1>12, <1>1, <1>5 DEF SpillFails, Return, work
<1>13. CASE OpenAndCheck(d)
  BY <1>13, <1>1, <1>5 DEF OpenAndCheck, Return, work
<1>14. CASE Interrupted(d)
  BY <1>14, <1>1, <1>5 DEF Interrupted, Return, work
<1>15. CASE SkipUnreadable(d)
  BY <1>15, <1>1, <1>5 DEF SkipUnreadable, work
<1>16. CASE StreamEntry(d)
  BY <1>16, <1>1, <1>5 DEF StreamEntry, work
<1>17. CASE Complete(d)
  BY <1>17, <1>1, <1>5 DEF Complete, Return, work
<1>18. CASE UploadOk(d)
  BY <1>18, <1>1, <1>5 DEF UploadOk, DoSucceed, work
<1>19. CASE RecordOk(d)
  BY <1>19, <1>1, <1>5 DEF RecordOk, DoSucceed, work
<1>20. CASE Classify(d)
  BY <1>20, <1>1, <1>5 DEF Classify, work
<1>21. CASE Deadline(d)
  BY <1>21, <1>1, <1>5 DEF Deadline, work
<1>22. CASE Drain(d)
  BY <1>22, <1>1, <1>5 DEF Drain, work
<1>23. CASE Panic(d)
  BY <1>23, <1>1, <1>5 DEF Panic, work
<1>24. CASE RejectEntry(d)
  <2>1. PICK r \in AbortReasons : FailWith(d, "rejecting", r)
    BY <1>24 DEF RejectEntry, AbortReasons
  <2> QED
    BY <2>1, <1>4
<1>25. CASE UploadHead(d)
  <2>1. ctx[d] # "live" => ctx[d] \in {"deadline", "canceled"}
    BY DEF TypeOK
  <2> QED
    BY <1>25, <2>1, <1>1, <1>3, <1>5, <1>7 DEF UploadHead, DoHead
<1>26. CASE UploadUnreadable(d)
  <2>1. \/ FailWith(d, "rejecting", "bomb")
        \/ FailWith(d, "failing", "raw")
    BY <1>26 DEF UploadUnreadable, DoAbort
  <2>2. "bomb" \in AbortReasons
    BY DEF AbortReasons
  <2> QED
    BY <2>1, <2>2, <1>3, <1>4, <1>7
<1>27. CASE UploadFails(d)
  BY <1>27, <1>3, <1>6, <1>7 DEF UploadFails, DoAbort
<1>28. CASE RecordHead(d)
  BY <1>28, <1>1, <1>3, <1>5, <1>7 DEF RecordHead, DoHead
<1>29. CASE RecordFails(d)
  BY <1>29, <1>3, <1>6, <1>7 DEF RecordFails, DoAbort
<1>30. CASE FailEntry(d)
  BY <1>30, <1>2, <1>5 DEF FailEntry, RecordFailedEntry
<1>31. CASE AbortArchive(d)
  BY <1>31, <1>2, <1>5 DEF AbortArchive, RecordFailedEntry, Return
<1>32. CASE WriteSlipsheet(d)
  BY <1>32, <1>2, <1>5 DEF WriteSlipsheet, End
<1>33. CASE Crash(d)
  BY <1>33, <1>2, <1>5 DEF Crash, End
<1> QED
  BY <1>8, <1>9, <1>10, <1>11, <1>12, <1>13, <1>14, <1>15, <1>16, <1>17, <1>18, <1>19, <1>20, <1>21, <1>22, <1>23, <1>24, <1>25, <1>26, <1>27, <1>28, <1>29, <1>30, <1>31, <1>32, <1>33 DEF Step, Environment

(* Every variable of every delivery, and the three stores, keep their       *)
(* types, for any number of deliveries, entries and attempts; in            *)
(* particular the attempts of Retrier.Do stay below MaxAttempts.            *)
THEOREM TypeCorrect == Spec => []TypeOK
<1>1. TypeInv /\ [Next]_vars => TypeInv'
  BY TypeStep, WhyStep DEF TypeInv
<1>2. TypeInv => TypeOK
  BY DEF TypeInv
<1> QED
  BY <1>1, <1>2, TypeInit, PTL DEF Spec

(* The strengthened invariant, as the later proofs use it. *)
LEMMA TypeInvariant == Spec => []TypeInv
<1>1. TypeInv /\ [Next]_vars => TypeInv'
  BY TypeStep, WhyStep DEF TypeInv
<1> QED
  BY <1>1, TypeInit, PTL DEF Spec

-----------------------------------------------------------------------------
(* The stores                                                               *)

Accepted(n) == /\ archive.header = "ok"
               /\ \A j \in 1..n : archive.kind[j] \notin Rejected

(* Where a delivery is tells what is known of the entries behind it and of  *)
(* the entry in hand.                                                       *)
Position(d) ==
  /\ Len(entries[d]) <= NumEntries
  /\ pc[d] \in {"waiting"} \cup Preparing => entries[d] = << >>
  /\ pc[d] \in PerEntry => Current(d) \in Entries
  /\ pc[d] \in {"loop"} \cup PerEntry => Accepted(Len(entries[d]))
  /\ pc[d] \in {"upload", "uploading"} => Kind(d) \in Streamed
  /\ pc[d] \in {"record", "recording", "classify"} =>
       /\ Kind(d) \in Streamed
       /\ objects[Current(d)] # "none"
  /\ pc[d] = "classify" => rows[Current(d)] # "none"
  /\ pc[d] = "failing" => Kind(d) \notin Rejected

(* The outcomes a delivery has appended are backed by the stores. *)
Backed(es) == \A j \in 1..Len(es) :
                IsUploaded(es[j]) => objects[j] # "none" /\ rows[j] # "none"

(* A status describes a list of outcomes. *)
Describes(s, es) ==
  LET all == Len(es) = NumEntries /\ AllUploaded(es)
  IN /\ s = "SUCCESS" => all /\ archive.header = "ok"
     /\ s = "PARTIAL_FAILED" => SomeUploaded(es) /\ ~all
     /\ \A j \in 1..Len(es) : es[j].reason \in AbortReasons =>
          j = Len(es) /\ s = "FAILED"

NoAbort(es) == \A j \in 1..Len(es) : es[j].reason \notin AbortReasons

Told(d) ==
  /\ Describes(status[d], entries[d])
  /\ pc[d] \notin Deferred => status[d] = "FAILED" /\ NoAbort(entries[d])

PositionOK == \A d \in Deliveries : Position(d)
BackedOK   == \A d \in Deliveries : Backed(entries[d])
ToldOK     == \A d \in Deliveries : Told(d)

StoreInv == /\ PositionOK
            /\ BackedOK
            /\ Len(slip.children) <= NumEntries
            /\ OnlyStorableStored
            /\ UploadedRowHasObject
            /\ SlipsheetIsBacked
ReportInv == ToldOK /\ StatusDescribesChildren

-----------------------------------------------------------------------------
(* What a step of one delivery leaves alone: the archive, the locals of the *)
(* other deliveries, and whatever the stores already hold.                  *)

Mine(d) ==
  \A e \in Deliveries \ {d} : /\ pc'[e] = pc[e]
                              /\ entries'[e] = entries[e]
                              /\ status'[e] = status[e]

Kept == \A i \in Entries : /\ objects[i] # "none" => objects'[i] # "none"
                           /\ rows[i] # "none" => rows'[i] = rows[i]

(* Moving one delivery moves no other. *)
LEMMA GotoMine ==
  ASSUME TypeOK, NEW d \in Deliveries, NEW p, Goto(d, p)
  PROVE  \A e \in Deliveries \ {d} : pc'[e] = pc[e]
BY DEF Goto, TypeOK

(* Nor does anything inside Retrier.Do. *)
LEMMA DoMine ==
  ASSUME TypeOK, NEW d \in Deliveries, NEW top, NEW call, NEW r,
         \/ DoHead(d, top, call, r)
         \/ DoTransient(d, top, r)
         \/ DoAbort(d, call, r)
         \/ DoSucceed(d, call)
         \/ FailWith(d, top, r)
  PROVE  \A e \in Deliveries \ {d} : pc'[e] = pc[e]
BY GotoMine DEF DoHead, DoTransient, DoAbort, DoSucceed, FailWith

(* Nor does the end of a delivery. *)
LEMMA EndMine ==
  ASSUME TypeOK, NEW d \in Deliveries, NEW p, End(d, p)
  PROVE  Mine(d)
BY GotoMine DEF End, Mine, TypeOK

(* A put of a row keeps the rows that are there. *)
LEMMA PutKept ==
  ASSUME TypeOK, NEW i \in Entries, NEW s, PutRow(i, s)
  PROVE  \A k \in Entries : rows[k] # "none" => rows'[k] = rows[k]
BY DEF PutRow, TypeOK

(* An upload keeps the objects that are there. *)
LEMMA StoreKept ==
  ASSUME TypeOK, NEW d \in Deliveries, StoreChild(d)
  PROVE  \A k \in Entries : objects[k] # "none" => objects'[k] # "none"
BY DEF StoreChild, TypeOK

(* What every step leaves alone. *)
LEMMA FrameStep ==
  ASSUME TypeOK, PositionOK, NEW d \in Deliveries, Step(d) \/ Environment(d)
  PROVE  archive' = archive /\ Mine(d) /\ Kept
<1> USE GotoMine, DoMine
<1>0. UNCHANGED stores => Kept
  BY DEF stores, Kept
<1>1. pc[d] \in PerEntry => Current(d) \in Entries
  BY DEF PositionOK, Position
<1>2. CASE Begin(d)
  BY <1>2, <1>0 DEF Begin, Mine, TypeOK, work, stores
<1>3. CASE DownloadOk(d)
  BY <1>3, <1>0 DEF DownloadOk, Mine, TypeOK, work, stores
<1>4. CASE DownloadFails(d)
  BY <1>4, <1>0 DEF DownloadFails, Mine, TypeOK, work, stores, Return
<1>5. CASE SpillOk(d)
  BY <1>5, <1>0 DEF SpillOk, Mine, TypeOK, work, stores
<1>6. CASE SpillFails(d)
  BY <1>6, <1>0 DEF SpillFails, Mine, TypeOK, work, stores, Return
<1>7. CASE OpenAndCheck(d)
  BY <1>7, <1>0 DEF OpenAndCheck, Mine, TypeOK, work, stores, Return
<1>8. CASE Interrupted(d)
  BY <1>8, <1>0 DEF Interrupted, Mine, TypeOK, work, stores, Return
<1>9. CASE RejectEntry(d)
  BY <1>9, <1>0 DEF RejectEntry, Mine, TypeOK, work, stores
<1>10. CASE SkipUnreadable(d)
  BY <1>10, <1>0 DEF SkipUnreadable, Mine, TypeOK, work, stores
<1>11. CASE StreamEntry(d)
  BY <1>11, <1>0 DEF StreamEntry, Mine, TypeOK, work, stores
<1>12. CASE Complete(d)
  BY <1>12, <1>0 DEF Complete, Mine, TypeOK, work, stores, Return
<1>13. CASE UploadHead(d)
  BY <1>13, <1>0 DEF UploadHead, Mine, TypeOK, work, stores
<1>14. CASE UploadOk(d)
  <2>1. archive' = archive /\ Mine(d) /\ UNCHANGED rows
    BY <1>14 DEF UploadOk, Mine, stores
  <2>2. UNCHANGED objects \/ StoreChild(d)
    BY <1>14 DEF UploadOk
  <2> QED
    BY <2>1, <2>2, StoreKept DEF Kept
<1>15. CASE UploadUnreadable(d)
  BY <1>15, <1>0 DEF UploadUnreadable, Mine, TypeOK, work, stores
<1>16. CASE UploadFails(d)
  <2>1. archive' = archive /\ Mine(d) /\ UNCHANGED rows
    BY <1>16 DEF UploadFails, Mine, stores
  <2>2. UNCHANGED objects \/ StoreChild(d)
    BY <1>16 DEF UploadFails
  <2> QED
    BY <2>1, <2>2, StoreKept DEF Kept
<1>17. CASE RecordHead(d)
  BY <1>17, <1>0 DEF RecordHead, Mine, TypeOK, work, stores
<1>18. CASE RecordOk(d)
  <2>1. archive' = archive /\ Mine(d) /\ UNCHANGED objects
    BY <1>18 DEF RecordOk, Mine
  <2>2. UNCHANGED rows \/ \E s \in {"UPLOADED", "FAILED"} : PutRow(Current(d), s)
    BY <1>18 DEF RecordOk, RecordFailedEntry
  <2>3. Current(d) \in Entries
    BY <1>18, <1>1 DEF RecordOk, PerEntry
  <2> QED
    BY <2>1, <2>2, <2>3, PutKept DEF Kept
<1>19. CASE RecordFails(d)
  <2>1. archive' = archive /\ Mine(d) /\ UNCHANGED objects
    BY <1>19 DEF RecordFails, Mine
  <2>2. UNCHANGED rows \/ \E s \in {"UPLOADED", "FAILED"} : PutRow(Current(d), s)
    BY <1>19 DEF RecordFails, RecordFailedEntry
  <2>3. Current(d) \in Entries
    BY <1>19, <1>1 DEF RecordFails, PerEntry
  <2> QED
    BY <2>1, <2>2, <2>3, PutKept DEF Kept
<1>20. CASE Classify(d)
  BY <1>20, <1>0 DEF Classify, Mine, TypeOK, work, stores
<1>21. CASE FailEntry(d)
  <2>1. archive' = archive /\ Mine(d) /\ UNCHANGED objects
    BY <1>21 DEF FailEntry, Mine, RecordFailedEntry, TypeOK
  <2>2. UNCHANGED rows \/ \E s \in {"UPLOADED", "FAILED"} : PutRow(Current(d), s)
    BY <1>21 DEF FailEntry, RecordFailedEntry
  <2>3. Current(d) \in Entries
    BY <1>21, <1>1 DEF FailEntry, PerEntry
  <2> QED
    BY <2>1, <2>2, <2>3, PutKept DEF Kept
<1>22. CASE AbortArchive(d)
  <2>1. archive' = archive /\ Mine(d) /\ UNCHANGED objects
    BY <1>22 DEF AbortArchive, Mine, Return, RecordFailedEntry, TypeOK
  <2>2. UNCHANGED rows \/ \E s \in {"UPLOADED", "FAILED"} : PutRow(Current(d), s)
    BY <1>22 DEF AbortArchive, RecordFailedEntry
  <2>3. Current(d) \in Entries
    BY <1>22, <1>1 DEF AbortArchive, PerEntry
  <2> QED
    BY <2>1, <2>2, <2>3, PutKept DEF Kept
<1>23. CASE WriteSlipsheet(d)
  BY <1>23, EndMine DEF WriteSlipsheet, Kept, stores
<1>24. CASE Deadline(d)
  BY <1>24, <1>0 DEF Deadline, Mine, TypeOK, work, stores
<1>25. CASE Drain(d)
  BY <1>25, <1>0 DEF Drain, Mine, TypeOK, work, stores
<1>26. CASE Panic(d)
  BY <1>26, <1>0 DEF Panic, Mine, TypeOK, work, stores
<1>27. CASE Crash(d)
  BY <1>27, EndMine DEF Crash, Kept, stores
<1> QED
  BY <1>2, <1>3, <1>4, <1>5, <1>6, <1>7, <1>8, <1>9, <1>10, <1>11, <1>12, <1>13, <1>14, <1>15, <1>16, <1>17, <1>18, <1>19, <1>20, <1>21, <1>22, <1>23, <1>24, <1>25, <1>26, <1>27 DEF Step, Environment

(* What appending an outcome does to the list. *)
LEMMA AppendFacts ==
  \A es \in Seq(EntryOutcomes), o \in EntryOutcomes :
    /\ Len(es) \in Nat
    /\ Len(Append(es, o)) = Len(es) + 1
    /\ \A j \in 1..Len(es) : Append(es, o)[j] = es[j]
    /\ Append(es, o)[Len(es) + 1] = o
  OBVIOUS

(* Rejected, Streamed and Unreadable do not overlap. *)
LEMMA KindFacts ==
  \A k \in Streamed \cup Unreadable : k \notin Rejected
BY DEF Streamed, Unreadable, Rejected

-----------------------------------------------------------------------------
(* Position is inductive.                                                   *)

(* A step of one delivery does not disturb what is known of another. *)
LEMMA PositionOthers ==
  ASSUME TypeOK, PositionOK, NEW d \in Deliveries,
         archive' = archive, Mine(d), Kept, NEW e \in Deliveries \ {d}
  PROVE  Position(e)'
<1>1. Position(e) /\ pc'[e] = pc[e] /\ entries'[e] = entries[e]
  BY DEF PositionOK, Mine
<1>2. pc[e] \in {"record", "recording", "classify"} => Current(e) \in Entries
  BY <1>1 DEF Position, PerEntry
<1>3. Current(e)' = Current(e) /\ Kind(e)' = Kind(e)
  BY <1>1 DEF Current, Kind
<1>4. Accepted(Len(entries[e]))' <=> Accepted(Len(entries[e]))
  BY <1>1 DEF Accepted
<1>5. /\ pc[e] \in {"record", "recording", "classify"} =>
           objects'[Current(e)] # "none"
      /\ pc[e] = "classify" => rows'[Current(e)] # "none"
  BY <1>1, <1>2 DEF Position, Kept
<1> QED
  BY <1>1, <1>3, <1>4, <1>5 DEF Position

(* Three ways to leave an entry: none of them, with an outcome and back to  *)
(* the loop, or out of Process.                                             *)
LEMMA PositionStay ==
  ASSUME TypeOK, NEW d \in Deliveries, Position(d), archive' = archive, Kept,
         entries'[d] = entries[d],
         pc[d] \in PerEntry,
         \/ pc'[d] = pc[d]
         \/ pc'[d] \in {"upload", "uploading"} /\ pc[d] \in {"upload", "uploading"}
         \/ pc'[d] \in {"record", "recording"} /\ pc[d] \in {"record", "recording"}
         \/ pc'[d] = "failing" /\ Kind(d) \in Streamed
         \/ pc'[d] = "rejecting"
         \/ pc'[d] = "record" /\ Kind(d) \in Streamed
            /\ objects'[Current(d)] # "none"
         \/ pc'[d] = "classify" /\ pc[d] = "recording"
            /\ rows'[Current(d)] # "none"
  PROVE  Position(d)'
<1>1. Current(d)' = Current(d) /\ Kind(d)' = Kind(d)
  BY DEF Current, Kind
<1>2. Accepted(Len(entries[d]))'
  BY DEF Accepted, Position
<1>3. Current(d) \in Entries
  BY DEF Position
<1>4. pc[d] \in {"record", "recording", "classify"} =>
        /\ Kind(d) \in Streamed
        /\ objects'[Current(d)] # "none"
  BY <1>3 DEF Position, Kept
<1>5. pc[d] = "classify" => rows'[Current(d)] # "none"
  BY <1>3 DEF Position, Kept
<1>6. /\ Len(entries[d]) <= NumEntries
      /\ pc[d] \in {"upload", "uploading"} => Kind(d) \in Streamed
      /\ pc[d] = "failing" => Kind(d) \notin Rejected
  BY DEF Position
<1> QED
  BY <1>1, <1>2, <1>3, <1>4, <1>5, <1>6, KindFacts DEF Position, PerEntry, Preparing

(* Appending the outcome of the entry in hand moves on to the next entry. *)
LEMMA PositionAppend ==
  ASSUME TypeOK, NEW d \in Deliveries, Position(d), archive' = archive,
         NEW o \in EntryOutcomes, entries'[d] = Append(entries[d], o),
         Current(d) \in Entries,
         \/ pc'[d] \in Deferred
         \/ pc'[d] = "loop" /\ pc[d] \in {"loop"} \cup PerEntry
            /\ Kind(d) \notin Rejected
  PROVE  Position(d)'
<1>1. entries[d] \in Seq(EntryOutcomes)
  BY DEF TypeOK
<1>2. Len(entries'[d]) = Len(entries[d]) + 1 /\ Len(entries[d]) \in Nat
  BY <1>1, AppendFacts
<1>3. Len(entries'[d]) <= NumEntries
  BY <1>2, ExtractionAssumption DEF Current, Entries
<1>4. CASE pc'[d] \in Deferred
  BY <1>3, <1>4 DEF Position, Deferred, PerEntry, Preparing
<1>5. CASE pc'[d] = "loop" /\ pc[d] \in {"loop"} \cup PerEntry
           /\ Kind(d) \notin Rejected
  <2>1. Accepted(Len(entries[d]))
    BY <1>5 DEF Position
  <2>2. \A j \in 1..Len(entries'[d]) : j \in 1..Len(entries[d]) \/ j = Current(d)
    BY <1>2 DEF Current
  <2>3. Accepted(Len(entries[d]))'
    BY <1>5, <2>1, <2>2 DEF Accepted, Kind
  <2> QED
    BY <1>3, <1>5, <2>3 DEF Position, PerEntry, Preparing
<1> QED
  BY <1>4, <1>5

(* Leaving the loop loses nothing that has to hold afterwards. *)
LEMMA PositionOut ==
  ASSUME TypeOK, NEW d \in Deliveries, Position(d),
         entries'[d] = entries[d], pc'[d] \in Deferred
  PROVE  Position(d)'
BY DEF Position, Deferred, PerEntry, Preparing

(* A delivery that has ended holds no outcomes. *)
LEMMA PositionEnd ==
  ASSUME TypeOK, NEW d \in Deliveries, NEW p \in Ended, End(d, p)
  PROVE  Position(d)' /\ entries'[d] = << >>
<1>1. pc'[d] = p /\ entries'[d] = << >>
  BY DEF End, Goto, TypeOK
<1>2. Len(entries'[d]) <= NumEntries
  BY <1>1, ExtractionAssumption
<1> QED
  BY <1>1, <1>2 DEF Position, Ended, PerEntry, Preparing

(* A step of a delivery keeps what is known of its own entries. *)
LEMMA PositionStep ==
  ASSUME TypeInv, PositionOK, NEW d \in Deliveries, Step(d) \/ Environment(d)
  PROVE  Position(d)'
<1>1. TypeOK /\ Position(d) /\ archive' = archive /\ Kept
  BY FrameStep DEF TypeInv, PositionOK
<1>2. pc[d] \in PerEntry => Current(d) \in Entries
  BY <1>1 DEF Position
<1>3. Kind(d) \in Streamed \cup Unreadable => Kind(d) \notin Rejected
  BY KindFacts
<1>4. \A p : Goto(d, p) => pc'[d] = p
  BY <1>1 DEF Goto, TypeOK
<1>5. \A p \in {"download", "spill", "open"} :
        pc[d] \in {"waiting"} \cup Preparing /\ Goto(d, p) /\ UNCHANGED entries
          => Position(d)'
  BY <1>1, <1>4 DEF Position, PerEntry, Preparing
<1>6. \A p \in Deferred : Goto(d, p) /\ UNCHANGED entries => Position(d)'
  BY <1>1, <1>4, PositionOut
<1>7. \A s, r : Return(d, s, r) => Goto(d, "slipsheet") /\ "slipsheet" \in Deferred
  BY DEF Return, Deferred
<1>8. UNCHANGED <<pc, entries>> => Position(d)'
  <2> SUFFICES ASSUME UNCHANGED <<pc, entries>> PROVE Position(d)'
    OBVIOUS
  <2>1. CASE pc[d] \in PerEntry
    BY <1>1, <2>1, PositionStay
  <2>2. CASE pc[d] \notin PerEntry
    BY <1>1, <2>2 DEF Position, Accepted, Current, PerEntry
  <2> QED
    BY <2>1, <2>2
<1>9. CASE Begin(d)
  BY <1>9, <1>5 DEF Begin, Preparing, work
<1>10. CASE DownloadOk(d)
  BY <1>10, <1>5 DEF DownloadOk, Preparing, work
<1>11. CASE SpillOk(d)
  BY <1>11, <1>5 DEF SpillOk, Preparing, work
<1>12. CASE DownloadFails(d)
  BY <1>12, <1>6, <1>7 DEF DownloadFails
<1>13. CASE SpillFails(d)
  BY <1>13, <1>6, <1>7 DEF SpillFails
<1>14. CASE Interrupted(d)
  BY <1>14, <1>6, <1>7 DEF Interrupted
<1>15. CASE Complete(d)
  BY <1>15, <1>6, <1>7 DEF Complete
<1>16. CASE OpenAndCheck(d)
  <2>1. CASE archive.header = "ok" /\ Goto(d, "loop")
    <3>1. pc'[d] = "loop" /\ entries'[d] = << >>
      BY <1>16, <1>1, <1>4, <2>1 DEF OpenAndCheck, Position, Preparing
    <3>2. Accepted(Len(entries[d]))'
      <4>1. Len(entries'[d]) = 0
        BY <3>1
      <4> QED
        BY <1>1, <2>1, <4>1 DEF Accepted
    <3> QED
      BY <3>1, <3>2, ExtractionAssumption DEF Position, PerEntry, Preparing
  <2>2. CASE Return(d, "FAILED", archive.header)
    BY <1>16, <2>2, <1>6, <1>7 DEF OpenAndCheck
  <2> QED
    BY <1>16, <2>1, <2>2 DEF OpenAndCheck
<1>17. CASE RejectEntry(d)
  <2>1. pc'[d] = "rejecting" /\ entries'[d] = entries[d]
    BY <1>17, <1>4 DEF RejectEntry, FailWith
  <2>2. Current(d) \in Entries /\ pc[d] = "loop"
    BY <1>17 DEF RejectEntry, NextEntry
  <2> QED
    BY <1>1, <2>1, <2>2 DEF Position, Accepted, Current, PerEntry, Preparing
<1>18. CASE SkipUnreadable(d)
  <2>1. PICK o \in EntryOutcomes : entries' = [entries EXCEPT ![d] = Append(entries[d], o)]
    BY <1>18, OutcomeTypes, Names DEF SkipUnreadable
  <2>2. pc'[d] = "loop" /\ pc[d] = "loop" /\ Current(d) \in Entries
    BY <1>18 DEF SkipUnreadable, NextEntry
  <2> QED
    BY <1>18, <1>1, <1>3, <2>1, <2>2, PositionAppend DEF SkipUnreadable, TypeOK
<1>19. CASE StreamEntry(d)
  <2>1. pc'[d] = "upload" /\ entries'[d] = entries[d] /\ Kind(d) \in Streamed
    BY <1>19, <1>4 DEF StreamEntry
  <2>2. Current(d) \in Entries /\ pc[d] = "loop"
    BY <1>19 DEF StreamEntry, NextEntry
  <2> QED
    BY <1>1, <2>1, <2>2 DEF Position, Accepted, Current, Kind, PerEntry, Preparing
<1>20. CASE UploadHead(d)
  <2>1. pc'[d] \in {"uploading", "failing"} /\ pc[d] = "upload"
    BY <1>20, <1>4 DEF UploadHead, DoHead, FailWith
  <2>2. Kind(d) \in Streamed
    BY <1>1, <2>1 DEF Position
  <2> QED
    BY <1>20, <1>1, <2>1, <2>2, PositionStay DEF UploadHead, PerEntry
<1>21. CASE UploadOk(d)
  <2>1. pc'[d] = "record" /\ pc[d] = "uploading"
    BY <1>21, <1>4 DEF UploadOk, DoSucceed
  <2>2. Kind(d) \in Streamed
    BY <1>1, <2>1 DEF Position
  <2>3. objects'[Current(d)] # "none"
    BY <1>21, <1>1, <1>2, <2>1 DEF UploadOk, StoreChild, TypeOK, PerEntry
  <2> QED
    BY <1>21, <1>1, <2>1, <2>2, <2>3, PositionStay DEF UploadOk, PerEntry
<1>22. CASE UploadUnreadable(d)
  <2>1. pc'[d] \in {"rejecting", "failing"} /\ pc[d] = "uploading"
    BY <1>22, <1>4 DEF UploadUnreadable, DoAbort, FailWith
  <2>2. Kind(d) \in Streamed
    BY <1>1, <2>1 DEF Position
  <2> QED
    BY <1>22, <1>1, <2>1, <2>2, PositionStay DEF UploadUnreadable, PerEntry
<1>23. CASE UploadFails(d)
  <2>1. pc'[d] \in {"upload", "failing"} /\ pc[d] = "uploading"
    BY <1>23, <1>4 DEF UploadFails, DoTransient, DoAbort, FailWith
  <2>2. Kind(d) \in Streamed
    BY <1>1, <2>1 DEF Position
  <2> QED
    BY <1>23, <1>1, <2>1, <2>2, PositionStay DEF UploadFails, PerEntry
<1>24. CASE RecordHead(d)
  <2>1. pc'[d] \in {"recording", "failing"} /\ pc[d] = "record"
    BY <1>24, <1>4 DEF RecordHead, DoHead, FailWith
  <2>2. Kind(d) \in Streamed
    BY <1>1, <2>1 DEF Position
  <2> QED
    BY <1>24, <1>1, <2>1, <2>2, PositionStay DEF RecordHead, PerEntry
<1>25. CASE RecordOk(d)
  <2>1. pc'[d] = "classify" /\ pc[d] = "recording"
    BY <1>25, <1>4 DEF RecordOk, DoSucceed
  <2>2. rows'[Current(d)] # "none"
    BY <1>25, <1>1, <1>2, <2>1 DEF RecordOk, PutRow, TypeOK, PerEntry
  <2> QED
    BY <1>25, <1>1, <2>1, <2>2, PositionStay DEF RecordOk, PerEntry
<1>26. CASE RecordFails(d)
  <2>1. pc'[d] \in {"record", "failing"} /\ pc[d] = "recording"
    BY <1>26, <1>4 DEF RecordFails, DoTransient, DoAbort, FailWith
  <2>2. Kind(d) \in Streamed
    BY <1>1, <2>1 DEF Position
  <2> QED
    BY <1>26, <1>1, <2>1, <2>2, PositionStay DEF RecordFails, PerEntry
<1>27. CASE Classify(d)
  <2>1. pc'[d] = "loop" /\ pc[d] = "classify"
    BY <1>27, <1>4 DEF Classify
  <2>2. entries'[d] = Append(entries[d], Uploaded)
    BY <1>27, <1>1 DEF Classify, TypeOK
  <2>3. Kind(d) \notin Rejected
    BY <1>1, <1>3, <2>1 DEF Position
  <2> QED
    BY <1>1, <1>2, <2>1, <2>2, <2>3, OutcomeTypes, PositionAppend DEF PerEntry
<1>28. CASE FailEntry(d)
  <2>1. pc'[d] = "loop" /\ pc[d] = "failing"
    BY <1>28, <1>4 DEF FailEntry
  <2>2. why[d] \in EntryReasons
    BY <2>1 DEF TypeInv, WhyOK
  <2>3. entries'[d] = Append(entries[d], Failed(why[d]))
    BY <1>28, <1>1 DEF FailEntry, RecordFailedEntry, TypeOK
  <2>4. Kind(d) \notin Rejected
    BY <1>1, <2>1 DEF Position
  <2> QED
    BY <1>1, <1>2, <2>1, <2>2, <2>3, <2>4, OutcomeTypes, PositionAppend DEF PerEntry
<1>29. CASE AbortArchive(d)
  <2>1. pc'[d] = "slipsheet" /\ pc[d] = "rejecting"
    BY <1>29, <1>4 DEF AbortArchive, Return
  <2>2. why[d] \in EntryReasons
    BY <2>1, Names DEF TypeInv, WhyOK
  <2>3. entries'[d] = Append(entries[d], Failed(why[d]))
    BY <1>29, <1>1 DEF AbortArchive, RecordFailedEntry, TypeOK
  <2> QED
    BY <1>1, <1>2, <2>1, <2>2, <2>3, OutcomeTypes, PositionAppend DEF PerEntry, Deferred
<1>30. CASE WriteSlipsheet(d)
  BY <1>30, <1>1, PositionEnd DEF WriteSlipsheet, Ended
<1>31. CASE Crash(d)
  BY <1>31, <1>1, PositionEnd DEF Crash, Ended
<1>32. CASE Deadline(d)
  BY <1>32, <1>8 DEF Deadline, work
<1>33. CASE Drain(d)
  BY <1>33, <1>8 DEF Drain, work
<1>34. CASE Panic(d)
  BY <1>34, <1>6 DEF Panic, work, Deferred
<1> QED
  BY <1>9, <1>10, <1>11, <1>12, <1>13, <1>14, <1>15, <1>16, <1>17, <1>18, <1>19, <1>20, <1>21, <1>22, <1>23, <1>24, <1>25, <1>26, <1>27, <1>28, <1>29, <1>30, <1>31, <1>32, <1>33, <1>34 DEF Step, Environment

(* Position is kept for all deliveries. *)
LEMMA PositionInductive ==
  ASSUME TypeInv, PositionOK, [Next]_vars
  PROVE  PositionOK'
<1>1. CASE UNCHANGED vars
  BY <1>1 DEF PositionOK, Position, Accepted, Current, Kind, vars, work, stores
<1>2. ASSUME NEW d \in Deliveries, Step(d) \/ Environment(d)
      PROVE  PositionOK'
  <2>1. Position(d)'
    BY <1>2, PositionStep
  <2>2. ASSUME NEW e \in Deliveries \ {d} PROVE Position(e)'
    BY <1>2, FrameStep, PositionOthers DEF TypeInv
  <2> QED
    BY <2>1, <2>2 DEF PositionOK
<1> QED
  BY <1>1, <1>2 DEF Next

-----------------------------------------------------------------------------
(* What a step does to the list of outcomes and to each of the stores.      *)

ListStep(d) ==
  \/ entries'[d] = entries[d]
  \/ entries'[d] = << >>
  \/ \E r \in EntryReasons : entries'[d] = Append(entries[d], Failed(r))
  \/ pc[d] = "classify" /\ entries'[d] = Append(entries[d], Uploaded)

ObjectsStep(d) ==
  \/ UNCHANGED objects
  \/ pc[d] = "uploading" /\ Kind(d) = "clean" /\ StoreChild(d)

RowsStep(d) ==
  \/ UNCHANGED rows
  \/ pc[d] = "recording" /\ PutRow(Current(d), "UPLOADED")
  \/ pc[d] \in {"failing", "rejecting"} /\ PutRow(Current(d), "FAILED")

SlipStep(d) ==
  \/ UNCHANGED slip
  \/ /\ pc[d] \in Deferred
     /\ slip' = [status |-> status[d], reason |-> reason[d],
                 children |-> entries[d]]

(* What one step may do to the outcomes, the objects, the rows and the      *)
(* slipsheet.                                                               *)
LEMMA StoresStep ==
  ASSUME TypeInv, PositionOK, NEW d \in Deliveries, Step(d) \/ Environment(d)
  PROVE  ListStep(d) /\ ObjectsStep(d) /\ RowsStep(d) /\ SlipStep(d)
<1>1. TypeOK
  BY DEF TypeInv
<1>2. UNCHANGED stores => ObjectsStep(d) /\ RowsStep(d) /\ SlipStep(d)
  BY DEF stores, ObjectsStep, RowsStep, SlipStep
<1>3. UNCHANGED entries => ListStep(d)
  BY DEF ListStep
<1>4. \A p : End(d, p) => ListStep(d)
  BY <1>1 DEF End, ListStep, TypeOK
<1>5. RecordFailedEntry(d) /\ pc[d] \in {"failing", "rejecting"} =>
        ListStep(d) /\ RowsStep(d)
  <2> SUFFICES ASSUME RecordFailedEntry(d), pc[d] \in {"failing", "rejecting"}
               PROVE  ListStep(d) /\ RowsStep(d)
    OBVIOUS
  <2>1. why[d] \in EntryReasons
    BY Names DEF TypeInv, WhyOK
  <2>2. entries'[d] = Append(entries[d], Failed(why[d]))
    BY <1>1 DEF RecordFailedEntry, TypeOK
  <2> QED
    BY <2>1, <2>2 DEF RecordFailedEntry, ListStep, RowsStep
<1>6. CASE Begin(d)
  BY <1>6, <1>2, <1>3 DEF Begin, work
<1>7. CASE DownloadOk(d)
  BY <1>7, <1>2, <1>3 DEF DownloadOk, work
<1>8. CASE DownloadFails(d)
  BY <1>8, <1>2, <1>3 DEF DownloadFails, work
<1>9. CASE SpillOk(d)
  BY <1>9, <1>2, <1>3 DEF SpillOk, work
<1>10. CASE SpillFails(d)
  BY <1>10, <1>2, <1>3 DEF SpillFails, work
<1>11. CASE OpenAndCheck(d)
  BY <1>11, <1>2, <1>3 DEF OpenAndCheck, work
<1>12. CASE Interrupted(d)
  BY <1>12, <1>2, <1>3 DEF Interrupted, work
<1>13. CASE RejectEntry(d)
  BY <1>13, <1>2, <1>3 DEF RejectEntry, work
<1>14. CASE StreamEntry(d)
  BY <1>14, <1>2, <1>3 DEF StreamEntry, work
<1>15. CASE Complete(d)
  BY <1>15, <1>2, <1>3 DEF Complete, work
<1>16. CASE UploadHead(d)
  BY <1>16, <1>2, <1>3 DEF UploadHead, work
<1>17. CASE UploadUnreadable(d)
  BY <1>17, <1>2, <1>3 DEF UploadUnreadable, work
<1>18. CASE RecordHead(d)
  BY <1>18, <1>2, <1>3 DEF RecordHead, work
<1>19. CASE Deadline(d)
  BY <1>19, <1>2, <1>3 DEF Deadline, work
<1>20. CASE Drain(d)
  BY <1>20, <1>2, <1>3 DEF Drain, work
<1>21. CASE Panic(d)
  BY <1>21, <1>2, <1>3 DEF Panic, work
<1>22. CASE SkipUnreadable(d)
  <2>1. PICK r \in EntryReasons :
          entries' = [entries EXCEPT ![d] = Append(entries[d], Failed(r))]
    BY <1>22, Names DEF SkipUnreadable
  <2> QED
    BY <1>22, <1>1, <1>2, <2>1 DEF SkipUnreadable, ListStep, TypeOK
<1>23. CASE UploadOk(d)
  BY <1>23, <1>3 DEF UploadOk, ObjectsStep, RowsStep, SlipStep
<1>24. CASE UploadFails(d)
  BY <1>24, <1>3 DEF UploadFails, ObjectsStep, RowsStep, SlipStep
<1>25. CASE RecordOk(d)
  BY <1>25, <1>3 DEF RecordOk, ObjectsStep, RowsStep, SlipStep
<1>26. CASE RecordFails(d)
  BY <1>26, <1>3 DEF RecordFails, ObjectsStep, RowsStep, SlipStep
<1>27. CASE Classify(d)
  BY <1>27, <1>1, <1>2 DEF Classify, ListStep, TypeOK
<1>28. CASE FailEntry(d)
  BY <1>28, <1>5 DEF FailEntry, ObjectsStep, SlipStep
<1>29. CASE AbortArchive(d)
  BY <1>29, <1>5 DEF AbortArchive, ObjectsStep, SlipStep
<1>30. CASE WriteSlipsheet(d)
  BY <1>30, <1>4 DEF WriteSlipsheet, ObjectsStep, RowsStep, SlipStep
<1>31. CASE Crash(d)
  BY <1>31, <1>2, <1>4 DEF Crash
<1> QED
  BY <1>6, <1>7, <1>8, <1>9, <1>10, <1>11, <1>12, <1>13, <1>14, <1>15, <1>16, <1>17, <1>18, <1>19, <1>20, <1>21, <1>22, <1>23, <1>24, <1>25, <1>26, <1>27, <1>28, <1>29, <1>30, <1>31 DEF Step, Environment

-----------------------------------------------------------------------------
(* Each part of the invariant on the stores is inductive.                   *)

(* What backs an outcome never goes away. *)
LEMMA BackedMonotone ==
  ASSUME TypeOK, NEW es \in Seq(EntryOutcomes), Len(es) <= NumEntries,
         Backed(es), Kept
  PROVE  Backed(es)'
<1>1. \A j \in 1..Len(es) : j \in Entries
  BY ExtractionAssumption DEF Entries
<1> QED
  BY <1>1 DEF Backed, Kept

(* Outcomes called UPLOADED stay backed by an object and a row. *)
LEMMA BackedStep ==
  ASSUME TypeInv, PositionOK, BackedOK, NEW d \in Deliveries,
         Step(d) \/ Environment(d)
  PROVE  BackedOK'
<1>1. TypeOK /\ Mine(d) /\ Kept /\ ListStep(d)
  BY FrameStep, StoresStep DEF TypeInv
<1>2. \A e \in Deliveries : /\ entries[e] \in Seq(EntryOutcomes)
                            /\ Len(entries[e]) <= NumEntries
                            /\ Backed(entries[e])
  BY <1>1 DEF PositionOK, Position, BackedOK, TypeOK
<1>3. \A e \in Deliveries :
        \A j \in 1..Len(entries[e]) : IsUploaded(entries[e][j]) =>
          objects'[j] # "none" /\ rows'[j] # "none"
  BY <1>1, <1>2, BackedMonotone DEF Backed
<1>4. ASSUME NEW e \in Deliveries \ {d} PROVE Backed(entries[e])'
  BY <1>1, <1>3 DEF Backed, Mine
<1>5. Backed(entries[d])'
  <2>1. CASE entries'[d] = entries[d]
    BY <1>3, <2>1 DEF Backed
  <2>2. CASE entries'[d] = << >>
    BY <2>2 DEF Backed
  <2>3. ASSUME NEW o \in EntryOutcomes, entries'[d] = Append(entries[d], o),
               IsUploaded(o) => pc[d] = "classify"
        PROVE  Backed(entries[d])'
    <3>1. \A j \in 1..Len(entries'[d]) :
            \/ j \in 1..Len(entries[d]) /\ entries'[d][j] = entries[d][j]
            \/ j = Current(d) /\ entries'[d][j] = o
      BY <1>2, <2>3, AppendFacts DEF Current
    <3>2. pc[d] = "classify" =>
            objects'[Current(d)] # "none" /\ rows'[Current(d)] # "none"
      BY <1>1 DEF PositionOK, Position, Kept, PerEntry
    <3> QED
      BY <1>3, <2>3, <3>1, <3>2 DEF Backed
  <2>4. \A r \in EntryReasons : ~IsUploaded(Failed(r))
    BY DEF IsUploaded, Failed
  <2> QED
    BY <1>1, <2>1, <2>2, <2>3, <2>4, OutcomeTypes DEF ListStep
<1> QED
  BY <1>4, <1>5 DEF BackedOK

(* A step stores no entry that is not storable. *)
LEMMA StorableStep ==
  ASSUME TypeInv, PositionOK, OnlyStorableStored, NEW d \in Deliveries,
         Step(d) \/ Environment(d)
  PROVE  OnlyStorableStored'
<1>1. TypeOK /\ archive' = archive /\ ObjectsStep(d)
  BY FrameStep, StoresStep DEF TypeInv
<1>2. Storable' = Storable
  BY <1>1 DEF Storable
<1>3. CASE UNCHANGED objects
  BY <1>2, <1>3 DEF OnlyStorableStored
<1>4. CASE pc[d] = "uploading" /\ Kind(d) = "clean" /\ StoreChild(d)
  <2>1. Current(d) \in Entries /\ Accepted(Len(entries[d]))
    BY <1>4 DEF PositionOK, Position, PerEntry
  <2>4. Len(entries[d]) \in Nat
    BY <1>1, AppendFacts, OutcomeTypes DEF TypeOK
  <2>2. Current(d) \in Storable
    BY <1>4, <2>1, <2>4 DEF Storable, Accepted, Kind, Current
  <2>3. \A i \in Entries \ {Current(d)} : objects'[i] = objects[i]
    BY <1>1, <1>4 DEF StoreChild, TypeOK
  <2> QED
    BY <1>2, <2>2, <2>3 DEF OnlyStorableStored
<1> QED
  BY <1>1, <1>3, <1>4 DEF ObjectsStep

(* An UPLOADED row is written only when its object is there. *)
LEMMA RowStep ==
  ASSUME TypeInv, PositionOK, UploadedRowHasObject, NEW d \in Deliveries,
         Step(d) \/ Environment(d)
  PROVE  UploadedRowHasObject'
<1>1. TypeOK /\ Kept /\ RowsStep(d)
  BY FrameStep, StoresStep DEF TypeInv
<1>2. \A i \in Entries : rows[i] = "UPLOADED" => objects'[i] # "none"
  BY <1>1 DEF UploadedRowHasObject, Kept
<1>3. CASE UNCHANGED rows
  BY <1>2, <1>3 DEF UploadedRowHasObject
<1>4. CASE pc[d] = "recording" /\ PutRow(Current(d), "UPLOADED")
  <2>1. objects'[Current(d)] # "none" /\ Current(d) \in Entries
    BY <1>1, <1>4 DEF PositionOK, Position, PerEntry, Kept
  <2>2. \A i \in Entries \ {Current(d)} : rows'[i] = rows[i]
    BY <1>1, <1>4 DEF PutRow, TypeOK
  <2> QED
    BY <1>2, <2>1, <2>2 DEF UploadedRowHasObject
<1>5. CASE PutRow(Current(d), "FAILED")
  <2>1. \A i \in Entries : rows'[i] = rows[i] \/ rows'[i] = "FAILED"
    BY <1>1, <1>5 DEF PutRow, TypeOK
  <2> QED
    BY <1>2, <2>1 DEF UploadedRowHasObject
<1> QED
  BY <1>1, <1>3, <1>4, <1>5 DEF RowsStep

(* The slipsheet a step writes is backed. *)
LEMMA SlipsheetStep ==
  ASSUME TypeInv, PositionOK, BackedOK, SlipsheetIsBacked,
         Len(slip.children) <= NumEntries,
         NEW d \in Deliveries, Step(d) \/ Environment(d)
  PROVE  SlipsheetIsBacked' /\ Len(slip'.children) <= NumEntries
<1>1. TypeOK /\ Kept /\ SlipStep(d)
  BY FrameStep, StoresStep DEF TypeInv
<1>2. PICK es \in Seq(EntryOutcomes) :
        Backed(es) /\ Len(es) <= NumEntries /\ slip'.children = es
  <2>1. CASE UNCHANGED slip
    <3>1. slip.children \in Seq(EntryOutcomes)
      <4>1. NoSlip.children \in Seq(EntryOutcomes)
        BY DEF NoSlip
      <4>2. slip \in Slipsheets => slip.children \in Seq(EntryOutcomes)
        BY DEF Slipsheets
      <4> QED
        BY <1>1, <4>1, <4>2 DEF TypeOK
    <3> QED
      BY <2>1, <3>1 DEF SlipsheetIsBacked, Backed
  <2>2. CASE slip' = [status |-> status[d], reason |-> reason[d],
                      children |-> entries[d]]
    BY <1>1, <2>2 DEF BackedOK, PositionOK, Position, TypeOK
  <2> QED
    BY <1>1, <2>1, <2>2 DEF SlipStep
<1>3. Backed(es)'
  BY <1>1, <1>2, BackedMonotone
<1> QED
  BY <1>2, <1>3 DEF Backed, SlipsheetIsBacked


(* The store invariant holds before any delivery. *)
LEMMA StoreInit == Init => StoreInv
<1> SUFFICES ASSUME Init PROVE StoreInv
  OBVIOUS
<1>1. /\ \A d \in Deliveries : pc[d] = "waiting" /\ entries[d] = << >>
      /\ \A i \in Entries : objects[i] = "none" /\ rows[i] = "none"
      /\ slip.children = << >>
  BY DEF Init, NoSlip
<1>2. Len(<< >>) = 0 /\ 0 <= NumEntries
  BY ExtractionAssumption
<1>3. PositionOK
  BY <1>1, <1>2 DEF PositionOK, Position, PerEntry, Preparing
<1>4. BackedOK /\ SlipsheetIsBacked
  BY <1>1, <1>2 DEF BackedOK, Backed, SlipsheetIsBacked
<1> QED
  BY <1>1, <1>2, <1>3, <1>4
     DEF StoreInv, OnlyStorableStored, UploadedRowHasObject

(* The store invariant is kept by every step. *)
LEMMA StoreStep == TypeInv /\ StoreInv /\ [Next]_vars => StoreInv'
<1> SUFFICES ASSUME TypeInv, StoreInv, [Next]_vars PROVE StoreInv'
  OBVIOUS
<1>1. PositionOK'
  BY PositionInductive DEF StoreInv
<1>2. CASE UNCHANGED vars
  BY <1>1, <1>2 DEF StoreInv, BackedOK, Backed, OnlyStorableStored, Storable,
       UploadedRowHasObject, SlipsheetIsBacked, vars, work, stores
<1>3. ASSUME NEW d \in Deliveries, Step(d) \/ Environment(d)
      PROVE  StoreInv'
  BY <1>1, <1>3, BackedStep, StorableStep, RowStep, SlipsheetStep DEF StoreInv
<1> QED
  BY <1>2, <1>3 DEF Next

(* The store invariant, with the types it rests on. *)
LEMMA StoreInvariant == Spec => [](TypeInv /\ StoreInv)
<1>1. TypeInv /\ [Next]_vars => TypeInv'
  BY TypeStep, WhyStep DEF TypeInv
<1> QED
  BY <1>1, TypeInit, StoreInit, StoreStep, PTL DEF Spec

(* No child of a rejected archive, none that failed a check, and none       *)
(* behind an aborting entry is ever stored, for every archive and any       *)
(* number of deliveries.                                                    *)
THEOREM StorableCorrect == Spec => []OnlyStorableStored
<1>1. TypeInv /\ StoreInv => OnlyStorableStored
  BY DEF StoreInv
<1> QED
  BY <1>1, StoreInvariant, PTL

(* Upload first, then record: an UPLOADED row always has its object.        *)
THEOREM RowCorrect == Spec => []UploadedRowHasObject
<1>1. TypeInv /\ StoreInv => UploadedRowHasObject
  BY DEF StoreInv
<1> QED
  BY <1>1, StoreInvariant, PTL

(* The children a slipsheet calls UPLOADED have an object and a row.        *)
THEOREM SlipsheetCorrect == Spec => []SlipsheetIsBacked
<1>1. TypeInv /\ StoreInv => SlipsheetIsBacked
  BY DEF StoreInv
<1> QED
  BY <1>1, StoreInvariant, PTL

(* The conditional put makes every row write-once, whichever deliveries     *)
(* race for it.                                                             *)
THEOREM RowsCorrect == Spec => RowsAreWriteOnce
<1>1. TypeInv /\ StoreInv /\ [Next]_vars =>
        [\A i \in Entries : rows[i] # "none" => rows'[i] = rows[i]]_vars
  <2> SUFFICES ASSUME TypeInv, StoreInv, [Next]_vars
               PROVE  [\A i \in Entries : rows[i] # "none" => rows'[i] = rows[i]]_vars
    OBVIOUS
  <2>1. CASE UNCHANGED vars
    BY <2>1
  <2>2. ASSUME NEW d \in Deliveries, Step(d) \/ Environment(d) PROVE Kept
    BY <2>2, FrameStep DEF TypeInv, StoreInv
  <2> QED
    BY <2>1, <2>2 DEF Kept, Next
<1> QED
  BY <1>1, StoreInvariant, PTL DEF Spec, RowsAreWriteOnce

-----------------------------------------------------------------------------
(* The status of a slipsheet describes its children.                        *)

(* A delivery that still runs has told nothing. *)
LEMMA ToldRunning ==
  ASSUME NEW d \in Deliveries, status'[d] = "FAILED", NoAbort(entries'[d])
  PROVE  Told(d)'
BY DEF Told, Describes, NoAbort

(* What was told stays true while the outcomes do not change. *)
LEMMA ToldSame ==
  ASSUME NEW d \in Deliveries, Told(d), archive' = archive,
         status'[d] = status[d], entries'[d] = entries[d],
         pc[d] \in Deferred => pc'[d] \in Deferred
  PROVE  Told(d)'
BY DEF Told, Describes, NoAbort, AllUploaded, SomeUploaded

(* Appending an outcome that does not abort the archive. *)
LEMMA NoAbortAppend ==
  ASSUME NEW es \in Seq(EntryOutcomes), NoAbort(es), NEW o \in EntryOutcomes,
         o.reason \notin AbortReasons
  PROVE  NoAbort(Append(es, o))
<1>1. \A j \in 1..Len(Append(es, o)) :
        \/ j \in 1..Len(es) /\ Append(es, o)[j] = es[j]
        \/ Append(es, o)[j] = o
  BY AppendFacts
<1> QED
  BY <1>1 DEF NoAbort

(* A step leaves a status that describes the outcomes. *)
LEMMA ToldStep ==
  ASSUME TypeInv, PositionOK, ToldOK, NEW d \in Deliveries,
         Step(d) \/ Environment(d)
  PROVE  Told(d)'
<1>1. TypeOK /\ Told(d) /\ Position(d) /\ archive' = archive
  BY FrameStep DEF TypeInv, ToldOK, PositionOK
<1>2. pc[d] \notin Deferred => status[d] = "FAILED" /\ NoAbort(entries[d])
  BY <1>1 DEF Told
<1>3. UNCHANGED <<entries, status>> /\ pc[d] \notin Deferred => Told(d)'
  BY <1>2, ToldRunning
<1>4. \A s, r : Return(d, s, r) => status'[d] = s /\ pc'[d] = "slipsheet"
  BY <1>1 DEF Return, Goto, TypeOK
<1>5. \A p : End(d, p) => Told(d)'
  <2> SUFFICES ASSUME NEW p, End(d, p) PROVE Told(d)'
    OBVIOUS
  <2>1. status'[d] = "FAILED" /\ entries'[d] = << >>
    BY <1>1 DEF End, TypeOK
  <2> QED
    BY <2>1, ToldRunning DEF NoAbort
<1>6. \A r \in EntryReasons : Failed(r).reason = r
  BY DEF Failed
<1>7. entries[d] \in Seq(EntryOutcomes) /\ status \in [Deliveries -> Statuses]
  BY <1>1 DEF TypeOK
<1>8. CASE Begin(d)
  BY <1>8, <1>3 DEF Begin, NextEntry, work, Deferred, Extracting, Preparing, PerEntry
<1>9. CASE DownloadOk(d)
  BY <1>9, <1>3 DEF DownloadOk, NextEntry, work, Deferred, Extracting, Preparing, PerEntry
<1>10. CASE SpillOk(d)
  BY <1>10, <1>3 DEF SpillOk, NextEntry, work, Deferred, Extracting, Preparing, PerEntry
<1>11. CASE RejectEntry(d)
  BY <1>11, <1>3 DEF RejectEntry, NextEntry, work, Deferred, Extracting, Preparing, PerEntry
<1>12. CASE StreamEntry(d)
  BY <1>12, <1>3 DEF StreamEntry, NextEntry, work, Deferred, Extracting, Preparing, PerEntry
<1>13. CASE UploadHead(d)
  BY <1>13, <1>3 DEF UploadHead, NextEntry, work, Deferred, Extracting, Preparing, PerEntry, DoHead
<1>14. CASE UploadOk(d)
  BY <1>14, <1>3 DEF UploadOk, NextEntry, work, Deferred, Extracting, Preparing, PerEntry
<1>15. CASE UploadUnreadable(d)
  BY <1>15, <1>3 DEF UploadUnreadable, NextEntry, work, Deferred, Extracting, Preparing, PerEntry
<1>16. CASE UploadFails(d)
  BY <1>16, <1>3 DEF UploadFails, NextEntry, work, Deferred, Extracting, Preparing, PerEntry
<1>17. CASE RecordHead(d)
  BY <1>17, <1>3 DEF RecordHead, NextEntry, work, Deferred, Extracting, Preparing, PerEntry, DoHead
<1>18. CASE RecordOk(d)
  BY <1>18, <1>3 DEF RecordOk, NextEntry, work, Deferred, Extracting, Preparing, PerEntry
<1>19. CASE RecordFails(d)
  BY <1>19, <1>3 DEF RecordFails, NextEntry, work, Deferred, Extracting, Preparing, PerEntry
<1>20. CASE Deadline(d)
  BY <1>20, <1>3 DEF Deadline, NextEntry, work, Deferred, Extracting, Preparing, PerEntry
<1>21. CASE Panic(d)
  BY <1>21, <1>3 DEF Panic, NextEntry, work, Deferred, Extracting, Preparing, PerEntry
<1>22. CASE DownloadFails(d)
  BY <1>22, <1>2, <1>4, ToldRunning DEF DownloadFails, Deferred
<1>23. CASE SpillFails(d)
  BY <1>23, <1>2, <1>4, ToldRunning DEF SpillFails, Deferred
<1>24. CASE OpenAndCheck(d)
  BY <1>24, <1>2, <1>3, <1>4, ToldRunning DEF OpenAndCheck, Deferred
<1>25. CASE Interrupted(d)
  <2>1. NoAbort(entries[d]) /\ entries'[d] = entries[d] /\ Len(entries[d]) # NumEntries
    BY <1>25, <1>2, <1>7, AppendFacts, OutcomeTypes, ExtractionAssumption
       DEF Interrupted, Current, Entries, Deferred
  <2>2. PICK s \in {"PARTIAL_FAILED", "FAILED"} :
          /\ \E r : Return(d, s, r)
          /\ s = "PARTIAL_FAILED" => SomeUploaded(entries[d])
    BY <1>25 DEF Interrupted
  <2>3. status'[d] = s /\ pc'[d] = "slipsheet"
    BY <2>2, <1>4
  <2>4. Describes(s, entries[d])
    BY <2>1, <2>2 DEF Describes, NoAbort
  <2>5. Describes(status[d], entries[d])'
    BY <1>1, <2>1, <2>3, <2>4 DEF Describes, AllUploaded, SomeUploaded
  <2> QED
    BY <2>3, <2>5 DEF Told, Deferred
<1>26. CASE SkipUnreadable(d)
  <2>1. PICK r \in {"open", "peek"} : entries'[d] = Append(entries[d], Failed(r))
    BY <1>26, <1>7, <1>1 DEF SkipUnreadable, TypeOK
  <2>2. status'[d] = "FAILED" /\ NoAbort(entries[d])
    BY <1>26, <1>2 DEF SkipUnreadable, NextEntry, Deferred
  <2>3. r \in EntryReasons /\ r \notin AbortReasons
    BY Names DEF AbortReasons
  <2> QED
    BY <1>6, <1>7, <2>1, <2>2, <2>3, OutcomeTypes, NoAbortAppend, ToldRunning
<1>27. CASE Complete(d)
  <2>1. NoAbort(entries[d]) /\ entries'[d] = entries[d]
    BY <1>27, <1>2 DEF Complete, Deferred
  <2>2. Len(entries[d]) = NumEntries /\ archive.header = "ok"
    <3>1. Len(entries[d]) \in Nat /\ Len(entries[d]) <= NumEntries
      BY <1>1, <1>7, AppendFacts, OutcomeTypes DEF Position
    <3>2. Len(entries[d]) + 1 \notin 1..NumEntries
      BY <1>27 DEF Complete, Current, Entries
    <3>3. archive.header = "ok"
      BY <1>27, <1>1 DEF Complete, Position, Accepted
    <3> QED
      BY <3>1, <3>2, <3>3, ExtractionAssumption
  <2>3. status'[d] = StatusOf(entries[d]) /\ pc'[d] = "slipsheet"
    BY <1>27, <1>4 DEF Complete
  <2>4. Describes(StatusOf(entries[d]), entries[d])
    <3>1. CASE AllUploaded(entries[d])
      BY <2>1, <2>2, <3>1 DEF Describes, NoAbort, StatusOf
    <3>2. CASE SomeUploaded(entries[d]) /\ ~AllUploaded(entries[d])
      BY <2>1, <3>2 DEF Describes, NoAbort, StatusOf
    <3>3. CASE ~SomeUploaded(entries[d]) /\ ~AllUploaded(entries[d])
      BY <2>1, <3>3 DEF Describes, NoAbort, StatusOf
    <3> QED
      BY <3>1, <3>2, <3>3
  <2>5. Describes(status[d], entries[d])'
    BY <1>1, <2>1, <2>3, <2>4 DEF Describes, AllUploaded, SomeUploaded
  <2> QED
    BY <2>3, <2>5 DEF Told, Deferred
<1>28. CASE Classify(d)
  <2>1. entries'[d] = Append(entries[d], Uploaded)
    BY <1>28, <1>1 DEF Classify, TypeOK
  <2>2. status'[d] = "FAILED" /\ NoAbort(entries[d])
    BY <1>28, <1>2 DEF Classify, Deferred
  <2>3. Uploaded.reason \notin AbortReasons
    BY DEF Uploaded, AbortReasons
  <2> QED
    BY <1>7, <2>1, <2>2, <2>3, OutcomeTypes, NoAbortAppend, ToldRunning
<1>29. CASE FailEntry(d)
  <2>1. entries'[d] = Append(entries[d], Failed(why[d]))
    BY <1>29, <1>1 DEF FailEntry, RecordFailedEntry, TypeOK
  <2>2. status'[d] = "FAILED" /\ NoAbort(entries[d])
    BY <1>29, <1>2 DEF FailEntry, Deferred
  <2>3. why[d] \in EntryReasons \ AbortReasons
    BY <1>29 DEF FailEntry, TypeInv, WhyOK
  <2> QED
    BY <1>6, <1>7, <2>1, <2>2, <2>3, OutcomeTypes, NoAbortAppend, ToldRunning
<1>30. CASE AbortArchive(d)
  <2>1. entries'[d] = Append(entries[d], Failed(why[d]))
    BY <1>30, <1>1 DEF AbortArchive, RecordFailedEntry, TypeOK
  <2>2. /\ status'[d] = "FAILED" /\ NoAbort(entries[d])
        /\ pc'[d] = "slipsheet"
    BY <1>30, <1>2, <1>4 DEF AbortArchive, Deferred
  <2>3. why[d] \in EntryReasons
    BY <1>30, Names DEF AbortArchive, TypeInv, WhyOK
  <2>4. /\ Len(entries'[d]) = Len(entries[d]) + 1
        /\ \A j \in 1..Len(entries'[d]) :
             j = Len(entries'[d]) \/ entries'[d][j].reason \notin AbortReasons
    BY <1>7, <2>1, <2>2, <2>3, AppendFacts, OutcomeTypes DEF NoAbort
  <2>5. Describes(status[d], entries[d])'
    BY <2>2, <2>4 DEF Describes
  <2> QED
    BY <2>2, <2>5 DEF Told, Deferred
<1>31. CASE WriteSlipsheet(d)
  BY <1>31, <1>5 DEF WriteSlipsheet
<1>32. CASE Crash(d)
  BY <1>32, <1>5 DEF Crash
<1>33. CASE Drain(d)
  BY <1>33, <1>1, ToldSame DEF Drain, work
<1> QED
  BY <1>8, <1>9, <1>10, <1>11, <1>12, <1>13, <1>14, <1>15, <1>16, <1>17, <1>18, <1>19, <1>20, <1>21, <1>22, <1>23, <1>24, <1>25, <1>26, <1>27, <1>28, <1>29, <1>30, <1>31, <1>32, <1>33 DEF Step, Environment

(* The report invariant holds before any delivery. *)
LEMMA ReportInit == Init => ReportInv
<1> SUFFICES ASSUME Init PROVE ReportInv
  OBVIOUS
<1>1. /\ \A d \in Deliveries : status[d] = "FAILED" /\ entries[d] = << >>
      /\ slip.children = << >> /\ slip.status = "none"
  BY DEF Init, NoSlip
<1>2. ToldOK
  <2>1. 1..Len(<< >>) = {}
    OBVIOUS
  <2>2. NoAbort(<< >>) /\ Describes("FAILED", << >>)
    BY <2>1 DEF NoAbort, Describes
  <2> QED
    BY <1>1, <2>2 DEF ToldOK, Told
<1>3. StatusDescribesChildren
  <2>1. 1..Len(slip.children) = {}
    BY <1>1
  <2>2. slip.status \notin {"SUCCESS", "PARTIAL_FAILED"}
    BY <1>1
  <2> QED
    BY <2>1, <2>2 DEF StatusDescribesChildren
<1> QED
  BY <1>2, <1>3 DEF ReportInv

(* The report invariant is kept by every step. *)
LEMMA ReportStep ==
  TypeInv /\ StoreInv /\ ReportInv /\ [Next]_vars => ReportInv'
<1> SUFFICES ASSUME TypeInv, StoreInv, ReportInv, [Next]_vars PROVE ReportInv'
  OBVIOUS
<1> USE DEF StoreInv, ReportInv
<1>1. CASE UNCHANGED vars
  BY <1>1 DEF ToldOK, Told, NoAbort, Describes, AllUploaded, SomeUploaded,
       StatusDescribesChildren, vars, work, stores
<1>2. ASSUME NEW d \in Deliveries, Step(d) \/ Environment(d)
      PROVE  ReportInv'
  <2>1. TypeOK /\ archive' = archive /\ Mine(d) /\ SlipStep(d)
    BY <1>2, FrameStep, StoresStep DEF TypeInv
  <2>2. Told(d)'
    BY <1>2, ToldStep
  <2>3. ASSUME NEW e \in Deliveries \ {d} PROVE Told(e)'
    BY <2>1, ToldSame DEF Mine, ToldOK
  <2>4. CASE UNCHANGED slip
    <3>1. StatusDescribesChildren'
      BY <2>1, <2>4 DEF StatusDescribesChildren, AllUploaded, SomeUploaded
    <3> QED
      BY <2>2, <2>3, <3>1 DEF ToldOK
  <2>5. CASE slip' = [status |-> status[d], reason |-> reason[d],
                      children |-> entries[d]]
    <3>1. Describes(status[d], entries[d])
      BY DEF ToldOK, Told
    <3>2. slip'.status = status[d] /\ slip'.children = entries[d]
      BY <2>5
    <3>3. StatusDescribesChildren'
      BY <2>1, <3>1, <3>2
         DEF Describes, StatusDescribesChildren, AllUploaded, SomeUploaded
    <3> QED
      BY <2>2, <2>3, <3>3 DEF ToldOK
  <2> QED
    BY <2>1, <2>2, <2>3, <2>4, <2>5 DEF SlipStep, ToldOK
<1> QED
  BY <1>1, <1>2 DEF Next

(* SUCCESS covers every entry of an accepted archive, PARTIAL_FAILED is     *)
(* claimed only of a mixed or interrupted one, and an aborting entry is the *)
(* last child of a FAILED slipsheet.                                        *)
THEOREM StatusCorrect == Spec => []StatusDescribesChildren
<1>1. Spec => [][Next]_vars /\ Init
  BY DEF Spec
<1>2. ReportInv => StatusDescribesChildren
  BY DEF ReportInv
<1> QED
  BY <1>1, <1>2, ReportInit, ReportStep, StoreInvariant, PTL
-----------------------------------------------------------------------------
(* Extraction implements EntryLedger: every step of every delivery          *)
(* publishes one fact of the ledger, or none.                               *)

UploadedIn(es) == {j \in 1..Len(es) : IsUploaded(es[j])}
Stored         == {i \in Entries : objects[i] # "none"}

(* Before any delivery the stores are those of an empty ledger. *)
LEMMA LedgerInit == Init => Ledger!Init
<1> SUFFICES ASSUME Init PROVE Ledger!Init
  OBVIOUS
<1>1. Storable \in SUBSET Entries
  BY DEF Storable
<1>2. {i \in Entries : objects[i] # "none"} = {}
  BY DEF Init
<1>3. rows = [i \in Entries |-> "none"]
  BY DEF Init
<1>4. slip.status = "none" /\ 1..Len(slip.children) = {}
  <2>1. slip.status = "none" /\ slip.children = << >>
    BY DEF Init, NoSlip
  <2>2. 1..Len(<< >>) = {}
    OBVIOUS
  <2> QED
    BY <2>1, <2>2
<1>5. {j \in 1..Len(slip.children) : IsUploaded(slip.children[j])} = {}
  BY <1>4
<1> QED
  BY <1>1, <1>2, <1>3, <1>4, <1>5 DEF Ledger!Init

(* A slipsheet whose status describes its children is one that may be       *)
(* published.                                                               *)
LEMMA PublishStep ==
  ASSUME NEW s \in Statuses, NEW es \in Seq(EntryOutcomes),
         Len(es) <= NumEntries, Backed(es), Describes(s, es),
         slip'.status = s, slip'.children = es, UNCHANGED <<archive, objects, rows>>
  PROVE  Ledger!Publish(s, UploadedIn(es)) /\ UploadedIn(es) \in SUBSET Entries
<1>1. Len(es) \in Nat /\ NumEntries \in Nat
  BY AppendFacts, OutcomeTypes, ExtractionAssumption
<1>2. UploadedIn(es) \subseteq Entries
  BY <1>1 DEF UploadedIn, Entries
<1>3. /\ UploadedIn(es) \subseteq Stored
      /\ \A i \in UploadedIn(es) : rows[i] # "none"
  BY <1>2 DEF UploadedIn, Backed, Stored
<1>4. s = "SUCCESS" => UploadedIn(es) = Entries
  BY <1>1 DEF Describes, UploadedIn, AllUploaded, Entries
<1>5. s = "PARTIAL_FAILED" => UploadedIn(es) # {} /\ UploadedIn(es) # Entries
  <2> SUFFICES ASSUME s = "PARTIAL_FAILED"
               PROVE  UploadedIn(es) # {} /\ UploadedIn(es) # Entries
    OBVIOUS
  <2>1. UploadedIn(es) # {}
    BY DEF Describes, SomeUploaded, UploadedIn
  <2>2. ASSUME UploadedIn(es) = Entries PROVE FALSE
    <3>1. \A j \in 1..NumEntries : j \in 1..Len(es) /\ IsUploaded(es[j])
      BY <2>2 DEF UploadedIn, Entries
    <3>2. Len(es) = NumEntries
      BY <1>1, <3>1
    <3> QED
      BY <3>1, <3>2 DEF Describes, AllUploaded
  <2> QED
    BY <2>1, <2>2
<1>6. /\ Storable' = Storable
      /\ Stored' = Stored
      /\ {j \in 1..Len(slip'.children) : IsUploaded(slip'.children[j])}
           = UploadedIn(es)
  BY DEF Storable, Stored, UploadedIn
<1>7. Ledger!Publish(s, UploadedIn(es))
  BY <1>3, <1>4, <1>5, <1>6 DEF Ledger!Publish, Stored
<1> QED
  BY <1>2, <1>7

(* Every step of a delivery is one step of the ledger, or leaves the        *)
(* ledger as it is.                                                         *)
LEMMA LedgerStep ==
  TypeInv /\ StoreInv /\ ReportInv /\ [Next]_vars => [Ledger!Next]_(Ledger!vars)
<1> SUFFICES ASSUME TypeInv, StoreInv, ReportInv, [Next]_vars
             PROVE  [Ledger!Next]_(Ledger!vars)
  OBVIOUS
<1>1. UNCHANGED <<archive, objects, rows, slip>> => UNCHANGED Ledger!vars
  BY DEF Ledger!vars, Storable
<1>2. CASE UNCHANGED vars
  BY <1>1, <1>2 DEF vars, stores
<1>3. ASSUME NEW d \in Deliveries, Step(d) \/ Environment(d)
      PROVE  [Ledger!Next]_(Ledger!vars)
  <2>1. /\ TypeOK /\ archive' = archive /\ Kept /\ PositionOK
        /\ ObjectsStep(d) /\ RowsStep(d) /\ SlipStep(d)
    BY <1>3, FrameStep, StoresStep DEF TypeInv, StoreInv
  <2>2. Storable' = Storable
    BY <2>1 DEF Storable
  <2>3. pc[d] \in PerEntry => Current(d) \in Entries
    BY <2>1 DEF PositionOK, Position
  <2>4. CASE pc[d] = "uploading"
    <3>1. UNCHANGED <<rows, slip>>
      BY <2>1, <2>4 DEF RowsStep, SlipStep, Deferred
    <3>2. CASE UNCHANGED objects
      BY <1>1, <2>1, <3>1, <3>2
    <3>3. CASE Kind(d) = "clean" /\ StoreChild(d)
      <4>1. PICK i \in Entries : i = Current(d)
        BY <2>3, <2>4 DEF PerEntry
      <4>2. objects'[i] # "none" /\ \A k \in Entries \ {i} : objects'[k] = objects[k]
        BY <2>1, <3>3, <4>1 DEF StoreChild, TypeOK
      <4>3. i \in Storable
        <5>1. OnlyStorableStored'
          BY <1>3, StorableStep DEF StoreInv
        <5> QED
          BY <2>2, <4>2, <5>1 DEF OnlyStorableStored
      <4>4. Stored' = Stored \cup {i}
        BY <4>2 DEF Stored
      <4>5. Ledger!Store(i)
        BY <2>2, <3>1, <4>3, <4>4 DEF Ledger!Store, Stored
      <4> QED
        BY <4>5 DEF Ledger!Next
    <3> QED
      BY <2>1, <3>2, <3>3 DEF ObjectsStep
  <2>5. CASE pc[d] \in {"recording", "failing", "rejecting"}
    <3>1. UNCHANGED <<objects, slip>>
      BY <2>1, <2>5 DEF ObjectsStep, SlipStep, Deferred
    <3>2. CASE UNCHANGED rows
      BY <1>1, <2>1, <3>1, <3>2
    <3>3. ASSUME NEW s \in {"UPLOADED", "FAILED"}, PutRow(Current(d), s),
                 s = "UPLOADED" => pc[d] = "recording", ~UNCHANGED rows
          PROVE  [Ledger!Next]_(Ledger!vars)
      <4>1. rows[Current(d)] = "none" /\ rows' = [rows EXCEPT ![Current(d)] = s]
        BY <3>3 DEF PutRow
      <4>2. s = "UPLOADED" => Current(d) \in Stored
        BY <2>1, <2>3, <2>5, <3>3 DEF PositionOK, Position, Stored, PerEntry
      <4>3. Stored' = Stored
        BY <3>1 DEF Stored
      <4>4. Ledger!Record(Current(d), s)
        BY <2>2, <3>1, <4>1, <4>2, <4>3 DEF Ledger!Record, Stored
      <4> QED
        BY <2>3, <2>5, <3>3, <4>4 DEF Ledger!Next, PerEntry
    <3> QED
      BY <2>1, <3>2, <3>3 DEF RowsStep
  <2>6. CASE pc[d] \in Deferred
    <3>1. UNCHANGED <<objects, rows>>
      BY <2>1, <2>6 DEF ObjectsStep, RowsStep, Deferred
    <3>2. CASE UNCHANGED slip
      BY <1>1, <2>1, <3>1, <3>2
    <3>3. CASE slip' = [status |-> status[d], reason |-> reason[d],
                        children |-> entries[d]]
      <4>1. /\ status[d] \in Statuses /\ entries[d] \in Seq(EntryOutcomes)
            /\ slip'.status = status[d] /\ slip'.children = entries[d]
        BY <2>1, <3>3 DEF TypeOK
      <4>2. /\ Len(entries[d]) <= NumEntries /\ Backed(entries[d])
            /\ Describes(status[d], entries[d])
        BY DEF StoreInv, ReportInv, PositionOK, Position, BackedOK, ToldOK, Told
      <4>3. /\ Ledger!Publish(status[d], UploadedIn(entries[d]))
            /\ UploadedIn(entries[d]) \in SUBSET Entries
        BY <2>1, <3>1, <4>1, <4>2, PublishStep
      <4> QED
        BY <4>1, <4>3 DEF Ledger!Next, Statuses
    <3> QED
      BY <2>1, <3>2, <3>3 DEF SlipStep
  <2>7. CASE pc[d] \notin {"uploading", "recording", "failing", "rejecting"}
                            \cup Deferred
    BY <1>1, <2>1, <2>7 DEF ObjectsStep, RowsStep, SlipStep
  <2> QED
    BY <2>4, <2>5, <2>6, <2>7
<1> QED
  BY <1>2, <1>3 DEF Next

(* Whatever the deliveries of a message do, in whatever order, readers of   *)
(* the bucket, the table and the slipsheet see a behaviour of the ledger.   *)
THEOREM Refinement == Spec => ImplementsLedger
<1> QED
  BY LedgerInit, LedgerStep, ReportInit, ReportStep, StoreInvariant, PTL
     DEF Spec, ImplementsLedger, Ledger!Spec

-----------------------------------------------------------------------------
(* A done context starts no call.                                           *)

(* Which steps lead to a call. *)
LEMMA CallStep ==
  ASSUME TypeOK, NEW d \in Deliveries, Step(d) \/ Environment(d),
         ctx[d] # "live", pc'[d] \in {"uploading", "recording"}
  PROVE  pc[d] = pc'[d]
<1> USE DEF Goto, TypeOK
<1>1. CASE \/ Begin(d) \/ DownloadOk(d) \/ SpillOk(d) \/ RejectEntry(d)
           \/ StreamEntry(d) \/ Classify(d) \/ FailEntry(d) \/ Panic(d)
  BY <1>1 DEF Begin, DownloadOk, SpillOk, RejectEntry, StreamEntry, Classify,
              FailEntry, Panic, FailWith
<1>2. CASE \/ DownloadFails(d) \/ SpillFails(d) \/ OpenAndCheck(d)
           \/ Interrupted(d) \/ Complete(d) \/ AbortArchive(d)
  BY <1>2 DEF DownloadFails, SpillFails, OpenAndCheck, Interrupted, Complete,
              AbortArchive, Return
<1>3. CASE UploadHead(d) \/ RecordHead(d)
  BY <1>3 DEF UploadHead, RecordHead, DoHead, FailWith
<1>4. CASE UploadOk(d) \/ UploadUnreadable(d) \/ UploadFails(d)
  BY <1>4 DEF UploadOk, UploadUnreadable, UploadFails, DoSucceed, DoAbort,
              DoTransient, FailWith
<1>5. CASE RecordOk(d) \/ RecordFails(d)
  BY <1>5 DEF RecordOk, RecordFails, DoSucceed, DoAbort, DoTransient, FailWith
<1>6. CASE WriteSlipsheet(d) \/ Crash(d)
  <2>1. PICK p \in Ended : End(d, p)
    BY <1>6 DEF WriteSlipsheet, Crash, Ended
  <2>2. pc'[d] = p
    BY <2>1 DEF End
  <2> QED
    BY <2>2 DEF Ended
<1>7. CASE SkipUnreadable(d) \/ Deadline(d) \/ Drain(d)
  BY <1>7 DEF SkipUnreadable, Deadline, Drain
<1> QED
  BY <1>1, <1>2, <1>3, <1>4, <1>5, <1>6, <1>7 DEF Step, Environment

(* Rule 10 and a drain stop every delivery at its next call, for any number *)
(* of entries and attempts: the retry loops look at the context first.      *)
THEOREM NoCallAfterDone == Spec => DoneContextStartsNothing
<1>1. TypeInv /\ StoreInv /\ [Next]_vars =>
        [\A d \in Deliveries :
           ctx[d] # "live" /\ pc'[d] \in {"uploading", "recording"} =>
             pc[d] = pc'[d]]_vars
  <2> SUFFICES ASSUME TypeInv, StoreInv, [Next]_vars, NEW e \in Deliveries,
                      ctx[e] # "live", pc'[e] \in {"uploading", "recording"}
               PROVE  pc[e] = pc'[e]
    OBVIOUS
  <2>1. CASE UNCHANGED vars
    BY <2>1 DEF vars
  <2>2. ASSUME NEW d \in Deliveries, Step(d) \/ Environment(d)
        PROVE  pc[e] = pc'[e]
    <3>1. CASE e = d
      BY <2>2, <3>1, CallStep DEF TypeInv
    <3>2. CASE e # d
      BY <2>2, <3>2, FrameStep DEF TypeInv, StoreInv, Mine
    <3> QED
      BY <3>1, <3>2
  <2> QED
    BY <2>1, <2>2 DEF Next
<1> QED
  BY <1>1, StoreInvariant, PTL DEF Spec, DoneContextStartsNothing

-----------------------------------------------------------------------------
(* One delivery alone.                                                      *)

(* What the rows are to the only delivery: those of the outcomes it calls   *)
(* UPLOADED are, and those of the entries to come are not there; a record   *)
(* of the entry in hand may have taken effect although its answer was lost. *)
Alone(d) ==
  /\ \A j \in 1..Len(entries[d]) :
       IsUploaded(entries[d][j]) => rows[j] = "UPLOADED"
  /\ pc[d] = "classify" => rows[Current(d)] = "UPLOADED"
  /\ pc[d] \notin Deferred \cup Ended =>
       \A k \in Entries : k > Len(entries[d]) =>
         \/ rows[k] = "none"
         \/ /\ k = Current(d)
            /\ pc[d] \in {"record", "recording"} => rows[k] = "UPLOADED"
            /\ pc[d] \in {"record", "recording", "classify", "failing"}

LEMMA AloneStay ==
  ASSUME TypeOK, NEW d \in Deliveries, Alone(d), rows' = rows,
         entries'[d] = entries[d],
         \/ pc'[d] = pc[d]
         \/ pc'[d] \in Deferred
         \/ /\ pc[d] \notin Deferred \cup Ended
            /\ pc[d] \notin {"record", "recording", "classify", "failing"}
            /\ pc'[d] # "classify"
         \/ /\ pc[d] \in {"record", "recording"}
            /\ pc'[d] \in {"record", "recording", "failing"}
  PROVE  Alone(d)'
<1>1. Current(d)' = Current(d)
  BY DEF Current
<1> QED
  BY <1>1 DEF Alone, Deferred, Ended

LEMMA AlonePut ==
  ASSUME TypeOK, NEW d \in Deliveries, Alone(d), Current(d) \in Entries,
         pc[d] = "recording", PutRow(Current(d), "UPLOADED"),
         entries'[d] = entries[d], pc'[d] \in {"record", "classify", "failing"}
  PROVE  Alone(d)'
<1>0. entries[d] \in Seq(EntryOutcomes)
  BY DEF TypeOK
<1>1. Current(d)' = Current(d) /\ Len(entries[d]) \in Nat
  BY <1>0 DEF Current
<1>2. rows'[Current(d)] = "UPLOADED"
  <2>1. rows[Current(d)] \in {"none", "UPLOADED"}
    BY <1>1 DEF Alone, Current, Deferred, Ended
  <2> QED
    BY <2>1 DEF PutRow, TypeOK
<1>3. \A k \in Entries : k # Current(d) => rows'[k] = rows[k]
  BY DEF PutRow, TypeOK
<1>4. \A j \in 1..Len(entries[d]) : j # Current(d) /\ j \in Entries
  BY <1>1, ExtractionAssumption DEF Current, Entries
<1>5. pc[d] \notin Deferred \cup Ended
  BY DEF Deferred, Ended
<1> QED
  BY <1>1, <1>2, <1>3, <1>4, <1>5 DEF Alone

LEMMA AloneAppend ==
  ASSUME TypeOK, NEW d \in Deliveries, Alone(d), Current(d) \in Entries,
         pc[d] \notin Deferred \cup Ended,
         NEW o \in EntryOutcomes, entries'[d] = Append(entries[d], o),
         \/ UNCHANGED rows
         \/ PutRow(Current(d), "FAILED"),
         IsUploaded(o) => pc[d] = "classify" /\ UNCHANGED rows,
         pc'[d] \in {"loop"} \cup Deferred
  PROVE  Alone(d)'
<1>1. entries[d] \in Seq(EntryOutcomes)
  BY DEF TypeOK
<1>2. /\ Len(entries[d]) \in Nat /\ Len(entries'[d]) = Len(entries[d]) + 1
      /\ \A j \in 1..Len(entries[d]) : entries'[d][j] = entries[d][j]
      /\ entries'[d][Current(d)] = o
  BY <1>1, AppendFacts DEF Current
<1>3. \A k \in Entries : k # Current(d) => rows'[k] = rows[k]
  BY DEF PutRow, TypeOK
<1>4. \A j \in 1..Len(entries[d]) : j # Current(d) /\ j \in Entries
  BY <1>2, ExtractionAssumption DEF Current, Entries
<1>5. \A j \in 1..Len(entries'[d]) :
        IsUploaded(entries'[d][j]) => rows'[j] = "UPLOADED"
  <2> SUFFICES ASSUME NEW j \in 1..Len(entries'[d]), IsUploaded(entries'[d][j])
               PROVE  rows'[j] = "UPLOADED"
    OBVIOUS
  <2>1. CASE j \in 1..Len(entries[d])
    BY <1>2, <1>3, <1>4, <2>1 DEF Alone
  <2>2. CASE j = Current(d)
    BY <1>2, <2>2 DEF Alone
  <2> QED
    BY <1>2, <2>1, <2>2 DEF Current
<1>6. \A k \in Entries : k > Len(entries'[d]) => rows'[k] = "none"
  BY <1>2, <1>3 DEF Alone, Current, Entries
<1> QED
  BY <1>5, <1>6 DEF Alone, Deferred

LEMMA AloneEnd ==
  ASSUME TypeOK, NEW d \in Deliveries, NEW p \in Ended, End(d, p)
  PROVE  Alone(d)'
<1>1. pc'[d] = p /\ entries'[d] = << >>
  BY DEF End, Goto, TypeOK
<1> QED
  BY <1>1 DEF Alone, Ended

LEMMA AloneStep ==
  ASSUME TypeInv, StoreInv, NEW d \in Deliveries, Alone(d),
         Step(d) \/ Environment(d)
  PROVE  Alone(d)'
<1>0. TypeOK /\ Position(d)
  BY DEF TypeInv, StoreInv, PositionOK
<1>1. pc[d] \in PerEntry => Current(d) \in Entries
  BY <1>0 DEF Position
<1>2. \A p : Goto(d, p) => pc'[d] = p
  BY <1>0 DEF Goto, TypeOK
<1>3. \A s, r : Return(d, s, r) => pc'[d] \in Deferred
  BY <1>2 DEF Return, Deferred
<1>4. CASE \/ Begin(d) \/ DownloadOk(d) \/ SpillOk(d) \/ RejectEntry(d)
           \/ StreamEntry(d) \/ UploadHead(d) \/ UploadOk(d)
           \/ UploadUnreadable(d) \/ UploadFails(d)
  <2>1. /\ rows' = rows /\ entries' = entries
        /\ pc[d] \in {"waiting", "download", "spill", "loop", "upload",
                      "uploading"}
    BY <1>4 DEF Begin, DownloadOk, SpillOk, RejectEntry, StreamEntry,
                UploadHead, UploadOk, UploadUnreadable, UploadFails, NextEntry,
                DoHead, work, stores
  <2>2. pc'[d] # "classify"
    BY <1>2, <1>4 DEF Begin, DownloadOk, SpillOk, RejectEntry, StreamEntry,
                UploadHead, UploadOk, UploadUnreadable, UploadFails,
                DoHead, DoSucceed, DoAbort, DoTransient, FailWith
  <2>3. pc[d] \notin Deferred \cup Ended
    BY <2>1 DEF Deferred, Ended
  <2> QED
    BY <1>0, <2>1, <2>2, <2>3, AloneStay
<1>5. CASE \/ DownloadFails(d) \/ SpillFails(d) \/ Interrupted(d)
           \/ Complete(d) \/ Panic(d)
  <2>1. /\ rows' = rows /\ entries' = entries
        /\ pc'[d] \in Deferred
    BY <1>2, <1>3, <1>5 DEF DownloadFails, SpillFails, Interrupted, Complete,
                            Panic, work, stores, Deferred
  <2> QED
    BY <1>0, <2>1, AloneStay
<1>6. CASE OpenAndCheck(d)
  <2>1. /\ rows' = rows /\ entries' = entries /\ pc[d] = "open"
        /\ pc'[d] \in {"loop"} \cup Deferred
    BY <1>2, <1>3, <1>6 DEF OpenAndCheck, stores
  <2> QED
    BY <1>0, <2>1, AloneStay DEF Deferred, Ended
<1>7. CASE Deadline(d) \/ Drain(d)
  BY <1>0, <1>7, AloneStay DEF Deadline, Drain, work, stores
<1>8. CASE RecordHead(d)
  <2>1. /\ rows' = rows /\ entries' = entries /\ pc[d] = "record"
        /\ pc'[d] \in {"recording", "failing"}
    BY <1>2, <1>8 DEF RecordHead, DoHead, FailWith, stores
  <2> QED
    BY <1>0, <2>1, AloneStay
<1>9. CASE RecordOk(d) \/ RecordFails(d)
  <2>1. /\ entries' = entries /\ pc[d] = "recording"
        /\ \/ pc'[d] \in {"record", "failing"}
           \/ pc'[d] = "classify" /\ PutRow(Current(d), "UPLOADED")
        /\ UNCHANGED rows \/ PutRow(Current(d), "UPLOADED")
    BY <1>2, <1>9 DEF RecordOk, RecordFails, DoSucceed, DoAbort, DoTransient,
                      FailWith
  <2>2. Current(d) \in Entries
    BY <1>1, <2>1 DEF PerEntry
  <2> QED
    BY <1>0, <2>1, <2>2, AloneStay, AlonePut
<1>10. CASE SkipUnreadable(d)
  <2>1. PICK o \in EntryOutcomes :
          /\ entries' = [entries EXCEPT ![d] = Append(entries[d], o)]
          /\ ~IsUploaded(o)
    BY <1>10, OutcomeTypes, Names DEF SkipUnreadable, Failed, IsUploaded
  <2>2. /\ pc[d] = "loop" /\ pc'[d] = "loop" /\ Current(d) \in Entries
        /\ UNCHANGED rows
    BY <1>10 DEF SkipUnreadable, NextEntry, stores
  <2>3. entries'[d] = Append(entries[d], o)
    BY <1>0, <2>1 DEF TypeOK
  <2> QED
    BY <1>0, <2>1, <2>2, <2>3, AloneAppend DEF Deferred, Ended
<1>11. CASE Classify(d)
  <2>1. /\ pc[d] = "classify" /\ pc'[d] = "loop" /\ UNCHANGED rows
        /\ entries'[d] = Append(entries[d], Uploaded)
    BY <1>0, <1>2, <1>11 DEF Classify, stores, TypeOK
  <2>2. Current(d) \in Entries /\ Uploaded \in EntryOutcomes
    BY <1>1, <2>1 DEF PerEntry, EntryOutcomes
  <2> QED
    BY <1>0, <2>1, <2>2, AloneAppend DEF Deferred, Ended
<1>12. CASE FailEntry(d) \/ AbortArchive(d)
  <2>1. /\ pc[d] \in {"failing", "rejecting"}
        /\ pc'[d] \in {"loop"} \cup Deferred
        /\ RecordFailedEntry(d)
    BY <1>2, <1>3, <1>12 DEF FailEntry, AbortArchive
  <2>2. Current(d) \in Entries
    BY <1>1, <2>1 DEF PerEntry
  <2>3. why[d] \in EntryReasons
    BY <2>1 DEF TypeInv, WhyOK, AbortReasons, EntryReasons
  <2>4. Failed(why[d]) \in EntryOutcomes /\ ~IsUploaded(Failed(why[d]))
    BY <2>3 DEF EntryOutcomes, Failed, IsUploaded
  <2>5. entries'[d] = Append(entries[d], Failed(why[d]))
    BY <1>0, <2>1 DEF RecordFailedEntry, TypeOK
  <2>6. UNCHANGED rows \/ PutRow(Current(d), "FAILED")
    BY <2>1 DEF RecordFailedEntry
  <2>7. pc[d] \notin Deferred \cup Ended
    BY <2>1 DEF Deferred, Ended
  <2> QED
    BY <1>0, <2>1, <2>2, <2>4, <2>5, <2>6, <2>7, AloneAppend
<1>13. CASE WriteSlipsheet(d) \/ Crash(d)
  <2>1. PICK p \in Ended : End(d, p)
    BY <1>13 DEF WriteSlipsheet, Crash, Ended
  <2> QED
    BY <1>0, <2>1, AloneEnd
<1> QED
  BY <1>4, <1>5, <1>6, <1>7, <1>8, <1>9, <1>10, <1>11, <1>12, <1>13
     DEF Step, Environment

(* The slipsheet keeps agreeing with the rows. *)
LEMMA AgreeStep ==
  ASSUME TypeInv, StoreInv, NEW d \in Deliveries, Alone(d),
         Step(d) \/ Environment(d), SlipsheetAgreesWithRows
  PROVE  SlipsheetAgreesWithRows'
<1>1. Kept /\ Len(slip.children) <= NumEntries
  BY FrameStep DEF TypeInv, StoreInv
<1>2. CASE UNCHANGED slip
  <2>1. slip.children \in Seq(EntryOutcomes)
    <3>1. slip \in Slipsheets \/ slip = NoSlip
      BY DEF TypeInv, TypeOK
    <3>2. << >> \in Seq(EntryOutcomes)
      OBVIOUS
    <3>3. CASE slip \in Slipsheets
      BY <3>3 DEF Slipsheets
    <3>4. CASE slip = NoSlip
      <4>1. slip.children = << >>
        BY <3>4 DEF NoSlip
      <4> QED
        BY <3>2, <4>1
    <3> QED
      BY <3>1, <3>3, <3>4
  <2>2. \A j \in 1..Len(slip.children) : j \in Entries
    BY <1>1, <2>1, ExtractionAssumption DEF Entries
  <2> QED
    BY <1>1, <1>2, <2>2 DEF Kept, SlipsheetAgreesWithRows
<1>3. CASE WriteSlipsheet(d) /\ slip' # slip
  <2>1. slip'.children = entries[d] /\ rows' = rows
    BY <1>3 DEF WriteSlipsheet
  <2> QED
    BY <2>1 DEF Alone, SlipsheetAgreesWithRows
<1>4. WriteSlipsheet(d) \/ UNCHANGED slip
  BY DEF Step, Environment, DownloadOk, DownloadFails, SpillOk, SpillFails,
     OpenAndCheck, Interrupted, RejectEntry, SkipUnreadable, StreamEntry,
     Complete, UploadHead, UploadOk, UploadUnreadable, UploadFails, RecordHead,
     RecordOk, RecordFails, Classify, FailEntry, AbortArchive, Begin, Deadline,
     Drain, Panic, Crash, work, stores
<1> QED
  BY <1>2, <1>3, <1>4

(* With one delivery of the message, for any number of entries and attempts *)
(* and every fault: a child the slipsheet calls UPLOADED has an UPLOADED    *)
(* row (BR-STATUS-004).                                                     *)
THEOREM AgreementAlone ==
  ASSUME NEW x, Deliveries = {x}
  PROVE  Spec => []SlipsheetAgreesWithRows
<1> DEFINE AgreeInv == Alone(x) /\ SlipsheetAgreesWithRows
<1>1. Init => AgreeInv
  <2> SUFFICES ASSUME Init PROVE AgreeInv
    OBVIOUS
  <2>1. /\ entries[x] = << >> /\ pc[x] = "waiting" /\ slip.children = << >>
        /\ \A k \in Entries : rows[k] = "none"
    BY DEF Init, NoSlip
  <2>2. Len(<< >>) = 0 /\ 1..0 = {}
    OBVIOUS
  <2> QED
    BY <2>1, <2>2 DEF Alone, SlipsheetAgreesWithRows
<1>2. TypeInv /\ StoreInv /\ AgreeInv /\ [Next]_vars => AgreeInv'
  <2> SUFFICES ASSUME TypeInv, StoreInv, AgreeInv, [Next]_vars
               PROVE  AgreeInv'
    OBVIOUS
  <2>1. CASE UNCHANGED vars
    BY <2>1 DEF vars, work, stores, Alone, Current, SlipsheetAgreesWithRows
  <2>2. CASE Step(x) \/ Environment(x)
    BY <2>2, AloneStep, AgreeStep
  <2> QED
    BY <2>1, <2>2 DEF Next
<1> QED
  BY <1>1, <1>2, StoreInvariant, PTL DEF Spec
=============================================================================
