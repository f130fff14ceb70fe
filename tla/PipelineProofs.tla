--------------------------- MODULE PipelineProofs ----------------------------
(***************************************************************************)
(* What Pipeline guarantees for any number of messages, pods, receipts and *)
(* entries and any faults, in three parts.                                 *)
(*                                                                         *)
(* What the components promise holds of the whole: every step is one of    *)
(* SqsConsumer and one of Extraction, or invisible to them, so the whole   *)
(* implements AtLeastOnce and EntryLedger, and a message that a heartbeat  *)
(* holds stays hidden.                                                     *)
(*                                                                         *)
(* Whatever the timeouts: no valid message is deleted before one of its    *)
(* handlers has left a slipsheet or had its write fail by itself.  The     *)
(* argument runs through both components: the consumer deletes only what a *)
(* handler has returned from, the handler returns only through its write   *)
(* of the slipsheet, and the one thing that silently stops that write, a   *)
(* done root context, stops the delete as well.                            *)
(*                                                                         *)
(* With heartbeats that outlast their gaps (Timely): two handlers that     *)
(* began in time never work on the archive together, whatever the ones     *)
(* that began late do; and as long as none began late, the report of a     *)
(* deleted message is that of its last receipt.                            *)
(***************************************************************************)
EXTENDS Pipeline, Integers, TLAPS

(* The components with what is proved about them. *)
SP == INSTANCE SqsProofs
EP == INSTANCE ExtractionProofs

-----------------------------------------------------------------------------
(* The components in the whole: its steps are theirs, so what their steps   *)
(* preserve holds here too, with nothing assumed about what the handler of  *)
(* the consumer, or the environment of the handler, does.                   *)

LEMMA ConsumerAssumed == SP!ConsumerAssumption
BY PipelineAssumption
  DEF Consumer!ConsumerAssumption, SP!ConsumerAssumption, Consumer!FaultKinds,
      SP!FaultKinds

LEMMA HandlerAssumed == EP!ExtractionAssumption
BY PipelineAssumption
  DEF Handler!ExtractionAssumption, EP!ExtractionAssumption,
      Handler!EntryKinds, EP!EntryKinds, Handler!Rejected, EP!Rejected,
      Handler!Unreadable, EP!Unreadable, Handler!Streamed, EP!Streamed

(* The deliveries of the message that is followed, among all.               *)
LEMMA Followed ==
  /\ Focus \in Messages
  /\ Consumer!Deliveries = SP!Deliveries
  /\ Deliveries \subseteq Consumer!Deliveries
  /\ \A d \in Deliveries : d[1] = Focus /\ d[2] \in Nat /\ d[2] > 0
  /\ \A d \in Consumer!Deliveries : d[1] \in Messages
  /\ \A d \in Consumer!Deliveries \ Deliveries : d[1] # Focus
BY PipelineAssumption
   DEF Deliveries, Consumer!Deliveries, SP!Deliveries,
       Consumer!ConsumerAssumption

(* Pipeline's names for the steps of the components, and the proofs' names. *)
LEMMA HandlerSame ==
  ASSUME NEW d \in Deliveries
  PROVE  /\ Handler!Step(d) => EP!Step(d)
         /\ Handler!Begin(d) \/ Handler!Deadline(d) \/ Handler!Drain(d)
              \/ Handler!Panic(d) \/ Handler!Crash(d) => EP!Environment(d)
<1>1. Handler!Step(d) => EP!Step(d)
  BY DEF Handler!Step, EP!Step, Handler!DownloadReason, EP!DownloadReason,
        Handler!NextEntry, EP!NextEntry, Handler!FailWith, EP!FailWith,
        Handler!StatusOf, EP!StatusOf, Handler!DoHead, EP!DoHead,
        Handler!DoTransient, EP!DoTransient, Handler!DoAbort, EP!DoAbort,
        Handler!DoSucceed, EP!DoSucceed, Handler!StoreChild, EP!StoreChild,
        Handler!RecordFailedEntry, EP!RecordFailedEntry, Handler!End, EP!End,
        Handler!Goto, EP!Goto, Handler!Return, EP!Return, Handler!Current,
        EP!Current, Handler!Kind, EP!Kind, Handler!PutRow, EP!PutRow,
        Handler!SomeUploaded, EP!SomeUploaded, Handler!AllUploaded,
        EP!AllUploaded, Handler!IsUploaded, EP!IsUploaded, Handler!Uploaded,
        EP!Uploaded, Handler!Failed, EP!Failed, Handler!Rejected, EP!Rejected,
        Handler!Unreadable, EP!Unreadable, Handler!Streamed, EP!Streamed,
        Handler!Deferred, EP!Deferred, Handler!Entries, EP!Entries,
        Handler!work, EP!work, Handler!stores, EP!stores, Handler!DownloadOk,
        EP!DownloadOk, Handler!DownloadFails, EP!DownloadFails,
        Handler!SpillOk, EP!SpillOk, Handler!SpillFails, EP!SpillFails,
        Handler!OpenAndCheck, EP!OpenAndCheck, Handler!Interrupted,
        EP!Interrupted, Handler!RejectEntry, EP!RejectEntry,
        Handler!SkipUnreadable, EP!SkipUnreadable, Handler!StreamEntry,
        EP!StreamEntry, Handler!Complete, EP!Complete, Handler!UploadHead,
        EP!UploadHead, Handler!UploadOk, EP!UploadOk,
        Handler!UploadUnreadable, EP!UploadUnreadable, Handler!UploadFails,
        EP!UploadFails, Handler!RecordHead, EP!RecordHead, Handler!RecordOk,
        EP!RecordOk, Handler!RecordFails, EP!RecordFails, Handler!Classify,
        EP!Classify, Handler!FailEntry, EP!FailEntry, Handler!AbortArchive,
        EP!AbortArchive, Handler!WriteSlipsheet, EP!WriteSlipsheet
<1>2. Handler!Begin(d) \/ Handler!Deadline(d) \/ Handler!Drain(d)
        \/ Handler!Panic(d) \/ Handler!Crash(d) => EP!Environment(d)
  BY DEF EP!Environment, Handler!Begin, EP!Begin, Handler!Deadline,
        EP!Deadline, Handler!Drain, EP!Drain, Handler!Panic, EP!Panic,
        Handler!Crash, EP!Crash, Handler!End, EP!End, Handler!Goto, EP!Goto,
        Handler!Preparing, EP!Preparing, Handler!PerEntry, EP!PerEntry,
        Handler!Extracting, EP!Extracting, Handler!Deferred, EP!Deferred,
        Handler!work, EP!work, Handler!stores, EP!stores
<1> QED
  BY <1>1, <1>2

LEMMA HandlerInit == Init => EP!Init
BY DEF Init, Handler!Init, EP!Init,
      Handler!Archives, EP!Archives, Handler!Headers, EP!Headers,
      Handler!Entries, EP!Entries, Handler!NoSlip, EP!NoSlip

LEMMA HandlerNext == [Next]_vars => [EP!Next]_(EP!vars)
<1> SUFFICES ASSUME [Next]_vars PROVE EP!Next \/ UNCHANGED EP!vars
  OBVIOUS
<1>1. CASE UNCHANGED handlerVars
  BY <1>1 DEF handlerVars, EP!vars, EP!work, EP!stores
<1>2. ASSUME NEW d \in Deliveries, EP!Step(d) \/ EP!Environment(d)
      PROVE  EP!Next
  BY <1>2 DEF EP!Next
<1>3. CASE UNCHANGED vars
  BY <1>1, <1>3 DEF vars
<1>4. CASE Tick \/ ConsumerStep
  BY <1>1, <1>4 DEF Tick, ConsumerStep, ConsumerOnly
<1>5. ASSUME NEW d \in Deliveries,
             \/ Overtake(d) \/ Dispatch(d) \/ HandlerStep(d)
             \/ HandlerReturns(d) \/ HandlerPanics(d)
      PROVE  EP!Next \/ UNCHANGED EP!vars
  BY <1>1, <1>2, <1>5, HandlerSame
     DEF Overtake, Dispatch, HandlerStep, HandlerReturns, HandlerPanics,
         ConsumerOnly
<1>6. ASSUME NEW d \in Consumer!Deliveries, OtherWorker(d)
      PROVE  EP!Next \/ UNCHANGED EP!vars
  BY <1>1, <1>6 DEF OtherWorker, ConsumerOnly
<1> QED
  BY <1>3, <1>4, <1>5, <1>6 DEF Next

LEMMA ConsumerSame ==
  /\ Consumer!Tick => SP!Tick
  /\ \A m \in Messages : Consumer!DeadLetter(m) => SP!DeadLetter(m)
  /\ \A p \in Pods : /\ Consumer!RunStep(p) => SP!RunStep(p)
                     /\ Consumer!PodFault(p) => SP!PodFault(p)
  /\ \A d \in Consumer!Deliveries :
       /\ \/ Consumer!Dispatch(d) \/ Consumer!HandlerReturns(d)
          \/ Consumer!HeartbeatStopped(d) \/ Consumer!Delete(d)
          => SP!WorkerStep(d)
       /\ Consumer!HeartbeatStep(d) => SP!HeartbeatStep(d)
       /\ Consumer!HandlerPanics(d) => SP!HandlerPanics(d)
<1>1. Consumer!Tick => SP!Tick
  BY DEF Consumer!Tick, SP!Tick, Consumer!Elapse, SP!Elapse, Consumer!Beating,
        SP!Beating, Consumer!Canceled, SP!Canceled, Consumer!Parses,
        SP!Parses, Consumer!Message, SP!Message, Consumer!Hurrying,
        SP!Hurrying, Consumer!Working, SP!Working, Consumer!Waiting,
        SP!Waiting, Consumer!On, SP!On, Consumer!Cardinality, SP!Cardinality,
        Consumer!queueVars, SP!queueVars, Consumer!beatVars, SP!beatVars,
        Consumer!Deliveries, SP!Deliveries
<1>2. \A m \in Messages : Consumer!DeadLetter(m) => SP!DeadLetter(m)
  BY DEF Consumer!DeadLetter, SP!DeadLetter, Consumer!queueVars, SP!queueVars,
        Consumer!beatVars, SP!beatVars, Consumer!Deliveries, SP!Deliveries
<1>3. ASSUME NEW p \in Pods
      PROVE  /\ Consumer!RunStep(p) => SP!RunStep(p)
             /\ Consumer!PodFault(p) => SP!PodFault(p)
  BY DEF Consumer!RunStep, SP!RunStep, Consumer!PodFault, SP!PodFault,
        Consumer!Receive, SP!Receive, Consumer!ReceiveLost, SP!ReceiveLost,
        Consumer!ReceiveTimesOut, SP!ReceiveTimesOut, Consumer!BatchDone,
        SP!BatchDone, Consumer!StartDrain, SP!StartDrain, Consumer!DrainDone,
        SP!DrainDone, Consumer!DrainDeadline, SP!DrainDeadline,
        Consumer!Sigterm, SP!Sigterm, Consumer!Crash, SP!Crash,
        Consumer!PodEnds, SP!PodEnds, Consumer!HandOut, SP!HandOut,
        Consumer!Working, SP!Working, Consumer!Waiting, SP!Waiting,
        Consumer!On, SP!On, Consumer!Cardinality, SP!Cardinality,
        Consumer!queueVars, SP!queueVars, Consumer!beatVars, SP!beatVars,
        Consumer!Deliveries, SP!Deliveries
<1>4. ASSUME NEW d \in Consumer!Deliveries
      PROVE  /\ \/ Consumer!Dispatch(d) \/ Consumer!HandlerReturns(d)
                \/ Consumer!HeartbeatStopped(d) \/ Consumer!Delete(d)
                => SP!WorkerStep(d)
             /\ Consumer!HandlerPanics(d) => SP!HandlerPanics(d)
  BY DEF SP!WorkerStep, Consumer!Dispatch, SP!Dispatch,
        Consumer!HandlerReturns, SP!HandlerReturns, Consumer!HandlerPanics,
        SP!HandlerPanics, Consumer!HeartbeatStopped, SP!HeartbeatStopped,
        Consumer!Delete, SP!Delete, Consumer!SetJob, SP!SetJob,
        Consumer!Parses, SP!Parses, Consumer!Message, SP!Message,
        Consumer!Latest, SP!Latest, Consumer!Working, SP!Working,
        Consumer!Waiting, SP!Waiting, Consumer!On, SP!On,
        Consumer!Cardinality, SP!Cardinality, Consumer!queueVars,
        SP!queueVars, Consumer!beatVars, SP!beatVars, Consumer!Deliveries,
        SP!Deliveries
<1>5. ASSUME NEW d \in Consumer!Deliveries
      PROVE  Consumer!HeartbeatStep(d) => SP!HeartbeatStep(d)
  BY DEF Consumer!HeartbeatStep, SP!HeartbeatStep, Consumer!BeatExit,
        SP!BeatExit, Consumer!BeatExtends, SP!BeatExtends, Consumer!BeatFails,
        SP!BeatFails, Consumer!BeatRefused, SP!BeatRefused, Consumer!StopBeat,
        SP!StopBeat, Consumer!Beating, SP!Beating, Consumer!Canceled,
        SP!Canceled, Consumer!Latest, SP!Latest, Consumer!Parses, SP!Parses,
        Consumer!Message, SP!Message, Consumer!queueVars, SP!queueVars,
        Consumer!beatVars, SP!beatVars, Consumer!Deliveries, SP!Deliveries
<1> QED
  BY <1>1, <1>2, <1>3, <1>4, <1>5

LEMMA ConsumerInit == Init => SP!Init
BY DEF Init, Consumer!Init, SP!Init, Consumer!NoPod, SP!NoPod,
      Consumer!Deliveries, SP!Deliveries

LEMMA ConsumerNext == [Next]_vars => [SP!Next]_(SP!vars)
<1> SUFFICES ASSUME [Next]_vars PROVE SP!Next \/ UNCHANGED SP!vars
  OBVIOUS
<1>0. Consumer!Deliveries = SP!Deliveries /\ Deliveries \subseteq SP!Deliveries
  BY Followed
<1>1. CASE UNCHANGED consumerVars
  BY <1>1 DEF consumerVars, SP!vars, SP!queueVars, SP!beatVars
<1>2. CASE UNCHANGED vars
  BY <1>1, <1>2 DEF vars
<1>3. CASE Tick
  BY <1>3, ConsumerSame DEF Tick, SP!Next
<1>4. CASE ConsumerStep
  BY <1>0, <1>4, ConsumerSame DEF ConsumerStep, SP!Next, SP!WorkerStep
<1>5. ASSUME NEW d \in Deliveries,
             Dispatch(d) \/ HandlerReturns(d) \/ HandlerPanics(d)
      PROVE  SP!Next
  BY <1>0, <1>5, ConsumerSame
     DEF Dispatch, HandlerReturns, HandlerPanics, SP!Next
<1>6. ASSUME NEW d \in Deliveries, Overtake(d) \/ HandlerStep(d)
      PROVE  SP!Next \/ UNCHANGED SP!vars
  BY <1>1, <1>6 DEF Overtake, HandlerStep, HandlerOnly
<1>7. ASSUME NEW d \in Consumer!Deliveries, OtherWorker(d)
      PROVE  SP!Next
  BY <1>0, <1>7, ConsumerSame DEF OtherWorker, SP!Next
<1> QED
  BY <1>2, <1>3, <1>4, <1>5, <1>6, <1>7 DEF Next

(* What the parts are proved to keep of themselves. *)
LEMMA PartsInvariant ==
  Spec => [](SP!TypeInv /\ SP!DeleteInv
               /\ EP!TypeInv /\ EP!StoreInv /\ EP!ReportInv)
<1>1. Init => /\ SP!TypeInv /\ SP!DeleteInv
              /\ EP!TypeInv /\ EP!StoreInv /\ EP!ReportInv
  BY ConsumerInit, HandlerInit, ConsumerAssumed, HandlerAssumed, SP!TypeInit,
     SP!DeleteInit, EP!TypeInit, EP!StoreInit, EP!ReportInit
<1>2. /\ SP!TypeInv /\ SP!DeleteInv /\ [Next]_vars
      => SP!TypeInv' /\ SP!DeleteInv'
  BY ConsumerNext, ConsumerAssumed, SP!TypeStep, SP!DeleteStep
<1>3. /\ EP!TypeInv /\ EP!StoreInv /\ EP!ReportInv /\ [Next]_vars
      => EP!TypeInv' /\ EP!StoreInv' /\ EP!ReportInv'
  BY HandlerNext, HandlerAssumed, EP!TypeStep, EP!WhyStep, EP!StoreStep,
     EP!ReportStep DEF EP!TypeInv
<1> QED
  BY <1>1, <1>2, <1>3, PTL DEF Spec


(* The queue, the pods and Process together keep the promise to the sender  *)
(* of every message: at least one receipt, a delete only after a handler's  *)
(* end, a dead letter only after the last receipt.                          *)
THEOREM WholeDeliversAtLeastOnce == Spec => Consumer!ImplementsAtLeastOnce
<1>1. Init => Consumer!Promise!Init
  <2>1. SP!Init => SP!Promise!Init
    BY ConsumerAssumed, SP!PromiseInit
  <2>2. SP!Promise!Init => Consumer!Promise!Init
    BY DEF SP!Promise!Init, Consumer!Promise!Init
  <2> QED
    BY <2>1, <2>2, ConsumerInit
<1>2. SP!TypeInv /\ SP!DeleteInv /\ [Next]_vars
      => [Consumer!Promise!Next]_(Consumer!Promise!vars)
  <2>1. SP!TypeInv /\ SP!DeleteInv /\ [Next]_vars
        => [SP!Promise!Next]_(SP!Promise!vars)
    BY ConsumerAssumed, ConsumerNext, SP!PromiseStep
  <2>2. [SP!Promise!Next]_(SP!Promise!vars)
        => [Consumer!Promise!Next]_(Consumer!Promise!vars)
    BY DEF SP!Promise!Next, Consumer!Promise!Next, SP!Promise!vars,
           Consumer!Promise!vars, SP!Promise!HandOut, Consumer!Promise!HandOut,
           SP!Promise!Finish, Consumer!Promise!Finish, SP!Promise!Delete,
           Consumer!Promise!Delete, SP!Promise!GiveUp, Consumer!Promise!GiveUp
  <2> QED
    BY <2>1, <2>2
<1> QED
  BY <1>1, <1>2, PartsInvariant, PTL
     DEF Spec, Consumer!ImplementsAtLeastOnce, Consumer!Promise!Spec

(* As often as the queue hands the message out, and whatever becomes of its *)
(* pods, readers of the bucket, the table and the slipsheet see a behaviour *)
(* of the ledger.                                                           *)
THEOREM WholeKeepsLedger == Spec => Handler!ImplementsLedger
<1>1. Init => Handler!Ledger!Init
  <2>1. EP!Init => EP!Ledger!Init
    BY HandlerAssumed, EP!LedgerInit
  <2>2. EP!Ledger!Init => Handler!Ledger!Init
    BY DEF EP!Ledger!Init, Handler!Ledger!Init, EP!Storable, Handler!Storable,
           EP!Rejected, Handler!Rejected, EP!Entries, Handler!Entries,
           EP!IsUploaded, Handler!IsUploaded
  <2> QED
    BY <2>1, <2>2, HandlerInit
<1>2. EP!TypeInv /\ EP!StoreInv /\ EP!ReportInv /\ [Next]_vars
      => [Handler!Ledger!Next]_(Handler!Ledger!vars)
  <2>1. EP!TypeInv /\ EP!StoreInv /\ EP!ReportInv /\ [Next]_vars
        => [EP!Ledger!Next]_(EP!Ledger!vars)
    BY HandlerAssumed, HandlerNext, EP!LedgerStep
  <2>2. [EP!Ledger!Next]_(EP!Ledger!vars)
        => [Handler!Ledger!Next]_(Handler!Ledger!vars)
    BY DEF EP!Ledger!Next, Handler!Ledger!Next, EP!Ledger!vars,
           Handler!Ledger!vars, EP!Ledger!Store, Handler!Ledger!Store,
           EP!Ledger!Record, Handler!Ledger!Record, EP!Ledger!Publish,
           Handler!Ledger!Publish, EP!Storable, Handler!Storable,
           EP!Rejected, Handler!Rejected, EP!Entries, Handler!Entries,
           EP!IsUploaded, Handler!IsUploaded
  <2> QED
    BY <2>1, <2>2
<1> QED
  BY <1>1, <1>2, PartsInvariant, PTL
     DEF Spec, Handler!ImplementsLedger, Handler!Ledger!Spec

(* Where the timeout of a heartbeat outlasts the intervals in which calls   *)
(* may fail, a message is not handed out again while its handler, Process,  *)
(* has not answered and a heartbeat has once succeeded: whatever the timing *)
(* of the goroutines and the timeout of a receive (FR-9).                   *)
THEOREM HeldStaysHidden ==
  Visibility > (MaxMissed + 1) * Interval /\ Spec => HeldIsNotHandedOut
<1>1. Visibility > (MaxMissed + 1) * Interval => SP!Outlasting
  BY DEF SP!Outlasting, SP!Slack
<1>2. Init => SP!HeldInv
  BY ConsumerInit, ConsumerAssumed, SP!HeldInit
<1>3. SP!Outlasting /\ SP!HeldInv /\ [Next]_vars => SP!HeldInv'
  BY ConsumerNext, ConsumerAssumed, SP!HeldStep
<1>4. SP!HeldInv /\ [Next]_vars =>
        [\A d \in Consumer!Deliveries :
           held[d] /\ job[d] = "handling" /\ ~term[host[d]] =>
             count'[Consumer!Message(d)]
               = count[Consumer!Message(d)]]_(Consumer!vars)
  <2> SUFFICES ASSUME SP!HeldInv, [Next]_vars, NEW d \in Consumer!Deliveries,
                      held[d], job[d] = "handling", ~term[host[d]]
               PROVE  count'[Consumer!Message(d)] = count[Consumer!Message(d)]
    OBVIOUS
  <2>1. d \in SP!Deliveries /\ SP!Held(d) /\ [SP!Next]_(SP!vars)
    BY ConsumerNext DEF SP!Deliveries, Consumer!Deliveries, SP!Held
  <2>2. count'[SP!Message(d)] = count[SP!Message(d)]
    BY <2>1, ConsumerAssumed, SP!HeldKept
  <2> QED
    BY <2>2 DEF SP!Message, Consumer!Message
<1> QED
  <2>1. SP!Outlasting /\ Spec => []SP!HeldInv
    <3> SUFFICES ASSUME SP!Outlasting PROVE Spec => []SP!HeldInv
      OBVIOUS
    <3>1. SP!HeldInv /\ [Next]_vars => SP!HeldInv'
      BY <1>3
    <3> QED
      BY <1>2, <3>1, PTL DEF Spec
  <2> QED
    BY <1>1, <1>4, <2>1, PTL
       DEF Spec, HeldIsNotHandedOut, Consumer!HeldIsNotHandedOut
-----------------------------------------------------------------------------
(* Deletes and reports                                                      *)

Busy       == Handler!Extracting \cup Handler!Deferred

(* The types the argument needs. *)
Types ==
  /\ queue \in [Messages -> {"visible", "inflight", "deleted", "dead"}]
  /\ count \in [Messages -> Nat]
  /\ term \in [Pods -> BOOLEAN]
  /\ job \in [Consumer!Deliveries -> Consumer!Jobs]
  /\ host \in [Consumer!Deliveries -> Pods \cup {Consumer!NoPod}]
  /\ pc \in [Deliveries -> Handler!PCs]
  /\ live \in [Deliveries -> BOOLEAN]
  /\ status \in [Deliveries -> Handler!Statuses]

(* Where the two components are, seen from one another. *)
PlaceOK ==
  \A d \in Deliveries :
    /\ job[d] # "none" => host[d] \in Pods /\ d[2] <= count[Focus]
    /\ job[d] \in {"none", "batch"} => pc[d] = "waiting"
    /\ pc[d] = "waiting" => live[d]
    /\ job[d] \in {"stopping", "deleting"} /\ Focus \in Valid =>
         pc[d] = "returned"

(* A handler whose root context is done belongs to a pod that got SIGTERM,  *)
(* and one that has returned without a slipsheet has that excuse, or its    *)
(* write failed.                                                            *)
ReportOK ==
  \A d \in Deliveries : job[d] # "gone" =>
    /\ pc[d] \in Busy /\ ~live[d] => term[host[d]]
    /\ pc[d] = "returned" =>
         slip # Handler!NoSlip \/ d \in unwritten \/ term[host[d]]

Inv == Types /\ PlaceOK /\ ReportOK /\ DeletedLeavesReport

LEMMA InvInit == Init => Inv
<1> SUFFICES ASSUME Init PROVE Inv
  OBVIOUS
<1>1. Types
  BY DEF Init, Consumer!Init, Handler!Init, Types, Handler!Statuses,
         Consumer!Jobs, Handler!PCs
<1>2. PlaceOK /\ ReportOK
  BY Followed
     DEF Init, Consumer!Init, Handler!Init, PlaceOK, ReportOK, Busy,
         Handler!Extracting, Handler!Preparing, Handler!PerEntry,
         Handler!Deferred
<1>3. DeletedLeavesReport
  BY Followed DEF Init, Consumer!Init, DeletedLeavesReport
<1> QED
  BY <1>1, <1>2, <1>3 DEF Inv
-----------------------------------------------------------------------------
(* Steps of the handler                                                     *)

(* A step inside Process: it stays there or comes to the deferred write.    *)
Inside(d) ==
  /\ pc[d] \in Handler!Extracting
  /\ \E x \in Busy : pc' = [pc EXCEPT ![d] = x]
  /\ status' \in [Deliveries -> Handler!Statuses]
  /\ UNCHANGED <<live, slip>>

(* The deferred write. *)
Writes(d) ==
  /\ pc[d] \in Handler!Deferred
  /\ \E x \in {"returned", "panicked"} : pc' = [pc EXCEPT ![d] = x]
  /\ live' = [live EXCEPT ![d] = TRUE]
  /\ status' \in [Deliveries -> Handler!Statuses]
  /\ \/ UNCHANGED slip
     \/ /\ live[d]
        /\ slip' = [status |-> status[d], reason |-> reason[d],
                    children |-> entries[d]]

LEMMA Places ==
  /\ \A x \in {"download", "spill", "open", "loop", "upload", "uploading",
               "record", "recording", "classify", "failing", "rejecting"} :
       x \in Handler!Extracting /\ x \in Busy
  /\ \A x \in {"slipsheet", "unwinding"} : x \in Handler!Deferred /\ x \in Busy
  /\ \A x \in {"waiting", "returned", "panicked", "crashed"} : x \notin Busy
  /\ \A x \in Handler!Extracting : x \notin Handler!Deferred
  /\ Handler!Deferred = {"slipsheet", "unwinding"}
  /\ Busy \subseteq Handler!PCs
  /\ {"waiting", "returned", "panicked", "crashed"} \subseteq Handler!PCs
  /\ \A x \in {"SUCCESS", "PARTIAL_FAILED", "FAILED"} : x \in Handler!Statuses
BY DEF Busy, Handler!Extracting, Handler!Preparing, Handler!PerEntry,
       Handler!Deferred, Handler!Ended, Handler!PCs, Handler!Statuses

(* A return sets the status of the archive. *)
LEMMA ReturnInside ==
  ASSUME Types, NEW d \in Deliveries, NEW s \in Handler!Statuses, NEW r,
         pc[d] \in Handler!Extracting, Handler!Return(d, s, r),
         UNCHANGED <<live, slip>>
  PROVE  Inside(d)
BY Places DEF Types, Inside, Handler!Return, Handler!Goto

LEMMA StepInside ==
  ASSUME Types, NEW d \in Deliveries, Handler!Step(d)
  PROVE  Inside(d) \/ Writes(d)
<1> USE Places DEF Handler!stores, Handler!work
<1>1. CASE Handler!DownloadOk(d) \/ Handler!SpillOk(d) \/ Handler!StreamEntry(d)
             \/ Handler!Classify(d)
  BY <1>1 DEF Types, Inside, Handler!Goto, Handler!DownloadOk, Handler!SpillOk,
              Handler!NextEntry, Handler!StreamEntry, Handler!Classify
<1>2. CASE Handler!DownloadFails(d)
  BY <1>2, ReturnInside DEF Handler!DownloadFails
<1>3. CASE Handler!SpillFails(d)
  BY <1>3, ReturnInside DEF Handler!SpillFails
<1>4. CASE Handler!OpenAndCheck(d)
  <2>1. CASE archive.header = "ok"
    BY <1>4, <2>1 DEF Types, Inside, Handler!Goto, Handler!OpenAndCheck
  <2>2. CASE archive.header # "ok"
    BY <1>4, <2>2, ReturnInside DEF Handler!OpenAndCheck
  <2> QED
    BY <2>1, <2>2
<1>5. CASE Handler!Interrupted(d)
  <2>1. \E s \in Handler!Statuses, r \in {"rule10", "drain"} :
          Handler!Return(d, s, r)
    BY <1>5 DEF Handler!Interrupted
  <2> QED
    BY <1>5, <2>1, ReturnInside DEF Handler!Interrupted
<1>6. CASE Handler!RejectEntry(d) \/ Handler!SkipUnreadable(d)
  BY <1>6 DEF Types, Inside, Handler!Goto, Handler!FailWith, Handler!NextEntry,
              Handler!RejectEntry, Handler!SkipUnreadable
<1>7. CASE Handler!Complete(d)
  <2>1. Handler!StatusOf(entries[d]) \in Handler!Statuses
    BY DEF Handler!StatusOf
  <2> QED
    BY <1>7, <2>1, ReturnInside DEF Handler!Complete
<1>8. CASE Handler!UploadHead(d) \/ Handler!RecordHead(d)
  BY <1>8 DEF Types, Inside, Handler!Goto, Handler!FailWith, Handler!DoHead,
              Handler!UploadHead, Handler!RecordHead
<1>9. CASE Handler!UploadOk(d) \/ Handler!RecordOk(d)
  BY <1>9 DEF Types, Inside, Handler!Goto, Handler!DoSucceed, Handler!UploadOk,
              Handler!RecordOk
<1>10. CASE Handler!UploadUnreadable(d)
  BY <1>10 DEF Types, Inside, Handler!Goto, Handler!FailWith, Handler!DoAbort,
               Handler!UploadUnreadable
<1>11. CASE Handler!UploadFails(d) \/ Handler!RecordFails(d)
  BY <1>11 DEF Types, Inside, Handler!Goto, Handler!FailWith, Handler!DoAbort,
               Handler!DoTransient, Handler!UploadFails, Handler!RecordFails
<1>12. CASE Handler!FailEntry(d)
  BY <1>12 DEF Types, Inside, Handler!Goto, Handler!FailEntry
<1>13. CASE Handler!AbortArchive(d)
  BY <1>13, ReturnInside DEF Handler!AbortArchive
<1>14. CASE Handler!WriteSlipsheet(d)
  BY <1>14 DEF Types, Writes, Handler!WriteSlipsheet, Handler!End, Handler!Goto
<1> QED
  BY <1>1, <1>2, <1>3, <1>4, <1>5, <1>6, <1>7, <1>8, <1>9, <1>10, <1>11,
     <1>12, <1>13, <1>14 DEF Handler!Step

(* A report is not the absence of one. *)
LEMMA ReportIsSlip ==
  ASSUME Types, NEW d \in Deliveries
  PROVE  [status |-> status[d], reason |-> reason[d],
          children |-> entries[d]] # Handler!NoSlip
<1>1. status[d] # "none"
  BY DEF Types, Handler!Statuses
<1> QED
  BY <1>1 DEF Handler!NoSlip

(* What only the handler changes, the invariant survives. *)
LEMMA HandlerSide ==
  ASSUME Inv, UNCHANGED consumerVars, Types', NEW d \in Deliveries,
         pc[d] \in Busy, job[d] # "gone",
         \A e \in Deliveries \ {d} : pc'[e] = pc[e] /\ live'[e] = live[e],
         slip # Handler!NoSlip => slip' # Handler!NoSlip,
         unwritten \subseteq unwritten',
         pc'[d] \in Busy /\ ~live'[d] => term[host[d]],
         pc'[d] = "returned" =>
           slip' # Handler!NoSlip \/ d \in unwritten' \/ term[host[d]],
         pc'[d] # "waiting"
  PROVE  Inv'
<1> USE DEF consumerVars
<1>1. PlaceOK'
  BY Places DEF Inv, PlaceOK
<1>2. ReportOK'
  BY DEF Inv, ReportOK
<1>3. DeletedLeavesReport'
  BY DEF Inv, DeletedLeavesReport
<1> QED
  BY <1>1, <1>2, <1>3 DEF Inv

LEMMA HandlerStepInv ==
  ASSUME Inv, NEW d \in Deliveries, HandlerStep(d), ~Orphaned(d)
  PROVE  Inv'
<1> DEFINE report == [status |-> status[d], reason |-> reason[d],
                      children |-> entries[d]]
<1>0. /\ UNCHANGED consumerVars
      /\ unwritten' = IF (pc[d] \in Handler!Deferred /\ live[d])
                           /\ slip' # report
                        THEN unwritten \cup {d} ELSE unwritten
      /\ \/ Handler!Step(d) \/ Handler!Deadline(d) \/ Handler!Panic(d)
  BY DEF HandlerStep, HandlerOnly
<1>1. pc[d] \in Busy => job[d] # "gone"
  BY DEF Orphaned, Running, Busy
<1> USE DEF Inv, Types, consumerVars
<1>2. CASE Inside(d) \/ Handler!Panic(d) \/ Handler!Deadline(d)
  <2>1. /\ pc[d] \in Busy /\ pc'[d] \in Busy /\ pc'[d] # "returned"
        /\ pc'[d] # "waiting"
        /\ UNCHANGED <<live, slip>>
        /\ \A e \in Deliveries \ {d} : pc'[e] = pc[e]
    BY <1>2, Places DEF Inside, Handler!Panic, Handler!Deadline, Handler!Goto,
                        Handler!stores, Busy
  <2>2. Types'
    BY <1>0, <1>2, Places DEF Inside, Handler!Panic, Handler!Deadline,
                              Handler!Goto, Handler!work
  <2>3. ~live[d] => term[host[d]]
    BY <1>1, <2>1 DEF ReportOK
  <2> QED
    BY <1>0, <1>1, <2>1, <2>2, <2>3, HandlerSide
<1>3. CASE Writes(d)
  <2>1. /\ pc[d] \in Busy /\ pc'[d] \notin Busy /\ pc'[d] # "waiting"
        /\ \A e \in Deliveries \ {d} : pc'[e] = pc[e] /\ live'[e] = live[e]
    BY <1>3, Places DEF Writes, Busy
  <2>2. Types'
    BY <1>0, <1>3, Places DEF Writes
  <2>3. slip # Handler!NoSlip => slip' # Handler!NoSlip
    BY <1>3, ReportIsSlip DEF Writes
  <2>4. slip' # Handler!NoSlip \/ d \in unwritten' \/ term[host[d]]
    <3>1. CASE ~live[d]
      BY <1>1, <2>1, <3>1 DEF ReportOK
    <3>2. CASE live[d] /\ slip' = report
      BY <3>2, ReportIsSlip
    <3>3. CASE live[d] /\ slip' # report
      BY <1>0, <1>3, <3>3 DEF Writes
    <3> QED
      BY <3>1, <3>2, <3>3
  <2> QED
    BY <1>0, <1>1, <2>1, <2>2, <2>3, <2>4, HandlerSide
<1> QED
  BY <1>0, <1>2, <1>3, StepInside

(* SIGTERM, or the end of the process, comes over a handler. *)
LEMMA OvertakeInv ==
  ASSUME Inv, NEW d \in Deliveries, Overtake(d)
  PROVE  Inv'
<1> USE DEF Inv, Types, consumerVars, HandlerOnly, history
<1>1. CASE Orphaned(d) /\ Handler!Crash(d)
  <2>1. /\ pc' = [pc EXCEPT ![d] = "crashed"]
        /\ live' = [live EXCEPT ![d] = TRUE]
        /\ status' = [status EXCEPT ![d] = "FAILED"]
        /\ UNCHANGED slip
    BY <1>1 DEF Handler!Crash, Handler!End, Handler!Goto, Handler!stores
  <2>2. Types' /\ UNCHANGED <<consumerVars, unwritten>>
    BY <2>1, Places DEF Overtake
  <2>3. job[d] = "gone"
    BY <1>1 DEF Orphaned
  <2>4. PlaceOK' /\ ReportOK' /\ DeletedLeavesReport'
    BY <2>1, <2>2, <2>3 DEF PlaceOK, ReportOK, DeletedLeavesReport
  <2> QED
    BY <2>2, <2>4
<1>2. CASE Overtaken(d) /\ Handler!Drain(d)
  <2>1. /\ live' = [live EXCEPT ![d] = FALSE]
        /\ UNCHANGED <<pc, status, slip>>
    BY <1>2 DEF Handler!Drain, Handler!work, Handler!stores
  <2>2. Types' /\ UNCHANGED <<consumerVars, unwritten>>
    BY <2>1 DEF Overtake
  <2>3. pc[d] \in Busy /\ job[d] # "gone" /\ term[host[d]]
    BY <1>2 DEF Overtaken, Running, Busy
  <2>4. pc[d] # "returned" /\ pc[d] # "waiting"
    BY <2>3, Places
  <2> QED
    BY <2>1, <2>2, <2>3, <2>4, HandlerSide
<1> QED
  BY <1>1, <1>2 DEF Overtake
-----------------------------------------------------------------------------
(* Steps of the consumer                                                    *)

(* A delivery that was given out keeps its host, and what a job may become  *)
(* while the handler does not move.                                         *)
DeliveryKept(d) ==
  /\ job[d] # "none" => host'[d] = host[d]
  /\ job'[d] # "none" => host'[d] \in Pods /\ d[2] <= count'[Focus]
  /\ job'[d] \in {"none", "batch"} => job[d] \in {"none", "batch"}
  /\ job[d] = "gone" => job'[d] = "gone"
  /\ job'[d] \in {"stopping", "deleting"} /\ Focus \in Valid =>
       job[d] \in {"stopping", "deleting"} \/ pc[d] = "returned"

(* Only a worker that has come to the delete, in a pod without SIGTERM,     *)
(* deletes.                                                                 *)
MessageKept ==
  queue'[Focus] = "deleted" /\ queue[Focus] # "deleted" =>
    \E d \in Deliveries : job[d] = "deleting" /\ ~term[host[d]]

LEMMA ConsumerSide ==
  ASSUME Inv, ConsumerOnly, Types',
         \A p \in Pods : term[p] => term'[p],
         \A d \in Deliveries : DeliveryKept(d), MessageKept
  PROVE  Inv'
<1> USE DEF ConsumerOnly, handlerVars, history, DeliveryKept
<1>1. PlaceOK'
  BY DEF Inv, PlaceOK
<1>2. ReportOK'
  <2> SUFFICES ASSUME NEW d \in Deliveries, job'[d] # "gone"
               PROVE  /\ pc[d] \in Busy /\ ~live[d] => term'[host'[d]]
                      /\ pc[d] = "returned" => \/ slip # Handler!NoSlip
                                               \/ d \in unwritten
                                               \/ term'[host'[d]]
    BY DEF ReportOK
  <2>1. CASE job[d] = "none"
    <3>1. pc[d] = "waiting"
      BY <2>1 DEF Inv, PlaceOK
    <3> QED
      BY <3>1, Places
  <2>2. CASE job[d] # "none"
    <3>1. host[d] \in Pods /\ host'[d] = host[d] /\ job[d] # "gone"
      BY <2>2 DEF Inv, PlaceOK
    <3>2. term[host[d]] => term'[host'[d]]
      BY <3>1
    <3> QED
      BY <3>1, <3>2 DEF Inv, ReportOK
  <2> QED
    BY <2>1, <2>2
<1>3. DeletedLeavesReport'
  <2> SUFFICES ASSUME Focus \in Valid, queue'[Focus] = "deleted"
               PROVE  slip # Handler!NoSlip \/ unwritten # {}
    BY DEF DeletedLeavesReport
  <2>1. CASE queue[Focus] = "deleted"
    BY <2>1 DEF Inv, DeletedLeavesReport
  <2>2. CASE queue[Focus] # "deleted"
    <3>1. PICK d \in Deliveries : job[d] = "deleting" /\ ~term[host[d]]
      BY <2>2 DEF MessageKept
    <3>2. pc[d] = "returned"
      BY <3>1 DEF Inv, PlaceOK
    <3> QED
      BY <3>1, <3>2 DEF Inv, ReportOK
  <2> QED
    BY <2>1, <2>2
<1> QED
  BY <1>1, <1>2, <1>3 DEF Inv

(* Messages that are handed out: a delivery of Focus among them is new. *)
LEMMA HandOutFacts ==
  ASSUME Inv, NEW S \in SUBSET Messages, Consumer!HandOut(S)
  PROVE  /\ queue' \in [Messages -> {"visible", "inflight", "deleted", "dead"}]
         /\ count' \in [Messages -> Nat]
         /\ count'[Focus] >= count[Focus]
         /\ queue'[Focus] = "deleted" => queue[Focus] = "deleted"
         /\ \A d \in Deliveries : d \in {<<m, count[m] + 1>> : m \in S} =>
              /\ Focus \in S /\ d[2] = count[Focus] + 1
              /\ job[d] = "none" /\ d[2] = count'[Focus]
<1> USE Followed DEF Inv, Types, Consumer!HandOut
<1>1. ASSUME NEW d \in Deliveries, d \in {<<m, count[m] + 1>> : m \in S}
      PROVE  /\ Focus \in S /\ d[2] = count[Focus] + 1
             /\ job[d] = "none" /\ d[2] = count'[Focus]
  <2>1. PICK m \in S : d = <<m, count[m] + 1>>
    BY <1>1
  <2>2. m = Focus /\ d[2] = count[m] + 1 /\ count[m] \in Nat
    BY <2>1
  <2>3. count'[Focus] = count[Focus] + 1
    BY <2>2
  <2> QED
    BY <2>2, <2>3 DEF PlaceOK
<1>2. /\ queue' \in [Messages -> {"visible", "inflight", "deleted", "dead"}]
      /\ queue'[Focus] = "deleted" => queue[Focus] = "deleted"
  OBVIOUS
<1>3. count' \in [Messages -> Nat] /\ count'[Focus] >= count[Focus]
  OBVIOUS
<1> QED
  BY <1>1, <1>2, <1>3

LEMMA ReceiveInv ==
  ASSUME Inv, ConsumerOnly, NEW p \in Pods,
         Consumer!Receive(p) \/ Consumer!ReceiveLost(p)
  PROVE  Inv'
<1> USE DEF Inv, Types, ConsumerOnly, handlerVars, history, Consumer!beatVars
<1>1. PICK S \in SUBSET Messages :
        /\ Consumer!HandOut(S)
        /\ \/ UNCHANGED <<job, host>>
           \/ LET new == {<<m, count[m] + 1>> : m \in S}
              IN /\ job' = [d \in Consumer!Deliveries |->
                              IF d \in new THEN "batch" ELSE job[d]]
                 /\ host' = [d \in Consumer!Deliveries |->
                               IF d \in new THEN p ELSE host[d]]
  BY DEF Consumer!Receive, Consumer!ReceiveLost
<1>2. UNCHANGED term
  BY DEF Consumer!Receive, Consumer!ReceiveLost
<1>3. \A d \in Deliveries :
        \/ job'[d] = job[d] /\ host'[d] = host[d]
        \/ /\ job[d] = "none" /\ d[2] = count'[Focus]
           /\ job'[d] = "batch" /\ host'[d] = p
  <2> DEFINE new == {<<m, count[m] + 1>> : m \in S}
  <2>1. \A d \in Deliveries : d \in new => job[d] = "none" /\ d[2] = count'[Focus]
    BY <1>1, HandOutFacts
  <2>2. \/ UNCHANGED <<job, host>>
        \/ /\ job' = [d \in Consumer!Deliveries |->
                        IF d \in new THEN "batch" ELSE job[d]]
           /\ host' = [d \in Consumer!Deliveries |->
                         IF d \in new THEN p ELSE host[d]]
    BY <1>1
  <2> HIDE DEF new
  <2> QED
    BY <2>1, <2>2, Followed
<1>4. Types'
  <2>1. /\ job' \in [Consumer!Deliveries -> Consumer!Jobs]
        /\ host' \in [Consumer!Deliveries -> Pods \cup {Consumer!NoPod}]
    BY <1>1 DEF Consumer!Jobs
  <2> QED
    BY <1>1, <1>2, <2>1, HandOutFacts
<1>5. \A d \in Deliveries : job[d] # "none" => d[2] <= count'[Focus]
  <2>1. \A d \in Deliveries : d[2] \in Nat /\ (job[d] # "none" => d[2] <= count[Focus])
    BY Followed DEF PlaceOK
  <2>2. /\ count[Focus] \in Nat /\ count'[Focus] \in Nat
        /\ count'[Focus] >= count[Focus]
    BY <1>1, HandOutFacts, Followed
  <2> QED
    BY <2>1, <2>2
<1>6. ASSUME NEW d \in Deliveries
      PROVE  DeliveryKept(d)
  <2>1. CASE job'[d] = job[d] /\ host'[d] = host[d]
    BY <1>5, <2>1 DEF DeliveryKept, PlaceOK
  <2>2. CASE /\ job[d] = "none" /\ d[2] = count'[Focus]
             /\ job'[d] = "batch" /\ host'[d] = p
    BY <2>2, Followed DEF DeliveryKept
  <2> QED
    BY <1>3, <2>1, <2>2
<1>7. MessageKept
  BY <1>1, HandOutFacts DEF MessageKept
<1> QED
  BY <1>2, <1>4, <1>6, <1>7, ConsumerSide
-----------------------------------------------------------------------------

(* Steps that leave every delivery of Focus where it is.                    *)
LEMMA JobsStay ==
  ASSUME Inv, ConsumerOnly, Types', count'[Focus] = count[Focus],
         \A d \in Deliveries : job'[d] = job[d] /\ host'[d] = host[d],
         \A p \in Pods : term[p] => term'[p],
         queue'[Focus] = "deleted" => queue[Focus] = "deleted"
  PROVE  Inv'
<1>1. \A d \in Deliveries : DeliveryKept(d)
  BY DEF Inv, PlaceOK, DeliveryKept
<1>2. MessageKept
  BY DEF MessageKept
<1> QED
  BY <1>1, <1>2, ConsumerSide

(* A worker goes on. *)
LEMMA OneJob ==
  ASSUME Inv, ConsumerOnly, UNCHANGED <<count, host, term>>,
         NEW d \in Consumer!Deliveries, job[d] \notin {"none", "gone"},
         NEW j \in Consumer!Jobs \ {"none", "batch"}, Consumer!SetJob(d, j),
         d \in Deliveries /\ j \in {"stopping", "deleting"} /\ Focus \in Valid =>
           job[d] \in {"stopping", "deleting"} \/ pc[d] = "returned",
         queue' \in [Messages -> {"visible", "inflight", "deleted", "dead"}],
         MessageKept
  PROVE  Inv'
<1> USE DEF Consumer!SetJob
<1>1. Types'
  BY DEF Inv, Types, ConsumerOnly, handlerVars
<1>2. ASSUME NEW e \in Deliveries
      PROVE  DeliveryKept(e)
  <2>0. e \in Consumer!Deliveries
    BY Followed
  <2>1. CASE e = d
    BY <2>0, <2>1 DEF Inv, Types, PlaceOK, DeliveryKept
  <2>2. CASE e # d
    BY <2>0, <2>2 DEF Inv, Types, PlaceOK, DeliveryKept
  <2> QED
    BY <2>1, <2>2
<1> QED
  BY <1>1, <1>2, ConsumerSide

LEMMA PodEndsInv ==
  ASSUME Inv, ConsumerOnly, NEW p \in Pods, Consumer!PodEnds(p)
  PROVE  Inv'
<1> USE DEF Inv, Types, Consumer!PodEnds, Consumer!queueVars
<1>1. job' = [d \in Consumer!Deliveries |->
                IF d \in Consumer!On(p) THEN "gone" ELSE job[d]]
  OBVIOUS
<1>2. job' \in [Consumer!Deliveries -> Consumer!Jobs]
  BY <1>1 DEF Consumer!Jobs
<1>3. Types'
  BY <1>2 DEF ConsumerOnly, handlerVars
<1>4. ASSUME NEW d \in Deliveries
      PROVE  DeliveryKept(d)
  <2>1. job'[d] = job[d] \/ (job'[d] = "gone" /\ job[d] # "none")
    BY <1>1, Followed DEF Consumer!On
  <2> QED
    BY <2>1 DEF PlaceOK, DeliveryKept
<1>5. MessageKept
  BY DEF MessageKept
<1> QED
  BY <1>3, <1>4, <1>5, ConsumerSide

LEMMA DeleteInv ==
  ASSUME Inv, ConsumerOnly, NEW d \in Consumer!Deliveries, Consumer!Delete(d)
  PROVE  Inv'
<1> USE DEF Consumer!Delete, Consumer!Message
<1>1. d[1] \in Messages /\ Focus \in Messages
  BY Followed
<1>2. PICK j \in {"gone", "leaving"} : Consumer!SetJob(d, j)
  OBVIOUS
<1>3. j \in Consumer!Jobs \ {"none", "batch"}
  BY DEF Consumer!Jobs
<1>4. queue' \in [Messages -> {"visible", "inflight", "deleted", "dead"}]
  BY <1>1 DEF Inv, Types
<1>5. MessageKept
  <2>1. CASE d \in Deliveries
    BY <1>1, <2>1 DEF Inv, Types, MessageKept
  <2>2. CASE d \notin Deliveries
    <3>1. d[1] # Focus
      BY <2>2, Followed
    <3> QED
      BY <1>1, <3>1 DEF Inv, Types, MessageKept
  <2> QED
    BY <2>1, <2>2
<1> QED
  BY <1>2, <1>3, <1>4, <1>5, OneJob

(* A heartbeat, a pod or the redrive policy, where no delivery moves.       *)
LEMMA QuietStep ==
  ASSUME Inv, ConsumerOnly, UNCHANGED <<count, job, host>>,
         queue' \in [Messages -> {"visible", "inflight", "deleted", "dead"}],
         term' \in [Pods -> BOOLEAN],
         \A p \in Pods : term[p] => term'[p],
         \A m \in Messages : queue'[m] = "deleted" => queue[m] = "deleted"
  PROVE  Inv'
<1>1. Types'
  BY DEF Inv, Types, ConsumerOnly, handlerVars
<1> QED
  BY <1>1, Followed, JobsStay

LEMMA ConsumerStepInv ==
  ASSUME Inv, ConsumerStep
  PROVE  Inv'
<1> USE DEF ConsumerStep, Consumer!queueVars, Consumer!beatVars
<1>0. ConsumerOnly
  OBVIOUS
<1>t. /\ queue \in [Messages -> {"visible", "inflight", "deleted", "dead"}]
      /\ term \in [Pods -> BOOLEAN]
  BY DEF Inv, Types
<1>1. CASE \E m \in Messages : Consumer!DeadLetter(m)
  <2>1. PICK m \in Messages : Consumer!DeadLetter(m)
    BY <1>1
  <2> QED
    BY <1>0, <1>t, <2>1, QuietStep DEF Consumer!DeadLetter
<1>2. CASE \E p \in Pods : Consumer!RunStep(p) \/ Consumer!PodFault(p)
  <2>1. PICK p \in Pods : Consumer!RunStep(p) \/ Consumer!PodFault(p)
    BY <1>2
  <2>2. CASE Consumer!Receive(p) \/ Consumer!ReceiveLost(p)
    BY <1>0, <2>2, ReceiveInv
  <2>3. CASE Consumer!BatchDone(p) \/ Consumer!ReceiveTimesOut(p)
               \/ Consumer!StartDrain(p)
    BY <1>0, <1>t, <2>3, QuietStep
       DEF Consumer!BatchDone, Consumer!ReceiveTimesOut, Consumer!StartDrain
  <2>4. CASE Consumer!DrainDone(p) \/ Consumer!DrainDeadline(p)
               \/ Consumer!Crash(p)
    BY <1>0, <2>4, PodEndsInv
       DEF Consumer!DrainDone, Consumer!DrainDeadline, Consumer!Crash
  <2>5. CASE Consumer!Sigterm(p)
    BY <1>0, <1>t, <2>5, QuietStep DEF Consumer!Sigterm
  <2> QED
    BY <2>1, <2>2, <2>3, <2>4, <2>5 DEF Consumer!RunStep, Consumer!PodFault
<1>3. CASE \E d \in Consumer!Deliveries : \/ Consumer!HeartbeatStopped(d)
                                \/ Consumer!Delete(d)
                                \/ Consumer!HeartbeatStep(d)
  <2>1. PICK d \in Consumer!Deliveries : \/ Consumer!HeartbeatStopped(d)
                               \/ Consumer!Delete(d)
                               \/ Consumer!HeartbeatStep(d)
    BY <1>3
  <2>2. CASE Consumer!HeartbeatStopped(d)
    <3>1. MessageKept
      BY <2>2 DEF Consumer!HeartbeatStopped, MessageKept
    <3> QED
      BY <1>0, <1>t, <2>2, <3>1, OneJob
         DEF Consumer!HeartbeatStopped, Consumer!Jobs
  <2>3. CASE Consumer!Delete(d)
    BY <1>0, <2>3, DeleteInv
  <2>4. CASE Consumer!HeartbeatStep(d)
    BY <1>0, <1>t, <2>4, QuietStep
       DEF Consumer!HeartbeatStep, Consumer!BeatExit, Consumer!BeatExtends,
           Consumer!BeatFails, Consumer!BeatRefused, Consumer!StopBeat
  <2> QED
    BY <2>1, <2>2, <2>3, <2>4
<1> QED
  BY <1>1, <1>2, <1>3
-----------------------------------------------------------------------------
(* Steps of both                                                            *)

LEMMA DispatchInv ==
  ASSUME Inv, NEW d \in Deliveries, Dispatch(d)
  PROVE  Inv'
<1> USE DEF Inv, Types, Consumer!queueVars, history
<1>1. PICK j \in {"handling", "deleting"} :
        /\ job' = [job EXCEPT ![d] = j]
        /\ j = "deleting" => Focus \notin Valid
  BY Followed DEF Dispatch, Consumer!Dispatch, Consumer!SetJob,
                  Consumer!Parses, Consumer!Message
<1>2. /\ job[d] = "batch"
      /\ UNCHANGED <<queue, count, term, host, unwritten>>
  BY DEF Dispatch, Consumer!Dispatch
<1>3. /\ \/ UNCHANGED pc
         \/ pc[d] = "waiting" /\ pc' = [pc EXCEPT ![d] = "download"]
      /\ UNCHANGED <<live, status, slip>>
  BY DEF Dispatch, handlerVars, Handler!Begin, Handler!Goto, Handler!work,
         Handler!stores
<1>4. pc[d] = "waiting" /\ live[d]
  BY <1>2 DEF PlaceOK
<1>d. Deliveries \subseteq Consumer!Deliveries
  BY Followed
<1>5. Types'
  BY <1>1, <1>2, <1>3, Places DEF Consumer!Jobs
<1>6. PlaceOK'
  <2> SUFFICES ASSUME NEW e \in Deliveries
               PROVE  /\ job'[e] # "none" =>
                           host'[e] \in Pods /\ e[2] <= count'[Focus]
                      /\ job'[e] \in {"none", "batch"} => pc'[e] = "waiting"
                      /\ pc'[e] = "waiting" => live'[e]
                      /\ job'[e] \in {"stopping", "deleting"}
                           /\ Focus \in Valid => pc'[e] = "returned"
    BY DEF PlaceOK
  <2>1. CASE e = d
    BY <1>d, <1>1, <1>2, <1>3, <1>4, <2>1 DEF PlaceOK
  <2>2. CASE e # d
    BY <1>d, <1>1, <1>2, <1>3, <2>2 DEF PlaceOK
  <2> QED
    BY <2>1, <2>2
<1>7. ReportOK'
  <2> SUFFICES ASSUME NEW e \in Deliveries, job'[e] # "gone"
               PROVE  /\ pc'[e] \in Busy /\ ~live'[e] => term'[host'[e]]
                      /\ pc'[e] = "returned" => \/ slip' # Handler!NoSlip
                                                \/ e \in unwritten'
                                                \/ term'[host'[e]]
    BY DEF ReportOK
  <2>1. CASE e = d
    BY <1>3, <1>4, <2>1
  <2>2. CASE e # d
    BY <1>d, <1>1, <1>2, <1>3, <2>2 DEF ReportOK
  <2> QED
    BY <2>1, <2>2
<1>8. DeletedLeavesReport'
  BY <1>2, <1>3 DEF DeletedLeavesReport
<1> QED
  BY <1>5, <1>6, <1>7, <1>8

LEMMA AnswerInv ==
  ASSUME Inv, NEW d \in Deliveries, HandlerReturns(d) \/ HandlerPanics(d)
  PROVE  Inv'
<1> USE DEF Consumer!queueVars, Consumer!SetJob
<1>1. /\ ConsumerOnly /\ job[d] = "handling"
      /\ UNCHANGED <<queue, count, term, host>>
  BY DEF HandlerReturns, HandlerPanics, Consumer!HandlerReturns,
         Consumer!HandlerPanics
<1>2. PICK j \in {"stopping", "gone"} :
        /\ Consumer!SetJob(d, j)
        /\ j = "stopping" => pc[d] = "returned"
  <2>1. CASE HandlerReturns(d)
    <3>1. job' = [job EXCEPT ![d] = "stopping"]
            \/ job' = [job EXCEPT ![d] = "leaving"]
      BY <2>1 DEF HandlerReturns, Consumer!HandlerReturns
    <3>2. job'[d] = "stopping" /\ pc[d] = "returned"
      BY <2>1 DEF HandlerReturns
    <3> QED
      BY <3>1, <3>2 DEF Inv, Types
  <2>2. CASE HandlerPanics(d)
    BY <2>2 DEF HandlerPanics, Consumer!HandlerPanics
  <2> QED
    BY <2>1, <2>2
<1>3. j \in Consumer!Jobs \ {"none", "batch"}
  BY DEF Consumer!Jobs
<1>4. MessageKept
  BY <1>1 DEF MessageKept
<1>5. queue' \in [Messages -> {"visible", "inflight", "deleted", "dead"}]
  BY <1>1 DEF Inv, Types
<1> QED
  BY <1>1, <1>2, <1>3, <1>4, <1>5, Followed, OneJob

(* The worker of another message.                                           *)
LEMMA OtherWorkerInv ==
  ASSUME Inv, NEW d \in Consumer!Deliveries \ Deliveries, OtherWorker(d)
  PROVE  Inv'
<1>1. /\ ConsumerOnly /\ UNCHANGED <<queue, count, host, term>>
      /\ job[d] \in {"batch", "handling"}
      /\ \E j \in {"handling", "deleting", "stopping", "leaving", "gone"} :
           Consumer!SetJob(d, j)
  BY DEF OtherWorker, Consumer!Dispatch, Consumer!HandlerReturns,
         Consumer!HandlerPanics, Consumer!queueVars
<1>2. PICK j \in Consumer!Jobs \ {"none", "batch"} : Consumer!SetJob(d, j)
  BY <1>1 DEF Consumer!Jobs
<1>3. MessageKept
  BY <1>1 DEF MessageKept
<1>4. queue' \in [Messages -> {"visible", "inflight", "deleted", "dead"}]
  BY <1>1 DEF Inv, Types
<1> QED
  BY <1>1, <1>2, <1>3, <1>4, OneJob

LEMMA TickInv ==
  ASSUME Inv, Tick
  PROVE  Inv'
<1>1. ConsumerOnly /\ Consumer!Elapse
  BY DEF Tick, Consumer!Tick
<1>2. /\ UNCHANGED <<count, job, host, term>>
      /\ queue' \in [Messages -> {"visible", "inflight", "deleted", "dead"}]
      /\ \A m \in Messages : queue'[m] = "deleted" => queue[m] = "deleted"
  BY <1>1 DEF Consumer!Elapse, Inv, Types
<1> QED
  BY <1>1, <1>2, QuietStep DEF Inv, Types
-----------------------------------------------------------------------------
LEMMA InvNext == Inv /\ [Next]_vars => Inv'
<1> SUFFICES ASSUME Inv, [Next]_vars
             PROVE  Inv'
  OBVIOUS
<1>1. CASE \E d \in Deliveries : Overtake(d)
  BY <1>1, OvertakeInv
<1>2. CASE Tick
  BY <1>2, TickInv
<1>3. CASE ConsumerStep
  BY <1>3, ConsumerStepInv
<1>4. ASSUME NEW d \in Deliveries, ~Orphaned(d),
             \/ Dispatch(d) \/ HandlerStep(d)
             \/ HandlerReturns(d) \/ HandlerPanics(d)
      PROVE  Inv'
  BY <1>4, DispatchInv, HandlerStepInv, AnswerInv
<1>5. CASE UNCHANGED vars
  BY <1>5 DEF vars, consumerVars, handlerVars, history, Inv, Types, PlaceOK,
              ReportOK, DeletedLeavesReport
<1>6. ASSUME NEW d \in Consumer!Deliveries \ Deliveries, OtherWorker(d)
      PROVE  Inv'
  BY <1>6, OtherWorkerInv
<1> QED
  BY <1>1, <1>2, <1>3, <1>4, <1>5, <1>6 DEF Next

(* In every state of every instance a valid message that was deleted has    *)
(* left a slipsheet, or one of its handlers wrote it in vain although its   *)
(* context was live (BR-SLIP-002): whatever drains, crashes, panics,        *)
(* overlapping receipts and lost calls there were.                          *)
THEOREM DeletedLeaves == Spec => []DeletedLeavesReport
<1>1. Spec => []Inv
  BY InvInit, InvNext, PTL DEF Spec
<1>2. Inv => DeletedLeavesReport
  BY DEF Inv
<1> QED
  BY <1>1, <1>2, PTL
-----------------------------------------------------------------------------
(* Goroutines that can run do so within a tick, and the visibility a        *)
(* heartbeat asks for outlasts the intervals in which its calls may fail:   *)
(* as deployed, where it is ten intervals, and in the runs.                 *)
Timely == Prompt /\ Visibility > Slack

(* A worker that began in time has the message. *)
Active(d) ==
  d \notin late /\ job[d] \in {"handling", "stopping", "leaving", "deleting"}

(* The ticks in which the heartbeat of d may still fail to extend.          *)
Reserve(d) ==
  (IF due[d] THEN 0 ELSE Interval - (age[d] % Interval))
    + (MaxMissed - missed[d]) * Interval

(* The types the argument needs, from those of the consumer.                *)
TimeTypes ==
  /\ left \in [Messages -> Nat]
  /\ queue \in [Messages -> {"visible", "inflight", "deleted", "dead"}]
  /\ job \in [Consumer!Deliveries -> Consumer!Jobs]
  /\ beat \in [Consumer!Deliveries -> BOOLEAN]
  /\ age \in [Consumer!Deliveries -> Nat]
  /\ due \in [Consumer!Deliveries -> BOOLEAN]
  /\ missed \in [Consumer!Deliveries -> 0..MaxMissed]
  /\ queue[Focus] = "inflight" => left[Focus] > 0

(* What is active is the latest receipt, and nobody else can get the        *)
(* message.  Only a worker that began late deletes it under a handler.      *)
ActiveOK(d) ==
  Active(d) =>
    /\ count[Focus] = d[2]
    /\ queue[Focus] \in {"inflight", "deleted"}
    /\ job[d] = "handling" /\ late = {} => queue[Focus] = "inflight"

PlacedOK(d) == pc[d] \in Busy => job[d] \in {"handling", "gone"}

(* The visibility that is left covers the heartbeats to come.               *)
BeatOK(d) ==
  /\ job[d] \in {"none", "batch"} =>
       ~beat[d] /\ age[d] = 0 /\ ~due[d] /\ missed[d] = 0
  /\ due[d] => age[d] % Interval = 0
  /\ Active(d) /\ job[d] = "handling" /\ ~term[host[d]]
       /\ queue[Focus] = "inflight" =>
         beat[d] /\ left[Focus] > Reserve(d)

(* As long as nobody began late: a handler that has returned is the author  *)
(* of the slipsheet, or has an excuse.                                      *)
AuthorOK(d) ==
  late = {} /\ pc[d] = "returned" /\ job[d] # "gone" =>
    author = d \/ d \in unwritten \/ term[host[d]]

DeliveryOK(d) == ActiveOK(d) /\ PlacedOK(d) /\ BeatOK(d) /\ AuthorOK(d)

(* What a step keeps, next to Inv and the types.                            *)
Kept == (\A d \in Deliveries : DeliveryOK(d)) /\ DeletedIsReported

TimelyInv == Timely /\ Inv /\ SP!TypeInv /\ TimeTypes /\ Kept

LEMMA ConsumerTypes == SP!TypeInv => TimeTypes
<1>1. SP!Jobs = Consumer!Jobs /\ SP!LongestVisibility \in Nat
  BY ConsumerAssumed, SP!VisibilityPositive DEF SP!Jobs, Consumer!Jobs
<1> QED
  BY <1>1, Followed, ConsumerAssumed
     DEF SP!TypeInv, SP!TypeOK, SP!LeftOK, TimeTypes, SP!ConsumerAssumption

-----------------------------------------------------------------------------
(* Arithmetic *)
LEMMA Budget ==
  /\ Interval \in Nat \ {0} /\ MaxMissed \in Nat /\ Visibility \in Nat
  /\ Slack = Interval + MaxMissed * Interval
  /\ \A k \in 0..MaxMissed :
       /\ (MaxMissed - k) * Interval \in Nat
       /\ (MaxMissed - k) * Interval <= MaxMissed * Interval
  /\ \A k \in 0..MaxMissed : k < MaxMissed =>
       (MaxMissed - k) * Interval = Interval + (MaxMissed - (k + 1)) * Interval
<1>1. Interval \in Nat \ {0} /\ MaxMissed \in Nat /\ Visibility \in Nat
  BY PipelineAssumption DEF Consumer!ConsumerAssumption
<1>2. \A x, y \in Nat : x * y \in Nat
  OBVIOUS
<1>3. \A x, y \in Int : (x + 1) * y = y + x * y
  OBVIOUS
<1>4. Slack = Interval + MaxMissed * Interval
  BY <1>1, <1>3 DEF Slack
<1>5. ASSUME NEW k \in 0..MaxMissed
      PROVE  /\ (MaxMissed - k) * Interval \in Nat
             /\ (MaxMissed - k) * Interval <= MaxMissed * Interval
             /\ k < MaxMissed =>
                (MaxMissed - k) * Interval = Interval + (MaxMissed - (k + 1)) * Interval
  <2>1. MaxMissed - k \in Nat /\ MaxMissed - (k + 1) \in Int
        /\ MaxMissed - k = (MaxMissed - (k + 1)) + 1 /\ k \in Nat
    BY <1>1
  <2>2. (MaxMissed - k) * Interval \in Nat
    BY <1>1, <1>2, <2>1
  <2>3. (MaxMissed - k) * Interval = Interval + (MaxMissed - (k + 1)) * Interval
    BY <1>1, <1>3, <2>1
  <2>4. (MaxMissed - k) * Interval <= MaxMissed * Interval
    <3>1. \A x, y, z \in Int : (x - y) * z = x * z - y * z
      OBVIOUS
    <3>2. k * Interval \in Nat /\ MaxMissed * Interval \in Nat
      BY <1>1, <1>2, <2>1
    <3> QED
      BY <1>1, <2>1, <3>1, <3>2
  <2> QED
    BY <2>2, <2>3, <2>4
<1> QED
  BY <1>1, <1>4, <1>5

(* The reserve of a heartbeat, just started, and as time and calls pass.    *)
LEMMA ReserveFacts ==
  ASSUME TimeTypes, NEW d \in Deliveries, due[d] => age[d] % Interval = 0
  PROVE  /\ Reserve(d) \in Nat /\ Reserve(d) <= Slack
         /\ ~due[d] => Reserve(d) > 0
         /\ due[d] => Reserve(d) = (MaxMissed - missed[d]) * Interval
         /\ ~due[d] /\ age[d] % Interval = 0 =>
              Reserve(d) = Interval + (MaxMissed - missed[d]) * Interval
<1> DEFINE c == (MaxMissed - missed[d]) * Interval
           r == age[d] % Interval
           f == MaxMissed * Interval
<1>0. d \in Consumer!Deliveries
  BY Followed
<1>1. c \in Nat /\ c <= f /\ Slack = Interval + f /\ f \in Nat
  <2>1. missed[d] \in 0..MaxMissed /\ 0 \in 0..MaxMissed /\ MaxMissed - 0 = MaxMissed
    BY <1>0, Budget DEF TimeTypes
  <2> QED
    BY <2>1, Budget
<1>2. r \in 0..(Interval - 1)
  BY <1>0, Budget, ConsumerAssumed, SP!NextRemainder DEF TimeTypes
<1>3. Reserve(d) = (IF due[d] THEN 0 ELSE Interval - r) + c
  BY DEF Reserve
<1>4. due[d] \in BOOLEAN
  BY <1>0 DEF TimeTypes
<1> HIDE DEF c, r, f
<1>5. /\ Reserve(d) \in Nat /\ Reserve(d) <= Slack /\ (~due[d] => Reserve(d) > 0)
      /\ due[d] => Reserve(d) = c
      /\ ~due[d] /\ r = 0 => Reserve(d) = Interval + c
  BY Budget, <1>1, <1>2, <1>3, <1>4
<1> QED
  BY <1>5 DEF c, r

LEMMA SameReserve ==
  ASSUME NEW d, age'[d] = age[d], due'[d] = due[d], missed'[d] = missed[d]
  PROVE  Reserve(d)' = Reserve(d)
BY DEF Reserve
-----------------------------------------------------------------------------
(* What is active                                                           *)

LEMMA OneActive ==
  ASSUME TimelyInv, NEW c \in Deliveries, NEW d \in Deliveries,
         Active(c), Active(d)
  PROVE  c = d
<1>1. c[2] = d[2]
  BY DEF TimelyInv, Kept, DeliveryOK, ActiveOK
<1> QED
  BY <1>1 DEF Deliveries

(* A handler that runs is active, unless it began late or its process has   *)
(* ended.                                                                   *)
LEMMA RunningIsActive ==
  ASSUME TimelyInv, NEW d \in Deliveries, pc[d] \in Busy, ~Orphaned(d)
  PROVE  job[d] = "handling" /\ (d \notin late => Active(d))
BY DEF TimelyInv, Kept, DeliveryOK, PlacedOK, Orphaned, Running, Busy, Active

(* What workers may do to the message under an active one: nothing, or      *)
(* extend its visibility, or, if they began late, delete it.                *)
FocusKept ==
  /\ count'[Focus] = count[Focus]
  /\ \/ queue'[Focus] = queue[Focus] /\ left'[Focus] = left[Focus]
     \/ queue'[Focus] = queue[Focus] /\ left'[Focus] = Visibility
     \/ queue'[Focus] = "deleted" /\ late # {}

(* A delivery no step touches. *)
LEMMA DeliveryStays ==
  ASSUME TimelyInv, NEW d \in Deliveries,
         /\ job'[d] = job[d] /\ pc'[d] = pc[d] /\ beat'[d] = beat[d]
         /\ age'[d] = age[d] /\ due'[d] = due[d] /\ missed'[d] = missed[d],
         late \subseteq late',
         job[d] # "none" =>
           host'[d] = host[d] /\ (term[host[d]] => term'[host[d]]),
         Active(d) => FocusKept,
         late' = {} /\ pc[d] = "returned" /\ job[d] # "gone" =>
           author' = author /\ (d \in unwritten => d \in unwritten')
  PROVE  DeliveryOK(d)'
<1>0. DeliveryOK(d)
  BY DEF TimelyInv, Kept
<1>1. Active(d)' => Active(d)
  BY DEF Active
<1>2. Reserve(d)' = Reserve(d)
  BY SameReserve
<1>l. late' = {} => late = {}
  OBVIOUS
<1>3. ActiveOK(d)'
  BY <1>0, <1>1, <1>l DEF DeliveryOK, ActiveOK, FocusKept
<1>4. PlacedOK(d)'
  BY <1>0
     DEF DeliveryOK, PlacedOK, Busy, Handler!Extracting, Handler!Deferred,
         Handler!Preparing, Handler!PerEntry
<1>5. BeatOK(d)'
  <2>1. Reserve(d) \in Nat /\ Reserve(d) <= Slack /\ Visibility > Slack
        /\ Visibility \in Nat /\ Slack \in Nat
    BY <1>0, Budget, ReserveFacts
       DEF TimelyInv, Timely, DeliveryOK, BeatOK, Slack
  <2>2. /\ due'[d] => age'[d] % Interval = 0
        /\ job'[d] \in {"none", "batch"} =>
             ~beat'[d] /\ age'[d] = 0 /\ ~due'[d] /\ missed'[d] = 0
    BY <1>0 DEF DeliveryOK, BeatOK
  <2>3. ASSUME Active(d)', job'[d] = "handling", ~term'[host'[d]],
               queue'[Focus] = "inflight"
        PROVE  beat'[d] /\ left'[Focus] > Reserve(d)'
    <3>1. /\ Active(d) /\ job[d] = "handling" /\ ~term[host[d]]
          /\ queue[Focus] = "inflight"
          /\ left'[Focus] = left[Focus] \/ left'[Focus] = Visibility
      BY <1>1, <2>3 DEF FocusKept
    <3>2. beat[d] /\ left[Focus] > Reserve(d)
      BY <1>0, <3>1 DEF DeliveryOK, BeatOK
    <3>3. left'[Focus] > Reserve(d)
      BY <2>1, <3>1, <3>2
    <3>4. beat'[d]
      BY <3>2
    <3> QED
      BY <1>2, <3>3, <3>4
  <2> QED
    BY <2>2, <2>3 DEF BeatOK
<1>6. AuthorOK(d)'
  <2>1. pc[d] = "returned" => job[d] # "none"
    BY DEF TimelyInv, Inv, PlaceOK
  <2> QED
    BY <1>0, <1>l, <2>1 DEF DeliveryOK, AuthorOK
<1> QED
  BY <1>3, <1>4, <1>5, <1>6 DEF DeliveryOK

(* The report of a deleted message is there to stay. *)
LEMMA ReportStays ==
  ASSUME DeletedIsReported, UNCHANGED <<author, unwritten>>, late \subseteq late',
         queue'[Focus] = "deleted" =>
           queue[Focus] = "deleted" /\ count'[Focus] = count[Focus]
  PROVE  DeletedIsReported'
BY DEF DeletedIsReported

(* Steps that move no delivery of Focus.                                    *)
LEMMA NoneMoves ==
  ASSUME TimelyInv, ConsumerOnly,
         \A d \in Deliveries :
           /\ job'[d] = job[d] /\ beat'[d] = beat[d] /\ age'[d] = age[d]
           /\ due'[d] = due[d] /\ missed'[d] = missed[d]
           /\ job[d] # "none" =>
                host'[d] = host[d] /\ (term[host[d]] => term'[host[d]])
           /\ Active(d) => FocusKept,
         queue'[Focus] = "deleted" =>
           queue[Focus] = "deleted" /\ count'[Focus] = count[Focus]
  PROVE  Kept'
<1> USE DEF ConsumerOnly, handlerVars, history
<1>1. \A d \in Deliveries : DeliveryOK(d)'
  BY DeliveryStays
<1>2. DeletedIsReported'
  BY ReportStays DEF TimelyInv, Kept
<1> QED
  BY <1>1, <1>2 DEF Kept

LEMMA TimelyInit == Timely /\ Init => TimelyInv
<1> SUFFICES ASSUME Timely, Init
             PROVE  TimelyInv
  OBVIOUS
<1>1. Inv /\ SP!TypeInv /\ TimeTypes
  BY InvInit, ConsumerInit, ConsumerAssumed, SP!TypeInit, ConsumerTypes
<1>2. /\ beat = [d \in Consumer!Deliveries |-> FALSE]
      /\ age = [d \in Consumer!Deliveries |-> 0]
      /\ due = [d \in Consumer!Deliveries |-> FALSE]
      /\ missed = [d \in Consumer!Deliveries |-> 0]
      /\ queue = [m \in Messages |-> "visible"]
      /\ job = [d \in Consumer!Deliveries |-> "none"]
      /\ pc = [d \in Deliveries |-> "waiting"]
  BY DEF Init, Consumer!Init, Handler!Init
<1>3. ASSUME NEW d \in Deliveries
      PROVE  DeliveryOK(d)
  <2>1. d \in Consumer!Deliveries
    BY Followed
  <2> QED
    BY <1>2, <2>1, Places
       DEF DeliveryOK, ActiveOK, Active, PlacedOK, BeatOK, AuthorOK
<1>4. DeletedIsReported
  BY <1>2, Followed DEF DeletedIsReported
<1> QED
  BY <1>1, <1>3, <1>4 DEF TimelyInv, Kept
-----------------------------------------------------------------------------
(* Steps of the handler                                                     *)

LEMMA TimelyHandlerSide ==
  ASSUME TimelyInv, UNCHANGED <<consumerVars, late>>, NEW d \in Deliveries,
         pc[d] \in Busy, \A e \in Deliveries \ {d} : pc'[e] = pc[e],
         \A e \in Deliveries \ {d} :
           late = {} /\ pc[e] = "returned" /\ job[e] # "gone" =>
             author' = author /\ (e \in unwritten => e \in unwritten'),
         AuthorOK(d)', DeletedIsReported'
  PROVE  Kept'
<1>1. ASSUME NEW e \in Deliveries
      PROVE  DeliveryOK(e)'
  <2>1. CASE e # d
    BY <2>1, DeliveryStays DEF consumerVars, FocusKept
  <2>2. CASE e = d
    <3>1. DeliveryOK(d)
      BY DEF TimelyInv, Kept
    <3>2. ActiveOK(d)'
      BY <3>1 DEF consumerVars, DeliveryOK, ActiveOK, Active
    <3>3. PlacedOK(d)'
      BY <3>1 DEF consumerVars, DeliveryOK, PlacedOK
    <3>4. BeatOK(d)'
      BY <3>1 DEF consumerVars, DeliveryOK, BeatOK, Active, Reserve
    <3> QED
      BY <2>2, <3>2, <3>3, <3>4 DEF DeliveryOK
  <2> QED
    BY <2>1, <2>2
<1> QED
  BY <1>1 DEF Kept

LEMMA TimelyOvertake ==
  ASSUME TimelyInv, NEW d \in Deliveries, Overtake(d)
  PROVE  Kept'
<1>1. UNCHANGED <<consumerVars, history>>
  BY DEF Overtake, HandlerOnly
<1>2. pc \in [Deliveries -> Handler!PCs]
  BY DEF TimelyInv, Inv, Types
<1>3. /\ pc[d] \in Busy /\ pc'[d] # "returned"
      /\ \A e \in Deliveries \ {d} : pc'[e] = pc[e]
  <2>1. CASE Orphaned(d) /\ Handler!Crash(d)
    BY <1>2, <2>1
       DEF Orphaned, Running, Busy, Handler!Crash, Handler!End, Handler!Goto
  <2>2. CASE Overtaken(d) /\ Handler!Drain(d)
    <3>1. pc[d] \in Busy /\ pc' = pc
      BY <2>2 DEF Overtaken, Running, Busy, Handler!Drain
    <3> QED
      BY <3>1, Places
  <2> QED
    BY <2>1, <2>2 DEF Overtake
<1>4. AuthorOK(d)'
  BY <1>3 DEF AuthorOK
<1>5. DeletedIsReported'
  BY <1>1, ReportStays DEF consumerVars, history, TimelyInv, Kept
<1> QED
  BY <1>1, <1>3, <1>4, <1>5, TimelyHandlerSide DEF history

(* As long as nobody began late, the one that writes is the only active     *)
(* one: nobody who has returned loses authorship, and a message it has in   *)
(* hand is not deleted.                                                     *)
LEMMA TimelyHandlerStep ==
  ASSUME TimelyInv, NEW d \in Deliveries, HandlerStep(d), ~Orphaned(d)
  PROVE  Kept'
<1> DEFINE report == [status |-> status[d], reason |-> reason[d],
                      children |-> entries[d]]
           writes == pc[d] \in Handler!Deferred /\ live[d]
<1>2. /\ UNCHANGED <<consumerVars, late>>
      /\ author' = IF writes /\ slip' = report THEN d ELSE author
      /\ unwritten' = IF writes /\ slip' # report THEN unwritten \cup {d}
                                                  ELSE unwritten
      /\ \/ Handler!Step(d) \/ Handler!Deadline(d) \/ Handler!Panic(d)
  BY DEF HandlerStep, HandlerOnly
<1>3. pc \in [Deliveries -> Handler!PCs] /\ Types
  BY DEF TimelyInv, Inv, Types
<1>4. CASE Inside(d) \/ Handler!Panic(d) \/ Handler!Deadline(d)
  <2>1. /\ pc[d] \in Handler!Extracting /\ pc'[d] \in Busy
        /\ \A e \in Deliveries \ {d} : pc'[e] = pc[e]
    BY <1>3, <1>4, Places
       DEF Inside, Handler!Panic, Handler!Deadline, Handler!Goto, Busy
  <2>2. UNCHANGED history
    BY <1>2, <2>1, Places DEF history
  <2>3. AuthorOK(d)'
    BY <2>1, Places DEF AuthorOK
  <2>4. DeletedIsReported'
    BY <1>2, <2>2, ReportStays DEF consumerVars, history, TimelyInv, Kept
  <2> QED
    BY <1>2, <2>1, <2>2, <2>3, <2>4, TimelyHandlerSide DEF history, Busy
<1>5. CASE Writes(d)
  <2>1. /\ pc[d] \in Busy /\ pc[d] \in Handler!Deferred
        /\ \A e \in Deliveries \ {d} : pc'[e] = pc[e]
    BY <1>3, <1>5, Places DEF Writes, Busy
  <2>2. job[d] = "handling" /\ (late = {} => Active(d))
    BY <2>1, RunningIsActive
  <2>3. ASSUME NEW e \in Deliveries \ {d}, late = {}, pc[e] = "returned",
               job[e] # "gone"
        PROVE  FALSE
    <3>1. job[e] \notin {"none", "batch"} /\ job[e] \in Consumer!Jobs
      BY <2>3, Followed DEF TimelyInv, Inv, PlaceOK, Types
    <3>2. Active(e)
      BY <2>3, <3>1 DEF Active, Consumer!Jobs
    <3> QED
      BY <2>2, <2>3, <3>2, OneActive
  <2>4. AuthorOK(d)'
    <3>1. CASE ~live[d]
      <4>1. term[host[d]]
        BY <2>1, <2>2, <3>1 DEF TimelyInv, Inv, ReportOK
      <4> QED
        BY <1>2, <4>1 DEF AuthorOK, consumerVars
    <3>2. CASE live[d]
      BY <1>2, <2>1, <3>2 DEF AuthorOK
    <3> QED
      BY <3>1, <3>2
  <2>5. late = {} => queue[Focus] = "inflight"
    BY <2>2 DEF TimelyInv, Kept, DeliveryOK, ActiveOK
  <2>6. DeletedIsReported'
    BY <1>2, <2>5 DEF DeletedIsReported, consumerVars
  <2> QED
    BY <1>2, <2>1, <2>3, <2>4, <2>6, TimelyHandlerSide
<1> QED
  BY <1>2, <1>3, <1>4, <1>5, StepInside
-----------------------------------------------------------------------------
(* Steps of the queue and of the pods                                       *)

(* Nothing is active while the message can be handed out.                   *)
LEMMA VisibleIsFree ==
  ASSUME TimelyInv, queue[Focus] \in {"visible", "dead"}, NEW d \in Deliveries
  PROVE  ~Active(d)
BY DEF TimelyInv, Kept, DeliveryOK, ActiveOK

LEMMA TimelyDeadLetter ==
  ASSUME TimelyInv, ConsumerOnly, NEW m \in Messages, Consumer!DeadLetter(m)
  PROVE  Kept'
<1>1. /\ UNCHANGED <<count, left, term, job, host, beat, age, due, missed>>
      /\ queue' = [queue EXCEPT ![m] = "dead"] /\ queue[m] = "visible"
  BY DEF Consumer!DeadLetter, Consumer!beatVars
<1>2. queue \in [Messages -> {"visible", "inflight", "deleted", "dead"}]
  BY DEF TimelyInv, TimeTypes
<1>3. \A d \in Deliveries : Active(d) => FocusKept
  BY <1>1, <1>2, VisibleIsFree, Followed DEF FocusKept
<1>4. queue'[Focus] = "deleted" => queue[Focus] = "deleted"
  BY <1>1, <1>2, Followed
<1> QED
  BY <1>1, <1>3, <1>4, NoneMoves

LEMMA TimelyHandOut ==
  ASSUME TimelyInv, NEW S \in SUBSET Messages, Consumer!HandOut(S)
  PROVE  /\ \A d \in Deliveries : Active(d) => FocusKept
         /\ queue'[Focus] = "deleted" =>
              queue[Focus] = "deleted" /\ count'[Focus] = count[Focus]
<1> USE Followed DEF Consumer!HandOut
<1>1. CASE Focus \in S
  BY <1>1, VisibleIsFree
<1>2. CASE Focus \notin S
  BY <1>2 DEF FocusKept
<1> QED
  BY <1>1, <1>2

LEMMA TimelyReceive ==
  ASSUME TimelyInv, ConsumerOnly, NEW p \in Pods, Consumer!Receive(p)
  PROVE  Kept'
<1> USE DEF ConsumerOnly, handlerVars, history, Consumer!beatVars
<1>1. PICK S \in SUBSET Messages :
        /\ Consumer!HandOut(S)
        /\ LET new == {<<m, count[m] + 1>> : m \in S}
           IN /\ job' = [d \in Consumer!Deliveries |->
                           IF d \in new THEN "batch" ELSE job[d]]
              /\ host' = [d \in Consumer!Deliveries |->
                            IF d \in new THEN p ELSE host[d]]
  BY DEF Consumer!Receive
<1> DEFINE new == {<<m, count[m] + 1>> : m \in S}
<1>2. UNCHANGED <<term, beat, age, due, missed>>
  BY DEF Consumer!Receive
<1>3. ASSUME NEW d \in Deliveries, d \notin new
      PROVE  DeliveryOK(d)'
  <2>1. job'[d] = job[d] /\ host'[d] = host[d]
    BY <1>1, <1>3, Followed
  <2> QED
    BY <1>1, <1>2, <2>1, TimelyHandOut, DeliveryStays
<1>4. ASSUME NEW d \in Deliveries, d \in new
      PROVE  DeliveryOK(d)'
  <2>1. job'[d] = "batch"
    BY <1>1, <1>4, Followed
  <2>2. job[d] = "none"
    BY <1>1, <1>4, HandOutFacts DEF TimelyInv
  <2>3. pc[d] = "waiting"
    BY <2>2 DEF TimelyInv, Inv, PlaceOK
  <2>4. ~beat[d] /\ age[d] = 0 /\ ~due[d] /\ missed[d] = 0
    BY <2>2 DEF TimelyInv, Kept, DeliveryOK, BeatOK
  <2>5. ActiveOK(d)' /\ PlacedOK(d)'
    BY <2>1, <2>3, Places DEF ActiveOK, Active, PlacedOK
  <2>6. BeatOK(d)'
    BY <1>2, <2>1, <2>4 DEF BeatOK
  <2>7. AuthorOK(d)'
    BY <2>3 DEF AuthorOK
  <2> QED
    BY <2>5, <2>6, <2>7 DEF DeliveryOK
<1>5. DeletedIsReported'
  BY <1>1, TimelyHandOut, ReportStays DEF TimelyInv, Kept
<1> QED
  BY <1>3, <1>4, <1>5 DEF Kept

(* A receive is lost, a pod leaves its batch, or gets SIGTERM. *)
LEMMA TimelyPodMoves ==
  ASSUME TimelyInv, ConsumerOnly, NEW p \in Pods,
         \/ Consumer!ReceiveLost(p)
         \/ Consumer!BatchDone(p) \/ Consumer!ReceiveTimesOut(p)
         \/ Consumer!StartDrain(p) \/ Consumer!Sigterm(p)
  PROVE  Kept'
<1>1. /\ UNCHANGED <<job, host, beat, age, due, missed>>
      /\ UNCHANGED term \/ term' = [term EXCEPT ![p] = TRUE]
      /\ \/ UNCHANGED <<queue, count, left>>
         \/ \E S \in SUBSET Messages : Consumer!HandOut(S)
  BY DEF Consumer!ReceiveLost, Consumer!BatchDone, Consumer!ReceiveTimesOut,
         Consumer!StartDrain, Consumer!Sigterm, Consumer!beatVars,
         Consumer!queueVars
<1>2. /\ \A d \in Deliveries : Active(d) => FocusKept
      /\ queue'[Focus] = "deleted" =>
           queue[Focus] = "deleted" /\ count'[Focus] = count[Focus]
  BY <1>1, TimelyHandOut DEF FocusKept
<1>3. \A d \in Deliveries : job[d] # "none" => (term[host[d]] => term'[host[d]])
  <2>1. \A d \in Deliveries : job[d] # "none" => host[d] \in Pods
    BY DEF TimelyInv, Inv, PlaceOK
  <2>2. term \in [Pods -> BOOLEAN]
    BY DEF TimelyInv, Inv, Types
  <2> QED
    BY <1>1, <2>1, <2>2
<1> QED
  BY <1>1, <1>2, <1>3, NoneMoves

LEMMA TimelyPodEnds ==
  ASSUME TimelyInv, ConsumerOnly, NEW p \in Pods, Consumer!PodEnds(p)
  PROVE  Kept'
<1> USE DEF ConsumerOnly, handlerVars, history, Consumer!queueVars
<1>1. /\ UNCHANGED <<queue, count, left, term, host>>
      /\ job' = [d \in Consumer!Deliveries |->
                   IF d \in Consumer!On(p) THEN "gone" ELSE job[d]]
      /\ beat' = [d \in Consumer!Deliveries |-> beat[d] /\ host[d] # p]
      /\ age' = [d \in Consumer!Deliveries |-> IF host[d] = p THEN 0 ELSE age[d]]
      /\ due' = [d \in Consumer!Deliveries |-> due[d] /\ host[d] # p]
      /\ missed' = [d \in Consumer!Deliveries |->
                      IF host[d] = p THEN 0 ELSE missed[d]]
  BY DEF Consumer!PodEnds
<1>2. TimeTypes
  BY DEF TimelyInv
<1>3. ASSUME NEW d \in Deliveries
      PROVE  DeliveryOK(d)'
  <2>0. d \in Consumer!Deliveries
    BY Followed
  <2>1. CASE host[d] # p
    <3>1. d \notin Consumer!On(p)
      BY <2>1 DEF Consumer!On
    <3>2. /\ job'[d] = job[d] /\ beat'[d] = beat[d] /\ age'[d] = age[d]
          /\ due'[d] = due[d] /\ missed'[d] = missed[d]
      BY <1>1, <1>2, <2>0, <2>1, <3>1 DEF TimeTypes
    <3> QED
      BY <1>1, <3>2, DeliveryStays DEF FocusKept
  <2>2. CASE host[d] = p
    <3>1. job'[d] \in {"none", "gone"} /\ (job'[d] = "none" => job[d] = "none")
      BY <1>1, <2>0, <2>2 DEF Consumer!On
    <3>2. ~beat'[d] /\ age'[d] = 0 /\ ~due'[d] /\ missed'[d] = 0
      BY <1>1, <2>0, <2>2
    <3>3. job'[d] = "none" => pc[d] = "waiting"
      BY <3>1 DEF TimelyInv, Inv, PlaceOK
    <3> QED
      BY <3>1, <3>2, <3>3, Places
         DEF DeliveryOK, ActiveOK, Active, PlacedOK, BeatOK, AuthorOK, Busy,
             Handler!Extracting, Handler!Deferred, Handler!Preparing,
             Handler!PerEntry
  <2> QED
    BY <2>1, <2>2
<1>4. DeletedIsReported'
  BY <1>1, ReportStays DEF TimelyInv, Kept
<1> QED
  BY <1>3, <1>4 DEF Kept
-----------------------------------------------------------------------------
(* Steps of the workers and of the heartbeats                               *)

(* A delivery other than the one that moves.                                *)
LEMMA TimelyOthers ==
  ASSUME TimelyInv, UNCHANGED <<term, host, author, unwritten>>,
         late \subseteq late',
         NEW d \in Deliveries, Active(d) \/ FocusKept,
         NEW e \in Deliveries \ {d},
         /\ job'[e] = job[e] /\ pc'[e] = pc[e] /\ beat'[e] = beat[e]
         /\ age'[e] = age[e] /\ due'[e] = due[e] /\ missed'[e] = missed[e]
  PROVE  DeliveryOK(e)'
BY OneActive, DeliveryStays

(* A worker, or the heartbeat, of another message. *)
LEMMA TimelyElsewhere ==
  ASSUME TimelyInv, NEW d \in Consumer!Deliveries \ Deliveries,
         \/ OtherWorker(d)
         \/ /\ ConsumerOnly
            /\ \/ Consumer!HeartbeatStopped(d) \/ Consumer!Delete(d)
               \/ Consumer!HeartbeatStep(d)
  PROVE  Kept'
<1> USE DEF Consumer!queueVars, Consumer!beatVars
<1>1. TimeTypes /\ d[1] # Focus /\ d[1] \in Messages
      /\ \A e \in Deliveries : e \in Consumer!Deliveries /\ e # d
  BY Followed DEF TimelyInv
<1>2. /\ ConsumerOnly /\ UNCHANGED <<count, term, host>>
      /\ \A e \in Deliveries : /\ job'[e] = job[e] /\ beat'[e] = beat[e]
                               /\ age'[e] = age[e] /\ due'[e] = due[e]
                               /\ missed'[e] = missed[e]
      /\ queue'[Focus] = queue[Focus] /\ left'[Focus] = left[Focus]
  <2>1. CASE OtherWorker(d)
    BY <1>1, <2>1
       DEF OtherWorker, Consumer!Dispatch, Consumer!HandlerReturns,
           Consumer!HandlerPanics, Consumer!SetJob, TimeTypes
  <2>2. CASE ConsumerOnly /\ Consumer!HeartbeatStopped(d)
    BY <1>1, <2>2 DEF Consumer!HeartbeatStopped, Consumer!SetJob, TimeTypes
  <2>3. CASE ConsumerOnly /\ Consumer!Delete(d)
    BY <1>1, <2>3, Followed
       DEF Consumer!Delete, Consumer!SetJob, Consumer!Message, TimeTypes
  <2>4. CASE ConsumerOnly /\ (Consumer!BeatExit(d) \/ Consumer!BeatRefused(d))
    BY <1>1, <2>4 DEF Consumer!BeatExit, Consumer!BeatRefused,
                      Consumer!StopBeat, TimeTypes
  <2>5. CASE ConsumerOnly /\ (Consumer!BeatExtends(d) \/ Consumer!BeatFails(d))
    BY <1>1, <2>5, Followed
       DEF Consumer!BeatExtends, Consumer!BeatFails, Consumer!Message, TimeTypes
  <2> QED
    BY <2>1, <2>2, <2>3, <2>4, <2>5 DEF Consumer!HeartbeatStep
<1> QED
  BY <1>2, NoneMoves DEF FocusKept

LEMMA TimelyStopped ==
  ASSUME TimelyInv, ConsumerOnly, NEW d \in Deliveries,
         Consumer!HeartbeatStopped(d)
  PROVE  Kept'
<1> USE DEF ConsumerOnly, handlerVars, history, Consumer!beatVars,
            Consumer!queueVars
<1>0. job \in [Consumer!Deliveries -> Consumer!Jobs] /\ DeliveryOK(d)
      /\ Deliveries \subseteq Consumer!Deliveries
  BY Followed DEF TimelyInv, TimeTypes, Kept
<1>1. /\ job[d] \in {"stopping", "leaving"}
      /\ \E j \in {"deleting", "gone"} : job' = [job EXCEPT ![d] = j]
      /\ UNCHANGED <<queue, count, left, term, host, beat, age, due, missed>>
  BY DEF Consumer!HeartbeatStopped, Consumer!SetJob
<1>2. ASSUME NEW e \in Deliveries \ {d}
      PROVE  DeliveryOK(e)'
  BY <1>0, <1>1, TimelyOthers DEF FocusKept
<1>3. DeliveryOK(d)'
  <2>1. job'[d] \in {"deleting", "gone"} /\ pc'[d] \notin Busy
    BY <1>0, <1>1 DEF DeliveryOK, PlacedOK
  <2> QED
    BY <1>0, <1>1, <2>1
       DEF DeliveryOK, ActiveOK, Active, PlacedOK, BeatOK, AuthorOK, Busy,
           Handler!Extracting, Handler!Deferred, Handler!Preparing,
           Handler!PerEntry
<1>4. DeletedIsReported'
  BY <1>1, ReportStays DEF TimelyInv, Kept
<1> QED
  BY <1>2, <1>3, <1>4 DEF Kept

(* As long as nobody began late, what is deleted has its report: the one    *)
(* that deletes is the last receipt, and its pod has not got SIGTERM.       *)
LEMMA TimelyDelete ==
  ASSUME TimelyInv, ConsumerOnly, NEW d \in Deliveries, Consumer!Delete(d)
  PROVE  Kept'
<1> USE DEF ConsumerOnly, handlerVars, history, Consumer!beatVars
<1>0. /\ TimeTypes /\ DeliveryOK(d) /\ d[1] = Focus /\ Focus \in Messages
      /\ Deliveries \subseteq Consumer!Deliveries
  BY Followed DEF TimelyInv, Kept
<1>1. /\ job[d] = "deleting"
      /\ \E j \in {"gone", "leaving"} : job' = [job EXCEPT ![d] = j]
      /\ UNCHANGED <<count, term, host, beat, age, due, missed>>
      /\ \/ UNCHANGED <<queue, left>>
         \/ /\ ~term[host[d]]
            /\ queue' = [queue EXCEPT ![Focus] = "deleted"]
  BY <1>0 DEF Consumer!Delete, Consumer!SetJob, Consumer!Message
<1>2. \/ queue'[Focus] = queue[Focus] /\ left'[Focus] = left[Focus]
      \/ ~term[host[d]] /\ queue'[Focus] = "deleted"
  BY <1>0, <1>1 DEF TimeTypes
<1>3. Active(d) \/ FocusKept
  BY <1>1, <1>2 DEF Active, FocusKept
<1>4. ASSUME NEW e \in Deliveries \ {d}
      PROVE  DeliveryOK(e)'
  BY <1>0, <1>1, <1>3, TimelyOthers DEF TimeTypes
<1>5. DeliveryOK(d)'
  <2>1. job'[d] \in {"leaving", "gone"} /\ pc'[d] \notin Busy
    BY <1>0, <1>1 DEF DeliveryOK, PlacedOK, TimeTypes
  <2>2. ActiveOK(d)'
    BY <1>0, <1>1, <1>2, <2>1 DEF DeliveryOK, ActiveOK, Active
  <2> QED
    BY <1>0, <1>1, <2>1, <2>2
       DEF DeliveryOK, PlacedOK, BeatOK, AuthorOK, Busy, Handler!Extracting,
           Handler!Deferred, Handler!Preparing, Handler!PerEntry
<1>6. DeletedIsReported'
  <2> SUFFICES ASSUME queue'[Focus] = "deleted", Focus \in Valid, late = {}
               PROVE  \/ author = <<Focus, count[Focus]>>
                      \/ <<Focus, count[Focus]>> \in unwritten
    BY <1>1 DEF DeletedIsReported
  <2>1. CASE queue[Focus] = "deleted"
    BY <2>1 DEF TimelyInv, Kept, DeletedIsReported
  <2>2. CASE queue[Focus] # "deleted"
    <3>1. ~term[host[d]]
      BY <1>2, <2>2
    <3>2. pc[d] = "returned"
      BY <1>1 DEF TimelyInv, Inv, PlaceOK
    <3>3. author = d \/ d \in unwritten
      BY <1>0, <1>1, <3>1, <3>2 DEF DeliveryOK, AuthorOK
    <3>4. d[2] = count[Focus]
      BY <1>0, <1>1 DEF DeliveryOK, ActiveOK, Active
    <3>5. d = <<d[1], d[2]>>
      BY DEF Deliveries
    <3> QED
      BY <1>0, <3>3, <3>4, <3>5
  <2> QED
    BY <2>1, <2>2
<1> QED
  BY <1>4, <1>5, <1>6 DEF Kept

(* A heartbeat ends or is extended, or its call fails. *)
LEMMA TimelyBeat ==
  ASSUME TimelyInv, ConsumerOnly, NEW d \in Deliveries,
         Consumer!HeartbeatStep(d)
  PROVE  Kept'
<1> USE DEF ConsumerOnly, handlerVars, history, Consumer!queueVars,
            Consumer!Message
<1>0. /\ TimeTypes /\ DeliveryOK(d) /\ d[1] = Focus /\ Focus \in Messages
      /\ Deliveries \subseteq Consumer!Deliveries
  BY Followed DEF TimelyInv, Kept
<1>1. UNCHANGED <<queue, count, term, job, host>> /\ beat[d]
  BY DEF Consumer!HeartbeatStep, Consumer!BeatExit, Consumer!BeatExtends,
         Consumer!BeatFails, Consumer!BeatRefused, Consumer!Beating
<1>2. DeletedIsReported'
  BY <1>1, ReportStays DEF TimelyInv, Kept
<1>3. job[d] \notin {"none", "batch"}
  BY <1>0, <1>1 DEF DeliveryOK, BeatOK
<1>4. ActiveOK(d)' /\ PlacedOK(d)' /\ AuthorOK(d)'
  BY <1>0, <1>1 DEF DeliveryOK, ActiveOK, Active, PlacedOK, AuthorOK, Busy,
                    Handler!Extracting, Handler!Deferred, Handler!Preparing,
                    Handler!PerEntry
<1>5. ASSUME UNCHANGED left, Consumer!StopBeat(d),
             Active(d) /\ job[d] = "handling" /\ queue[Focus] = "inflight" =>
               term[host[d]]
      PROVE  Kept'
  <2>1. /\ beat' = [beat EXCEPT ![d] = FALSE] /\ age' = [age EXCEPT ![d] = 0]
        /\ due' = [due EXCEPT ![d] = FALSE] /\ missed' = [missed EXCEPT ![d] = 0]
    BY <1>5 DEF Consumer!StopBeat
  <2>2. ASSUME NEW e \in Deliveries \ {d}
        PROVE  DeliveryOK(e)'
    <3>1. /\ beat'[e] = beat[e] /\ age'[e] = age[e]
          /\ due'[e] = due[e] /\ missed'[e] = missed[e]
      BY <1>0, <2>1 DEF TimeTypes
    <3>2. FocusKept
      BY <1>1, <1>5 DEF FocusKept
    <3> QED
      BY <1>1, <3>1, <3>2, TimelyOthers
  <2>3. BeatOK(d)'
    BY <1>0, <1>1, <1>3, <1>5, <2>1 DEF BeatOK, Active, TimeTypes
  <2> QED
    BY <1>2, <1>4, <2>2, <2>3 DEF Kept, DeliveryOK
<1>6. CASE Consumer!BeatExit(d)
  BY <1>5, <1>6 DEF Consumer!BeatExit, Consumer!Canceled
<1>7. CASE Consumer!BeatRefused(d)
  <2>1. queue[Focus] # "inflight" \/ count[Focus] # d[2]
    BY <1>0, <1>7 DEF Consumer!BeatRefused, Consumer!Latest
  <2>2. ~(Active(d) /\ queue[Focus] = "inflight")
    BY <1>0, <2>1 DEF DeliveryOK, ActiveOK
  <2> QED
    BY <1>5, <1>7, <2>2 DEF Consumer!BeatRefused
<1>8. CASE Consumer!BeatExtends(d) \/ Consumer!BeatFails(d)
  <2>1. due[d] /\ due' = [due EXCEPT ![d] = FALSE] /\ UNCHANGED <<beat, age>>
    BY <1>8 DEF Consumer!BeatExtends, Consumer!BeatFails
  <2>2. \/ /\ left' = [left EXCEPT ![Focus] = Visibility]
           /\ missed' = [missed EXCEPT ![d] = 0]
        \/ /\ UNCHANGED left /\ missed[d] < MaxMissed
           /\ missed' = [missed EXCEPT ![d] = @ + 1]
    BY <1>0, <1>8 DEF Consumer!BeatExtends, Consumer!BeatFails
  <2>3. FocusKept
    BY <1>0, <1>1, <2>2 DEF FocusKept, TimeTypes
  <2>4. ASSUME NEW e \in Deliveries \ {d}
        PROVE  DeliveryOK(e)'
    <3>1. /\ beat'[e] = beat[e] /\ age'[e] = age[e]
          /\ due'[e] = due[e] /\ missed'[e] = missed[e]
      BY <1>0, <2>1, <2>2 DEF TimeTypes
    <3> QED
      BY <1>1, <2>3, <3>1, TimelyOthers
  <2>5. age[d] % Interval = 0 /\ ~due'[d] /\ age'[d] = age[d] /\ beat'[d]
    BY <1>0, <1>1, <2>1 DEF DeliveryOK, BeatOK, TimeTypes
  <2>6. Reserve(d)' = Interval + (MaxMissed - missed'[d]) * Interval
    <3>1. missed'[d] \in Nat /\ age[d] \in Nat
      BY <1>0, <2>2 DEF TimeTypes
    <3> QED
      BY <2>5, <3>1, Budget DEF Reserve
  <2>7. ASSUME Active(d), job[d] = "handling", ~term[host[d]],
               queue[Focus] = "inflight"
        PROVE  left'[Focus] > Reserve(d)'
    <3>1. CASE /\ left' = [left EXCEPT ![Focus] = Visibility]
               /\ missed' = [missed EXCEPT ![d] = 0]
      <4>1. left'[Focus] = Visibility /\ missed'[d] = 0
        BY <1>0, <3>1 DEF TimeTypes
      <4>2. Reserve(d)' = Slack
        BY <2>6, <4>1, Budget
      <4> QED
        BY <4>1, <4>2 DEF TimelyInv, Timely
    <3>2. CASE /\ UNCHANGED left /\ missed[d] < MaxMissed
               /\ missed' = [missed EXCEPT ![d] = @ + 1]
      <4>1. missed'[d] = missed[d] + 1 /\ missed[d] \in 0..MaxMissed
        BY <1>0, <3>2 DEF TimeTypes
      <4>2. Reserve(d)' = (MaxMissed - missed[d]) * Interval
        BY <2>6, <3>2, <4>1, Budget
      <4>3. Reserve(d) = (MaxMissed - missed[d]) * Interval
        BY <1>0, <2>1, <2>5, ReserveFacts
      <4> QED
        BY <1>0, <2>7, <3>2, <4>2, <4>3 DEF DeliveryOK, BeatOK
    <3> QED
      BY <2>2, <3>1, <3>2
  <2>8. BeatOK(d)'
    BY <1>1, <1>3, <2>5, <2>7 DEF BeatOK, Active
  <2> QED
    BY <1>2, <1>4, <2>4, <2>8 DEF Kept, DeliveryOK
<1> QED
  BY <1>6, <1>7, <1>8 DEF Consumer!HeartbeatStep
-----------------------------------------------------------------------------
(* Steps of both, and time                                                  *)

(* Only a worker that begins in time becomes active: its receipt is the     *)
(* latest, and what is left of the visibility covers a whole reserve.       *)
LEMMA TimelyDispatch ==
  ASSUME TimelyInv, NEW d \in Deliveries, Dispatch(d)
  PROVE  Kept'
<1> USE DEF Consumer!queueVars
<1>0. /\ TimeTypes /\ DeliveryOK(d) /\ d[1] = Focus
      /\ Deliveries \subseteq Consumer!Deliveries
  BY Followed DEF TimelyInv, Kept
<1>1. /\ job[d] = "batch"
      /\ beat' = [beat EXCEPT ![d] = TRUE]
      /\ late' = IF InTime(d) THEN late ELSE late \cup {d}
      /\ UNCHANGED <<queue, count, left, term, host, age, due, missed,
                     author, unwritten>>
  BY DEF Dispatch, Consumer!Dispatch
<1>2. \/ /\ job' = [job EXCEPT ![d] = "handling"]
         /\ pc' = [pc EXCEPT ![d] = "download"]
      \/ job' = [job EXCEPT ![d] = "deleting"] /\ pc' = pc
  BY <1>0 DEF Dispatch, Consumer!Dispatch, Consumer!SetJob, Consumer!Message,
              Handler!Begin, Handler!Goto, handlerVars
<1>3. pc \in [Deliveries -> Handler!PCs] /\ pc[d] = "waiting"
  BY <1>1 DEF TimelyInv, Inv, Types, PlaceOK
<1>4. ASSUME NEW e \in Deliveries \ {d}
      PROVE  DeliveryOK(e)'
  <2>1. job'[e] = job[e] /\ pc'[e] = pc[e] /\ beat'[e] = beat[e]
    BY <1>0, <1>1, <1>2, <1>3 DEF TimeTypes
  <2>2. late \subseteq late' /\ FocusKept
    BY <1>1 DEF FocusKept
  <2> QED
    BY <1>1, <2>1, <2>2, TimelyOthers
<1>5. DeliveryOK(d)'
  <2>1. /\ job'[d] \in {"handling", "deleting"} /\ pc'[d] # "returned"
        /\ pc'[d] \in Busy => job'[d] = "handling"
    BY <1>0, <1>2, <1>3, Places DEF TimeTypes
  <2>2. Active(d)' => InTime(d)
    BY <1>1 DEF Active
  <2>3. ActiveOK(d)'
    BY <1>0, <1>1, <2>2
       DEF ActiveOK, InTime, Consumer!Latest, Consumer!Message
  <2>4. PlacedOK(d)'
    BY <2>1 DEF PlacedOK, Busy, Handler!Extracting, Handler!Deferred,
                Handler!Preparing, Handler!PerEntry
  <2>5. BeatOK(d)'
    <3>1. age[d] = 0 /\ ~due[d] /\ missed[d] = 0
      BY <1>0, <1>1 DEF DeliveryOK, BeatOK
    <3>2. age[d] % Interval = 0
      BY <3>1, Budget
    <3>3. Reserve(d) = Slack
      BY <1>0, <3>1, <3>2, Budget, ReserveFacts
    <3>4. Reserve(d)' = Reserve(d)
      BY <1>1, SameReserve
    <3>5. beat'[d]
      BY <1>0, <1>1 DEF TimeTypes
    <3>6. InTime(d) => left'[Focus] > Slack
      BY <1>1 DEF InTime
    <3> QED
      BY <1>1, <2>1, <2>2, <3>1, <3>3, <3>4, <3>5, <3>6 DEF BeatOK
  <2>6. AuthorOK(d)'
    BY <2>1 DEF AuthorOK
  <2> QED
    BY <2>3, <2>4, <2>5, <2>6 DEF DeliveryOK
<1>6. DeletedIsReported'
  BY <1>1, ReportStays DEF TimelyInv, Kept
<1> QED
  BY <1>4, <1>5, <1>6 DEF Kept

LEMMA TimelyAnswer ==
  ASSUME TimelyInv, NEW d \in Deliveries, HandlerReturns(d) \/ HandlerPanics(d)
  PROVE  Kept'
<1> USE DEF ConsumerOnly, handlerVars, history, Consumer!queueVars
<1>0. /\ TimeTypes /\ DeliveryOK(d)
      /\ Deliveries \subseteq Consumer!Deliveries
  BY Followed DEF TimelyInv, Kept
<1>1. /\ job[d] = "handling"
      /\ \E j \in {"stopping", "leaving", "gone"} : job' = [job EXCEPT ![d] = j]
      /\ pc[d] \in {"returned", "panicked"}
      /\ UNCHANGED <<queue, count, left, term, host, beat, age, due, missed,
                     author, unwritten, late, pc>>
  BY DEF HandlerReturns, HandlerPanics, Consumer!HandlerReturns,
         Consumer!HandlerPanics, Consumer!SetJob
<1>2. ASSUME NEW e \in Deliveries \ {d}
      PROVE  DeliveryOK(e)'
  BY <1>0, <1>1, TimelyOthers DEF FocusKept, TimeTypes
<1>3. DeliveryOK(d)'
  <2>1. job'[d] \in {"stopping", "leaving", "gone"} /\ pc'[d] \notin Busy
    BY <1>0, <1>1, Places DEF TimeTypes
  <2>2. ActiveOK(d)'
    BY <1>0, <1>1, <2>1 DEF DeliveryOK, ActiveOK, Active
  <2>3. AuthorOK(d)'
    BY <1>0, <1>1 DEF DeliveryOK, AuthorOK
  <2> QED
    BY <1>0, <1>1, <2>1, <2>2, <2>3
       DEF DeliveryOK, PlacedOK, BeatOK, Busy, Handler!Extracting,
           Handler!Deferred, Handler!Preparing, Handler!PerEntry
<1>4. DeletedIsReported'
  BY <1>1, ReportStays DEF TimelyInv, Kept
<1> QED
  BY <1>2, <1>3, <1>4 DEF Kept

(* When time passes, every active delivery is in its handler, in a pod      *)
(* without SIGTERM, and its heartbeat runs unless the message was deleted.  *)
LEMMA TimeFindsHandlers ==
  ASSUME TimelyInv, Tick, \A e \in Deliveries : ~Overtaken(e),
         NEW d \in Deliveries, Active(d)
  PROVE  /\ job[d] = "handling" /\ ~term[host[d]]
         /\ queue[Focus] = "inflight" => Consumer!Beating(d) /\ ~due[d]
<1>1. /\ ~Hurrying(d) /\ ~Consumer!Hurrying(d) /\ DeliveryOK(d)
      /\ Consumer!Beating(d) => ~due[d]
  BY Followed
     DEF TimelyInv, Timely, Kept, Tick, Consumer!Tick, Consumer!Elapse
<1>2. job[d] = "handling"
  BY <1>1 DEF Consumer!Hurrying, Active
<1>3. Running(d) /\ live[d]
  BY <1>1, <1>2 DEF Hurrying
<1>4. ~term[host[d]]
  BY <1>2, <1>3 DEF Overtaken
<1>5. queue[Focus] = "inflight" => Consumer!Beating(d)
  BY <1>1, <1>2, <1>4
     DEF DeliveryOK, BeatOK, Consumer!Beating, Consumer!Canceled
<1> QED
  BY <1>1, <1>2, <1>4, <1>5

(* A tick takes one off the visibility and off the reserve.                 *)
LEMMA ReserveTicks ==
  ASSUME TimeTypes, NEW d \in Deliveries, ~due[d],
         age'[d] = age[d] + 1, missed'[d] = missed[d],
         due'[d] = ((age[d] + 1) % Interval = 0)
  PROVE  Reserve(d)' = Reserve(d) - 1
<1> DEFINE c == (MaxMissed - missed[d]) * Interval
           r == age[d] % Interval
           s == (age[d] + 1) % Interval
<1>0. d \in Consumer!Deliveries
  BY Followed
<1>1. c \in Nat /\ Interval \in Nat \ {0}
  BY <1>0, Budget DEF TimeTypes
<1>2. r \in 0..(Interval - 1) /\ ((s = 0 /\ r = Interval - 1) \/ s = r + 1)
  BY <1>0, Budget, ConsumerAssumed, SP!NextRemainder DEF TimeTypes
<1>3. Reserve(d) = (Interval - r) + c
  BY DEF Reserve
<1>4. Reserve(d)' = (IF s = 0 THEN 0 ELSE Interval - s) + c
  BY DEF Reserve
<1> HIDE DEF c, r, s
<1> QED
  BY <1>1, <1>2, <1>3, <1>4

LEMMA TimelyTick ==
  ASSUME TimelyInv, Tick, \A e \in Deliveries : ~Overtaken(e)
  PROVE  Kept'
<1> USE DEF ConsumerOnly, handlerVars, history
<1>1. /\ left' = [m \in Messages |->
                    IF queue[m] = "inflight" THEN left[m] - 1 ELSE left[m]]
      /\ queue' = [m \in Messages |->
                     IF queue[m] = "inflight" /\ left[m] = 1 THEN "visible"
                                                             ELSE queue[m]]
      /\ age' = [d \in Consumer!Deliveries |->
                   IF Consumer!Beating(d) THEN age[d] + 1 ELSE age[d]]
      /\ due' = [d \in Consumer!Deliveries |->
                   due[d] \/ (Consumer!Beating(d) /\ (age[d] + 1) % Interval = 0)]
      /\ UNCHANGED <<count, term, job, host, beat, missed, pc, author,
                     unwritten, late>>
      /\ \A d \in Consumer!Deliveries : Consumer!Beating(d) => ~due[d]
  BY DEF Tick, Consumer!Tick, Consumer!Elapse
<1>2. TimeTypes /\ Focus \in Messages /\ Deliveries \subseteq Consumer!Deliveries
  BY Followed DEF TimelyInv
<1>3. ASSUME NEW d \in Deliveries
      PROVE  DeliveryOK(d)'
  <2>0. d \in Consumer!Deliveries /\ DeliveryOK(d)
    BY <1>2 DEF TimelyInv, Kept
  <2>1. Active(d)' = Active(d)
    BY <1>1 DEF Active
  <2>2. ASSUME Active(d), queue[Focus] = "inflight"
        PROVE  /\ queue'[Focus] = "inflight" /\ beat'[d]
               /\ left'[Focus] > Reserve(d)'
    <3>1. /\ job[d] = "handling" /\ ~term[host[d]]
          /\ Consumer!Beating(d) /\ ~due[d]
      BY <2>2, TimeFindsHandlers
    <3>2. /\ age'[d] = age[d] + 1 /\ missed'[d] = missed[d]
          /\ due'[d] = ((age[d] + 1) % Interval = 0)
      BY <1>1, <2>0, <3>1
    <3>3. Reserve(d)' = Reserve(d) - 1
      BY <1>2, <3>1, <3>2, ReserveTicks
    <3>4. Reserve(d) \in Nat /\ Reserve(d) > 0
      BY <1>2, <3>1, ReserveFacts
    <3>5. left[Focus] \in Nat /\ left[Focus] > Reserve(d)
      BY <1>2, <2>0, <2>2, <3>1 DEF DeliveryOK, BeatOK, TimeTypes
    <3>6. left'[Focus] = left[Focus] - 1 /\ queue'[Focus] = "inflight"
      BY <1>1, <1>2, <2>2, <3>4, <3>5
    <3>7. beat'[d]
      BY <1>1, <3>1 DEF Consumer!Beating
    <3> QED
      BY <3>3, <3>4, <3>5, <3>6, <3>7
  <2>3. queue[Focus] # "inflight" => queue'[Focus] = queue[Focus]
    BY <1>1, <1>2
  <2>4. ActiveOK(d)'
    BY <1>1, <2>0, <2>1, <2>2, <2>3 DEF DeliveryOK, ActiveOK
  <2>5. BeatOK(d)'
    <3>1. CASE Consumer!Beating(d)
      <4>1. ~due[d] /\ age'[d] = age[d] + 1
            /\ due'[d] = ((age[d] + 1) % Interval = 0)
        BY <1>1, <2>0, <3>1
      <4>2. job[d] \notin {"none", "batch"}
        BY <2>0, <3>1 DEF DeliveryOK, BeatOK, Consumer!Beating
      <4> QED
        BY <1>1, <2>1, <2>2, <2>3, <4>1, <4>2 DEF BeatOK
    <3>2. CASE ~Consumer!Beating(d)
      <4>1. age'[d] = age[d] /\ due'[d] = due[d]
        BY <1>1, <1>2, <2>0, <3>2 DEF TimeTypes
      <4> QED
        BY <1>1, <2>0, <2>1, <2>2, <2>3, <4>1 DEF DeliveryOK, BeatOK
    <3> QED
      BY <3>1, <3>2
  <2> QED
    BY <1>1, <2>0, <2>4, <2>5
       DEF DeliveryOK, PlacedOK, AuthorOK, Busy, Handler!Extracting,
           Handler!Deferred, Handler!Preparing, Handler!PerEntry
<1>4. DeletedIsReported'
  BY <1>1, <1>2, ReportStays DEF TimelyInv, Kept
<1> QED
  BY <1>3, <1>4 DEF Kept
-----------------------------------------------------------------------------
LEMMA TimelyConsumerStep ==
  ASSUME TimelyInv, ConsumerStep
  PROVE  Kept'
<1>1. ConsumerOnly
  BY DEF ConsumerStep
<1>2. CASE \E m \in Messages : Consumer!DeadLetter(m)
  BY <1>1, <1>2, TimelyDeadLetter
<1>3. ASSUME NEW p \in Pods, Consumer!RunStep(p) \/ Consumer!PodFault(p)
      PROVE  Kept'
  <2>1. \/ Consumer!Receive(p) \/ Consumer!ReceiveLost(p)
        \/ Consumer!BatchDone(p) \/ Consumer!ReceiveTimesOut(p)
        \/ Consumer!StartDrain(p) \/ Consumer!Sigterm(p)
        \/ Consumer!PodEnds(p)
    BY <1>3 DEF Consumer!RunStep, Consumer!PodFault, Consumer!DrainDone,
                Consumer!DrainDeadline, Consumer!Crash
  <2> QED
    BY <1>1, <2>1, TimelyReceive, TimelyPodMoves, TimelyPodEnds
<1>4. ASSUME NEW d \in Consumer!Deliveries,
             \/ Consumer!HeartbeatStopped(d) \/ Consumer!Delete(d)
             \/ Consumer!HeartbeatStep(d)
      PROVE  Kept'
  <2>1. CASE d \in Deliveries
    BY <1>1, <1>4, <2>1, TimelyStopped, TimelyDelete, TimelyBeat
  <2>2. CASE d \notin Deliveries
    BY <1>1, <1>4, <2>2, TimelyElsewhere
  <2> QED
    BY <2>1, <2>2
<1> QED
  BY <1>2, <1>3, <1>4 DEF ConsumerStep

LEMMA TimelyNext == TimelyInv /\ [Next]_vars => TimelyInv'
<1> SUFFICES ASSUME TimelyInv, [Next]_vars
             PROVE  TimelyInv'
  OBVIOUS
<1>1. Inv' /\ SP!TypeInv' /\ Timely'
  BY InvNext, ConsumerNext, ConsumerAssumed, SP!TypeStep
     DEF TimelyInv, Timely, Slack
<1>2. TimeTypes'
  <2>1. (SP!TypeInv => TimeTypes)'
    BY ConsumerTypes, PTL
  <2> QED
    BY <1>1, <2>1
<1>3. Kept'
  <2>1. CASE \E d \in Deliveries : Overtake(d)
    BY <2>1, TimelyOvertake
  <2>2. CASE Tick /\ \A d \in Deliveries : ~Overtaken(d)
    BY <2>2, TimelyTick
  <2>3. CASE ConsumerStep
    BY <2>3, TimelyConsumerStep
  <2>4. ASSUME NEW d \in Deliveries, ~Orphaned(d),
               \/ Dispatch(d) \/ HandlerStep(d)
               \/ HandlerReturns(d) \/ HandlerPanics(d)
        PROVE  Kept'
    BY <2>4, TimelyDispatch, TimelyHandlerStep, TimelyAnswer
  <2>5. ASSUME NEW d \in Consumer!Deliveries \ Deliveries, OtherWorker(d)
        PROVE  Kept'
    BY <2>5, TimelyElsewhere
  <2>6. CASE UNCHANGED vars
    BY <2>6, NoneMoves
       DEF vars, consumerVars, ConsumerOnly, FocusKept
  <2> QED
    BY <2>1, <2>2, <2>3, <2>4, <2>5, <2>6 DEF Next
<1> QED
  BY <1>1, <1>2, <1>3 DEF TimelyInv

LEMMA TimelyInvariant == Timely /\ Spec => []TimelyInv
BY TimelyInit, TimelyNext, PTL DEF Spec

(* Handlers that began in time never work on an archive together (FR-9,     *)
(* NFR-Z-034), for any number of messages, slots, pods and receipts,        *)
(* however long messages wait for their slots, and whatever fails and       *)
(* whatever the handlers do that began late, as long as the timing is that  *)
(* of Timely.                                                               *)
THEOREM HandlersExclude == Timely /\ Spec => []OneHandlerAtATime
<1>1. TimelyInv => OneHandlerAtATime
  <2> SUFFICES ASSUME TimelyInv,
                      NEW c \in Deliveries \ late, NEW d \in Deliveries \ late,
                      Running(c), Running(d), ~Orphaned(c), ~Orphaned(d)
               PROVE  c = d
    BY DEF OneHandlerAtATime
  <2>1. Active(c) /\ Active(d)
    BY RunningIsActive DEF Running, Busy
  <2> QED
    BY <2>1, OneActive
<1> QED
  BY <1>1, TimelyInvariant, PTL

(* With that timing, and as long as no handler of the message began late,   *)
(* the slipsheet of a deleted message is that of its last receipt, or the   *)
(* write of that one failed by itself (BR-SLIP-002).                        *)
THEOREM DeletedReported == Timely /\ Spec => []DeletedIsReported
<1>1. TimelyInv => DeletedIsReported
  BY DEF TimelyInv, Kept
<1> QED
  BY <1>1, TimelyInvariant, PTL
=============================================================================
