------------------------------ MODULE Pipeline ------------------------------
(***************************************************************************)
(* A message, from the queue to the report: the SQS consumer of every pod  *)
(* (SqsConsumer) with extraction.Service.Process (Extraction) as its       *)
(* handler, put together as in app.Service.Run.  The k-th receipt of the   *)
(* message is the k-th delivery of the archive, so the archive is          *)
(* processed again exactly when the queue, a heartbeat, a drain, a panic   *)
(* or a crash has brought the message back.                                *)
(*                                                                         *)
(* Deliveries of different messages share no object, row or slipsheet; all *)
(* they compete for are the slots of a pod.  So one message, Focus, is     *)
(* followed through its archive, and the handlers of the others are those  *)
(* of SqsConsumer, which end or panic when they like.                      *)
(*                                                                         *)
(* Every step is a step of the consumer, of one handler, or of both where  *)
(* one calls the other.                                                    *)
(***************************************************************************)
EXTENDS Naturals

CONSTANTS
  Focus,        (* the message whose archive is followed                    *)
  Messages, Valid, Pods, MaxInFlight, BatchSize, FirstVisibility, Visibility,
  Interval, MaxHandling, MaxReceives, MaxMissed, Faults,
  Prompt,                                                (* of SqsConsumer  *)
  Kinds, NumEntries, MaxAttempts                         (* of Extraction   *)

VARIABLES
  queue, count, left, pod, term, job, host, beat, age, due, missed, held,
  handled,                                               (* of SqsConsumer  *)
  archive, pc, ctx, live, entries, why, attempt, fresh, status, reason,
  objects, rows, slip,                                   (* of Extraction   *)
  author,     (* history: the delivery whose slipsheet is there             *)
  unwritten,  (* history: deliveries whose slipsheet write failed although  *)
              (* its context was live                                       *)
  late        (* history: deliveries of Focus whose worker began late       *)

Consumer   == INSTANCE SqsConsumer
Deliveries == {Focus} \X (1..MaxReceives)
Handler    == INSTANCE Extraction

consumerVars == <<queue, count, left, pod, term, job, host, beat, age, due,
                  missed, held, handled>>
handlerVars  == <<archive, pc, ctx, live, entries, why, attempt, fresh, status,
                  reason, objects, rows, slip>>
history      == <<author, unwritten, late>>
vars         == <<consumerVars, handlerVars, history>>

ASSUME PipelineAssumption ==
  /\ Focus \in Messages
  /\ Consumer!ConsumerAssumption
  /\ Handler!ExtractionAssumption

NoDelivery == <<"none", 0>>

Init ==
  /\ Consumer!Init
  /\ Handler!Init
  /\ author = NoDelivery
  /\ unwritten = {}
  /\ late = {}

Running(d) == pc[d] \in Handler!Extracting \cup Handler!Deferred

ConsumerOnly == UNCHANGED <<handlerVars, history>>
HandlerOnly  == UNCHANGED consumerVars

-----------------------------------------------------------------------------
(* The consumer calls the handler and gets its answer                       *)

(* The ticks from the start of a heartbeat to the call that must succeed.   *)
Slack == (MaxMissed + 1) * Interval

(* A worker begins in time if its receipt holds the message, and will still *)
(* hold it when the heartbeat gets through.  One that has waited for a slot *)
(* may begin late.                                                          *)
InTime(d) ==
  /\ Consumer!Latest(d)
  /\ queue[Focus] = "inflight"
  /\ left[Focus] > Slack

Dispatch(d) ==
  /\ Consumer!Dispatch(d)
  /\ IF Consumer!Parses(Focus) THEN Handler!Begin(d)
                                ELSE UNCHANGED handlerVars
  /\ late' = IF InTime(d) THEN late ELSE late \cup {d}
  /\ UNCHANGED <<author, unwritten>>

(* Process reports no error, whatever the status: the message may go. *)
HandlerReturns(d) ==
  /\ pc[d] = "returned"
  /\ Consumer!HandlerReturns(d)
  /\ job'[d] = "stopping"
  /\ ConsumerOnly

HandlerPanics(d) ==
  /\ pc[d] = "panicked"
  /\ Consumer!HandlerPanics(d)
  /\ ConsumerOnly

(* The worker of another message. *)
OtherWorker(d) ==
  /\ \/ Consumer!Dispatch(d)
     \/ Consumer!HandlerReturns(d)
     \/ Consumer!HandlerPanics(d)
  /\ ConsumerOnly

-----------------------------------------------------------------------------
(* The handler between the two                                              *)

(* A done root context, or the end of the process, reaches the handler      *)
(* before anything else happens.                                            *)
Orphaned(d)   == Running(d) /\ job[d] = "gone"
Overtaken(d)  == Running(d) /\ job[d] # "gone" /\ live[d] /\ term[host[d]]

Overtake(d) ==
  /\ \/ Orphaned(d) /\ Handler!Crash(d)
     \/ Overtaken(d) /\ Handler!Drain(d)
  /\ HandlerOnly
  /\ UNCHANGED history

HandlerStep(d) ==
  /\ \/ Handler!Step(d)
     \/ Handler!Deadline(d)
     \/ "panic" \in Faults /\ Handler!Panic(d)
  /\ LET writes == pc[d] \in Handler!Deferred /\ live[d]
         report == [status |-> status[d], reason |-> reason[d],
                    children |-> entries[d]]
     IN /\ author' = IF writes /\ slip' = report THEN d ELSE author
        /\ unwritten' = IF writes /\ slip' # report THEN unwritten \cup {d}
                                                    ELSE unwritten
  /\ UNCHANGED late
  /\ HandlerOnly

-----------------------------------------------------------------------------
(* A handler whose context is canceled returns: the call it is in is cut    *)
(* off and it starts no other.  A heartbeat whose context is done ends.     *)
Hurrying(d) ==
  \/ d \in Deliveries /\ Running(d) /\ ~live[d]
  \/ d \in Deliveries /\ job[d] = "handling" /\ ~Running(d)
  \/ d \notin Deliveries /\ job[d] = "handling" /\ term[host[d]]
  \/ beat[d] /\ ~Consumer!Beating(d)

Tick ==
  /\ Prompt => \A d \in Consumer!Deliveries : ~Hurrying(d)
  /\ Consumer!Tick
  /\ ConsumerOnly

ConsumerStep ==
  /\ \/ \E m \in Messages : Consumer!DeadLetter(m)
     \/ \E p \in Pods : Consumer!RunStep(p) \/ Consumer!PodFault(p)
     \/ \E d \in Consumer!Deliveries : \/ Consumer!HeartbeatStopped(d)
                                       \/ Consumer!Delete(d)
                                       \/ Consumer!HeartbeatStep(d)
  /\ ConsumerOnly

Next ==
  \/ \E d \in Deliveries : Overtake(d)
  \/ /\ \A d \in Deliveries : ~Orphaned(d) /\ ~Overtaken(d)
     /\ \/ Tick
        \/ ConsumerStep
        \/ \E d \in Consumer!Deliveries \ Deliveries : OtherWorker(d)
        \/ \E d \in Deliveries : \/ Dispatch(d) \/ HandlerStep(d)
                                 \/ HandlerReturns(d) \/ HandlerPanics(d)

Spec == Init /\ [][Next]_vars

-----------------------------------------------------------------------------
(* When the message is deleted, the slipsheet that is there is the one of   *)
(* its last receipt, or the write of that one failed by itself, as long as  *)
(* no worker began late: neither a drain, a crash nor an earlier receipt    *)
(* that ends late makes a message disappear without its report (BR-DLQ-001, *)
(* BR-SLIP-002, BR-SLIP-006).  The drain cancels both the report and the    *)
(* delete; a delete on a context of its own would lose the report.          *)
DeletedIsReported ==
  queue[Focus] = "deleted" /\ Focus \in Valid /\ late = {} =>
    \/ author = <<Focus, count[Focus]>>
    \/ <<Focus, count[Focus]>> \in unwritten

(* Whatever the timing, and also where receipts overlap: no valid message    *)
(* is deleted before one of its handlers has left a slipsheet, unless that   *)
(* handler's write failed by itself.                                         *)
DeletedLeavesReport ==
  queue[Focus] = "deleted" /\ Focus \in Valid =>
    slip # Handler!NoSlip \/ unwritten # {}

(* Of the handlers that began in time no two work on the archive together,  *)
(* however long other receipts wait for a slot, although a drained pod      *)
(* stops its heartbeats first: as long as no more than MaxMissed heartbeat  *)
(* calls fail in a row, a handler that loses its visibility has ended       *)
(* before another one begins (FR-9, NFR-Z-034).                             *)
OneHandlerAtATime ==
  \A c, d \in Deliveries \ late :
    Running(c) /\ Running(d) /\ ~Orphaned(c) /\ ~Orphaned(d) => c = d

(* A message that a heartbeat holds is not handed out again (FR-9): that of *)
(* SqsConsumer, with Process for its handler.                               *)
HeldIsNotHandedOut == Consumer!HeldIsNotHandedOut

-----------------------------------------------------------------------------
(* What the documents say and the code does not do                          *)

(* The answers on heartbeats in requirement-verification-questions.md: they *)
(* avoid that a message is delivered and processed twice at the same time.  *)
NoDoubleProcessing ==
  \A c, d \in Deliveries :
    Running(c) /\ Running(d) /\ ~Orphaned(c) /\ ~Orphaned(d) => c = d
=============================================================================
