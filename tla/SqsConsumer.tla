---------------------------- MODULE SqsConsumer ----------------------------
(***************************************************************************)
(* sqs.Adapter (internal/sqs/adapter.go) in every pod of the service: the  *)
(* receive loop with its bounded pool of workers, dispatch of a message to *)
(* the handler, the heartbeat of each message, deletion and the drain after *)
(* SIGTERM; and, as the adapter's environment, the SQS queue with its      *)
(* visibility timeout, its receive count and its dead-letter queue.        *)
(*                                                                         *)
(* A delivery is one receipt of a message: <<m, k>> is the k-th.           *)
(* Time passes in ticks.  A heartbeat call and the reaction to a ticker    *)
(* take less than a tick; what else takes time is the choice of Prompt.    *)
(***************************************************************************)
EXTENDS Naturals, FiniteSets

CONSTANTS
  Messages,
  Valid,         (* the messages whose body passes parseMessage              *)
  Pods,
  MaxInFlight,   (* SQSConfig.MaxInFlight                                    *)
  BatchSize,     (* MaxNumberOfMessages of a receive: 10 in the code         *)
  FirstVisibility, (* the visibility timeout of a receive, in ticks: that of *)
                 (* SQSConfig, or the queue's own when that one is 0         *)
  Visibility,    (* the visibility timeout of a heartbeat, in ticks          *)
  Interval,      (* SQSConfig.HeartbeatIntervalSec, in ticks                 *)
  MaxHandling,   (* bound on the time a handler runs (rule 10), in ticks     *)
  MaxReceives,   (* the queue's maxReceiveCount                              *)
  MaxMissed,     (* bound on consecutive heartbeat calls that fail           *)
  Faults,        (* what may go wrong: subset of FaultKinds                  *)
  Prompt         (* goroutines that can run, and DeleteMessage calls, take   *)
                 (* less than a tick; if not, they take any time             *)

FaultKinds == {"receive", "delete", "panic", "sigterm", "crash"}

ASSUME ConsumerAssumption ==
  /\ Valid \subseteq Messages
  /\ MaxInFlight \in Nat \ {0} /\ BatchSize \in Nat \ {0}
  /\ Interval \in Nat \ {0}
  /\ MaxHandling \in Nat /\ MaxReceives \in Nat /\ MaxMissed \in Nat
  /\ FirstVisibility \in Nat \ {0}
  /\ Visibility \in Nat \ {0}
  /\ Faults \subseteq FaultKinds
  /\ Prompt \in BOOLEAN

LongestVisibility ==
  IF FirstVisibility > Visibility THEN FirstVisibility ELSE Visibility

Deliveries == Messages \X (1..MaxReceives)

VARIABLES
  (* the queue *)
  queue,    (* queue[m]: visible, in flight, deleted or dead-lettered        *)
  count,    (* count[m]: receives so far                                     *)
  left,     (* left[m]: ticks until an in-flight message is visible again    *)
  (* the pods *)
  pod,      (* pod[p]: where Run is                                          *)
  term,     (* term[p]: the root context is canceled (SIGTERM)               *)
  (* the deliveries *)
  job,      (* job[d]: where the delivery is                                 *)
  host,     (* host[d]: the pod that received it                             *)
  beat,     (* beat[d]: the heartbeat goroutine runs                         *)
  age,      (* age[d]: ticks since the heartbeat started                     *)
  due,      (* due[d]: the ticker has fired                                  *)
  missed,   (* missed[d]: consecutive failed heartbeat calls                 *)
  (* history *)
  held,     (* held[d]: a heartbeat call has succeeded                       *)
  handled   (* messages for which a handler said deleteMsg                   *)

queueVars == <<queue, count, left>>
beatVars  == <<beat, age, due, missed, held>>
vars == <<queueVars, pod, term, job, host, beatVars, handled>>

NoPod == "none"
Jobs  == {"none", "batch", "handling", "stopping", "leaving", "deleting",
          "gone"}

TypeOK ==
  /\ queue \in [Messages -> {"visible", "inflight", "deleted", "dead"}]
  /\ count \in [Messages -> 0..MaxReceives]
  /\ left \in [Messages -> 0..LongestVisibility]
  /\ pod \in [Pods -> {"receiving", "dispatching", "draining", "exited"}]
  /\ term \in [Pods -> BOOLEAN]
  /\ job \in [Deliveries -> Jobs]
  /\ host \in [Deliveries -> Pods \cup {NoPod}]
  /\ beat \in [Deliveries -> BOOLEAN]
  /\ age \in [Deliveries -> 0..MaxHandling]
  /\ due \in [Deliveries -> BOOLEAN]
  /\ missed \in [Deliveries -> 0..MaxMissed]
  /\ held \in [Deliveries -> BOOLEAN]
  /\ handled \subseteq Messages

Init ==
  /\ queue = [m \in Messages |-> "visible"]
  /\ count = [m \in Messages |-> 0]
  /\ left = [m \in Messages |-> 0]
  /\ pod = [p \in Pods |-> "receiving"]
  /\ term = [p \in Pods |-> FALSE]
  /\ job = [d \in Deliveries |-> "none"]
  /\ host = [d \in Deliveries |-> NoPod]
  /\ beat = [d \in Deliveries |-> FALSE]
  /\ age = [d \in Deliveries |-> 0]
  /\ due = [d \in Deliveries |-> FALSE]
  /\ missed = [d \in Deliveries |-> 0]
  /\ held = [d \in Deliveries |-> FALSE]
  /\ handled = {}

(* parseMessage: the body is a claim check with all its fields.             *)
Parses(m)  == m \in Valid

Message(d) == d[1]
Latest(d)  == count[Message(d)] = d[2]
On(p)      == {d \in Deliveries : host[d] = p /\ job[d] \notin {"none", "gone"}}
Waiting(p) == {d \in On(p) : job[d] = "batch"}
Working(p) == On(p) \ Waiting(p)       (* each holds one of the slots        *)

SetJob(d, j) == job' = [job EXCEPT ![d] = j]

(* Mutant of Canceled: workerCancel is left to the deferred call. *)
CanceledByDeferOnly(d) == \/ term[host[d]]
                          \/ job[d] = "gone"

(* Mutant of Canceled: no deferred workerCancel, so a panic cancels nothing. *)
CanceledUnlessPanic(d) == \/ term[host[d]]
                          \/ job[d] \in {"stopping", "leaving"}
                          \/ job[d] = "deleting" /\ Parses(Message(d))

(* The worker context is done: SIGTERM, or workerCancel.  A message that    *)
(* does not parse is deleted before workerCancel is called.                 *)
Canceled(d) == \/ term[host[d]]
               \/ job[d] \in {"stopping", "leaving", "gone"}
               \/ job[d] = "deleting" /\ Parses(Message(d))
Beating(d)  == beat[d] /\ ~Canceled(d)

(* A worker other than in its handler, or a message with a slot to go to.   *)
Hurrying(d) ==
  \/ job[d] \in {"stopping", "leaving", "deleting"}
  \/ /\ job[d] = "batch" /\ pod[host[d]] = "dispatching"
     /\ Cardinality(Working(host[d])) < MaxInFlight

-----------------------------------------------------------------------------
(* SQS: external                                                            *)

HandOut(S) ==
  /\ S # {}
  /\ Cardinality(S) <= BatchSize
  /\ \A m \in S : queue[m] = "visible" /\ count[m] < MaxReceives
  /\ queue' = [m \in Messages |-> IF m \in S THEN "inflight" ELSE queue[m]]
  /\ count' = [m \in Messages |-> IF m \in S THEN count[m] + 1 ELSE count[m]]
  /\ left'  = [m \in Messages |-> IF m \in S THEN FirstVisibility ELSE left[m]]

(* The redrive policy. *)
DeadLetter(m) ==
  /\ queue[m] = "visible"
  /\ count[m] = MaxReceives
  /\ queue' = [queue EXCEPT ![m] = "dead"]
  /\ UNCHANGED <<count, left, pod, term, job, host, beatVars, handled>>

(* Time: visibility runs out, tickers fire. *)
Elapse ==
  /\ Prompt => \A d \in Deliveries : ~Hurrying(d)
  /\ \/ \E m \in Messages : queue[m] = "inflight"
     \/ \E d \in Deliveries : Beating(d)
  /\ left' = [m \in Messages |->
                IF queue[m] = "inflight" THEN left[m] - 1 ELSE left[m]]
  /\ queue' = [m \in Messages |->
                 IF queue[m] = "inflight" /\ left[m] = 1 THEN "visible"
                                                          ELSE queue[m]]
  /\ age' = [d \in Deliveries |-> IF Beating(d) THEN age[d] + 1 ELSE age[d]]
  /\ due' = [d \in Deliveries |->
               due[d] \/ (Beating(d) /\ (age[d] + 1) % Interval = 0)]
  /\ UNCHANGED <<count, pod, term, job, host, beat, missed, held, handled>>

(* Mutant of Tick: the handler's context has no deadline. *)
TickWithoutRule10 ==
  /\ \A d \in Deliveries : Beating(d) => ~due[d]
  /\ Elapse

(* No handler outlives rule 10, and a ticker that fired is seen to.         *)
Tick ==
  /\ \A d \in Deliveries : Beating(d) => ~due[d] /\ age[d] < MaxHandling
  /\ Elapse

-----------------------------------------------------------------------------
(* Adapter.Run                                                              *)

Receive(p) ==
  /\ pod[p] = "receiving"
  /\ ~term[p]
  /\ \E S \in SUBSET Messages :
       /\ HandOut(S)
       /\ LET new == {<<m, count[m] + 1>> : m \in S}
          IN /\ job' = [d \in Deliveries |->
                          IF d \in new THEN "batch" ELSE job[d]]
             /\ host' = [d \in Deliveries |-> IF d \in new THEN p ELSE host[d]]
  /\ pod' = [pod EXCEPT ![p] = "dispatching"]
  /\ UNCHANGED <<term, beatVars, handled>>

(* The call fails, or is canceled, after SQS has handed the messages out.   *)
ReceiveLost(p) ==
  /\ pod[p] = "receiving"
  /\ "receive" \in Faults \/ term[p]
  /\ \E S \in SUBSET Messages : HandOut(S)
  /\ UNCHANGED <<pod, term, job, host, beatVars, handled>>

(* Mutant of Dispatch: no slot is taken. *)
DispatchUnbounded(d) ==
  /\ job[d] = "batch"
  /\ pod[host[d]] = "dispatching"
  /\ SetJob(d, IF Parses(Message(d)) THEN "handling" ELSE "deleting")
  /\ beat' = [beat EXCEPT ![d] = TRUE]
  /\ UNCHANGED <<queueVars, pod, term, host, age, due, missed, held, handled>>

(* A slot is free: a worker starts the heartbeat and parses the message.    *)
(* When SIGTERM has come as well, the select may still choose the slot.     *)
Dispatch(d) ==
  /\ job[d] = "batch"
  /\ pod[host[d]] = "dispatching"
  /\ Cardinality(Working(host[d])) < MaxInFlight
  /\ SetJob(d, IF Parses(Message(d)) THEN "handling" ELSE "deleting")
  /\ beat' = [beat EXCEPT ![d] = TRUE]
  /\ UNCHANGED <<queueVars, pod, term, host, age, due, missed, held, handled>>

BatchDone(p) ==
  /\ pod[p] = "dispatching"
  /\ Waiting(p) = {}
  /\ pod' = [pod EXCEPT ![p] = "receiving"]
  /\ UNCHANGED <<queueVars, term, job, host, beatVars, handled>>

(* The call runs into a timeout of its own (context deadline exceeded),     *)
(* which is taken for the end of receiveCtx.                                *)
ReceiveTimesOut(p) ==
  /\ "receive" \in Faults
  /\ pod[p] = "receiving"
  /\ pod' = [pod EXCEPT ![p] = "draining"]
  /\ UNCHANGED <<queueVars, term, job, host, beatVars, handled>>

(* receiveCtx is done: what is left of the batch is not dispatched.         *)
StartDrain(p) ==
  /\ pod[p] \in {"receiving", "dispatching"}
  /\ term[p]
  /\ pod' = [pod EXCEPT ![p] = "draining"]
  /\ UNCHANGED <<queueVars, term, job, host, beatVars, handled>>

(* The process ends and its goroutines with it. *)
PodEnds(p) ==
  /\ pod' = [pod EXCEPT ![p] = "exited"]
  /\ job' = [d \in Deliveries |-> IF d \in On(p) THEN "gone" ELSE job[d]]
  /\ beat' = [d \in Deliveries |-> beat[d] /\ host[d] # p]
  /\ age' = [d \in Deliveries |-> IF host[d] = p THEN 0 ELSE age[d]]
  /\ due' = [d \in Deliveries |-> due[d] /\ host[d] # p]
  /\ missed' = [d \in Deliveries |-> IF host[d] = p THEN 0 ELSE missed[d]]
  /\ held' = [d \in Deliveries |-> held[d] /\ host[d] # p]
  /\ UNCHANGED <<queueVars, term, host, handled>>

(* Mutant of DrainDone: the wait group also counts undispatched messages. *)
DrainDoneAll(p) ==
  /\ pod[p] = "draining"
  /\ On(p) = {}
  /\ PodEnds(p)

DrainDone(p) ==
  /\ pod[p] = "draining"
  /\ Working(p) = {}
  /\ PodEnds(p)

(* GracefulShutdownTimeoutSec has passed. *)
DrainDeadline(p) ==
  /\ pod[p] = "draining"
  /\ Working(p) # {}
  /\ PodEnds(p)

-----------------------------------------------------------------------------
(* Adapter.dispatch                                                         *)

(* Mutant of HandlerReturns: the error is not looked at. *)
HandlerReturnsUnchecked(d) ==
  /\ job[d] = "handling"
  /\ SetJob(d, "stopping")
  /\ handled' \in {handled, handled \cup {Message(d)}}
  /\ held' = [held EXCEPT ![d] = FALSE]
  /\ UNCHANGED <<queueVars, pod, term, host, beat, age, due, missed>>

(* The handler returns: workerCancel, then wait for the heartbeat.          *)
HandlerReturns(d) ==
  /\ job[d] = "handling"
  /\ \/ /\ SetJob(d, "stopping")                            (* deleteMsg    *)
        /\ handled' = handled \cup {Message(d)}
     \/ /\ SetJob(d, "leaving")
        /\ UNCHANGED handled
  /\ held' = [held EXCEPT ![d] = FALSE]
  /\ UNCHANGED <<queueVars, pod, term, host, beat, age, due, missed>>

(* Mutant of HandlerPanics: the recovered worker goes on to the delete. *)
HandlerPanicsDeletes(d) ==
  /\ "panic" \in Faults
  /\ job[d] = "handling"
  /\ SetJob(d, "stopping")
  /\ held' = [held EXCEPT ![d] = FALSE]
  /\ UNCHANGED <<queueVars, pod, term, host, beat, age, due, missed, handled>>

(* Recovered; the deferred calls cancel the worker context and free the     *)
(* slot, nobody waits for the heartbeat.                                    *)
HandlerPanics(d) ==
  /\ "panic" \in Faults
  /\ job[d] = "handling"
  /\ SetJob(d, "gone")
  /\ held' = [held EXCEPT ![d] = FALSE]
  /\ UNCHANGED <<queueVars, pod, term, host, beat, age, due, missed, handled>>

(* Mutant of HeartbeatStopped: the worker does not wait for it. *)
HeartbeatStoppedAtOnce(d) ==
  /\ \/ job[d] = "stopping" /\ SetJob(d, "deleting")
     \/ job[d] = "leaving" /\ SetJob(d, "gone")
  /\ UNCHANGED <<queueVars, pod, term, host, beatVars, handled>>

HeartbeatStopped(d) ==
  /\ ~beat[d]
  /\ \/ job[d] = "stopping" /\ SetJob(d, "deleting")
     \/ job[d] = "leaving" /\ SetJob(d, "gone")
  /\ UNCHANGED <<queueVars, pod, term, host, beatVars, handled>>

(* Mutant of Delete: on a context of its own, as after a drain one may wish. *)
DeleteOnOwnContext(d) ==
  LET m == Message(d)
  IN /\ job[d] = "deleting"
     /\ SetJob(d, IF Parses(m) THEN "gone" ELSE "leaving")
     /\ \/ /\ "delete" \in Faults \/ ~Latest(d)
                                 \/ queue[m] \in {"deleted", "dead"}
           /\ UNCHANGED <<queue, left>>
        \/ /\ queue[m] \in {"inflight", "visible"}
           /\ queue' = [queue EXCEPT ![m] = "deleted"]
           /\ left' = [left EXCEPT ![m] = 0]
     /\ UNCHANGED <<count, pod, term, host, beatVars, handled>>

(* deleteMessage, on the root context: after SIGTERM the call is not sent.  *)
(* SQS need not honour a receipt that is not the latest.                    *)
Delete(d) ==
  LET m == Message(d)
  IN /\ job[d] = "deleting"
     /\ SetJob(d, IF Parses(m) THEN "gone" ELSE "leaving")
     /\ \/ /\ term[host[d]] \/ "delete" \in Faults \/ ~Latest(d)
                            \/ queue[m] \in {"deleted", "dead"}
           /\ UNCHANGED <<queue, left>>
        \/ /\ ~term[host[d]]
           /\ queue[m] \in {"inflight", "visible"}
           /\ queue' = [queue EXCEPT ![m] = "deleted"]
           /\ left' = [left EXCEPT ![m] = 0]
     /\ UNCHANGED <<count, pod, term, host, beatVars, handled>>

-----------------------------------------------------------------------------
(* startHeartbeat                                                           *)

StopBeat(d) ==
  /\ beat' = [beat EXCEPT ![d] = FALSE]
  /\ age' = [age EXCEPT ![d] = 0]
  /\ due' = [due EXCEPT ![d] = FALSE]
  /\ missed' = [missed EXCEPT ![d] = 0]

BeatExit(d) ==
  /\ beat[d]
  /\ Canceled(d)
  /\ StopBeat(d)
  /\ UNCHANGED <<queueVars, pod, term, job, host, held, handled>>

(* Mutant of BeatExtends: it asks for the interval, not for the timeout. *)
BeatExtendsByInterval(d) ==
  /\ Beating(d) /\ due[d]
  /\ queue[Message(d)] = "inflight"
  /\ left' = [left EXCEPT ![Message(d)] = Interval]
  /\ due' = [due EXCEPT ![d] = FALSE]
  /\ missed' = [missed EXCEPT ![d] = 0]
  /\ held' = [held EXCEPT ![d] = Latest(d) /\ job[d] = "handling"]
  /\ UNCHANGED <<queue, count, pod, term, job, host, beat, age, handled>>

(* ChangeMessageVisibility takes effect. *)
BeatExtends(d) ==
  /\ Beating(d) /\ due[d]
  /\ queue[Message(d)] = "inflight"
  /\ left' = [left EXCEPT ![Message(d)] = Visibility]
  /\ due' = [due EXCEPT ![d] = FALSE]
  /\ missed' = [missed EXCEPT ![d] = 0]
  /\ held' = [held EXCEPT ![d] = Latest(d) /\ job[d] = "handling"]
  /\ UNCHANGED <<queue, count, pod, term, job, host, beat, age, handled>>

(* Mutant of BeatFails: the goroutine exits on any error. *)
BeatFailsForGood(d) ==
  /\ Beating(d) /\ due[d]
  /\ missed[d] < MaxMissed
  /\ StopBeat(d)
  /\ UNCHANGED <<queueVars, pod, term, job, host, held, handled>>

(* An error that is only logged: try again at the next tick. *)
BeatFails(d) ==
  /\ Beating(d) /\ due[d]
  /\ missed[d] < MaxMissed
  /\ missed' = [missed EXCEPT ![d] = @ + 1]
  /\ due' = [due EXCEPT ![d] = FALSE]
  /\ UNCHANGED <<queueVars, pod, term, job, host, beat, age, held, handled>>

(* ReceiptHandleIsInvalid or MessageNotInflight: the goroutine exits.       *)
BeatRefused(d) ==
  /\ Beating(d) /\ due[d]
  /\ queue[Message(d)] # "inflight" \/ ~Latest(d)
  /\ StopBeat(d)
  /\ UNCHANGED <<queueVars, pod, term, job, host, held, handled>>

-----------------------------------------------------------------------------
(* Failures of a pod                                                        *)

Sigterm(p) ==
  /\ "sigterm" \in Faults
  /\ pod[p] # "exited"
  /\ ~term[p]
  /\ term' = [term EXCEPT ![p] = TRUE]
  /\ UNCHANGED <<queueVars, pod, job, host, beatVars, handled>>

Crash(p) ==
  /\ "crash" \in Faults
  /\ pod[p] # "exited"
  /\ PodEnds(p)

-----------------------------------------------------------------------------
RunStep(p) == Receive(p) \/ BatchDone(p) \/ StartDrain(p) \/ DrainDone(p)
WorkerStep(d) ==
  Dispatch(d) \/ HandlerReturns(d) \/ HeartbeatStopped(d) \/ Delete(d)
HeartbeatStep(d) ==
  BeatExit(d) \/ BeatExtends(d) \/ BeatFails(d) \/ BeatRefused(d)
PodFault(p) ==
  \/ ReceiveLost(p) \/ ReceiveTimesOut(p)
  \/ DrainDeadline(p) \/ Sigterm(p) \/ Crash(p)

Next ==
  \/ Tick
  \/ \E m \in Messages : DeadLetter(m)
  \/ \E p \in Pods : RunStep(p) \/ PodFault(p)
  \/ \E d \in Deliveries : WorkerStep(d) \/ HeartbeatStep(d) \/ HandlerPanics(d)

(* Goroutines that can run do, the handler returns (its context has the     *)
(* deadline of rule 10), time passes and the redrive policy is applied.     *)
Fairness ==
  /\ WF_vars(Tick)
  /\ \A m \in Messages : WF_vars(DeadLetter(m))
  /\ \A p \in Pods : WF_vars(RunStep(p))
  /\ \A d \in Deliveries : WF_vars(WorkerStep(d)) /\ WF_vars(HeartbeatStep(d))

Spec == Init /\ [][Next]_vars /\ Fairness

-----------------------------------------------------------------------------
(* Safety                                                                   *)

(* No message is lost: one that was deleted had been handled to its end, or *)
(* can never be handled (BR-DLQ-001, BR-DLQ-002).                           *)
DeletedWasHandled ==
  \A m \in Messages : queue[m] = "deleted" => m \in handled \/ m \notin Valid

(* The pool stays bounded across panics, drains and redeliveries (Q2).      *)
PoolIsBounded == \A p \in Pods : Cardinality(Working(p)) <= MaxInFlight

(* The heartbeat of a handled message is over when its DeleteMessage is     *)
(* issued.                                                                  *)
HandledDeleteIsAlone ==
  \A d \in Deliveries : job[d] = "deleting" /\ Message(d) \in Valid => ~beat[d]

(* Once a heartbeat call has succeeded, and as long as no more than         *)
(* MaxMissed in a row fail, SQS does not hand the message out again while   *)
(* its handler has not answered, in a pod that is not draining (FR-9).      *)
(* True where the timeout of a heartbeat outlasts the intervals in which    *)
(* calls may fail.                                                          *)
HeldIsNotHandedOut ==
  [][\A d \in Deliveries :
       held[d] /\ job[d] = "handling" /\ ~term[host[d]] =>
         count'[Message(d)] = count[Message(d)]]_vars

(* The promise to the sender of a message.                                  *)
Promise == INSTANCE AtLeastOnce WITH
  fate     <- [m \in Messages |-> IF queue[m] \in {"visible", "inflight"}
                                    THEN "pending" ELSE queue[m]],
  receipts <- count,
  done     <- handled

(* Every step of the queue, of every pod, worker and heartbeat is a step of *)
(* the promise, or invisible: whatever fails, a message is deleted only     *)
(* once it was handled to its end or because it does not parse, and given   *)
(* up only after its last receipt (BR-DLQ-001, BR-DLQ-002).                 *)
ImplementsAtLeastOnce == Promise!Spec

-----------------------------------------------------------------------------
(* Liveness                                                                 *)

Settled(m) == queue[m] \in {"deleted", "dead"}

(* Every message is deleted or dead-lettered in the end, unless no pod      *)
(* survives: no slot, heartbeat or batch holds a message for ever.          *)
EveryMessageSettles ==
  \A m \in Messages : <>(Settled(m) \/ \A p \in Pods : pod[p] = "exited")

(* A pod that gets SIGTERM, or stops receiving for another reason, exits,   *)
(* without help of the drain deadline.                                      *)
DrainEnds ==
  \A p \in Pods : term[p] \/ pod[p] = "draining" ~> pod[p] = "exited"

-----------------------------------------------------------------------------
(* What the documents and comments say and the code does not do             *)

(* BR-HEARTBEAT-003: the heartbeat survives the drain until the worker      *)
(* completes.                                                               *)
HeartbeatSurvivesDrain ==
  \A d \in Deliveries :
    job[d] = "handling" /\ pod[host[d]] = "draining" => beat[d]

(* BR-DLQ-001: once the handler has reported a terminal outcome the message *)
(* is deleted, also when the outcome is "drain canceled".  Stated of the    *)
(* workers that finish in a pod that is still there.                        *)
TerminalIsDeleted ==
  \A d \in Deliveries :
    job[d] = "gone" /\ Message(d) \in handled /\ pod[host[d]] # "exited" =>
      queue[Message(d)] = "deleted"

(* startHeartbeat's comment: the caller waits for the heartbeat to stop     *)
(* before it issues DeleteMessage.                                          *)
DeleteIsAlone == \A d \in Deliveries : job[d] = "deleting" => ~beat[d]

(* NFR-Z-034: every in-flight message is kept invisible by heartbeats until *)
(* it is terminal; so a message that a running pod holds is not visible to  *)
(* the others.                                                              *)
InHandIsInvisible ==
  \A p \in Pods, d \in Deliveries :
    d \in On(p) /\ Latest(d) => queue[Message(d)] # "visible"
=============================================================================
