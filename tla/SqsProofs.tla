------------------------------ MODULE SqsProofs ------------------------------
(***************************************************************************)
(* What SqsConsumer guarantees for any number of messages, pods, slots and *)
(* receives: its types, the bounded pool, the lonely delete, that it       *)
(* implements AtLeastOnce, and that a message a heartbeat holds stays      *)
(* hidden.                                                                 *)
(***************************************************************************)
EXTENDS SqsConsumer, FiniteSetTheorems, TLAPS

(* A message that is in flight has time left. *)
LeftOK == \A m \in Messages : queue[m] = "inflight" => left[m] # 0

TypeInv == TypeOK /\ LeftOK

(* Both timeouts are in the range of left, and neither is 0. *)
LEMMA VisibilityPositive ==
  /\ LongestVisibility \in Nat \ {0}
  /\ FirstVisibility \in 1..LongestVisibility
  /\ Visibility \in 1..LongestVisibility
BY ConsumerAssumption DEF LongestVisibility

(* Deliveries are pairs of a message and the number of a receipt. *)
LEMMA DeliveryParts ==
  ASSUME NEW d \in Deliveries
  PROVE  Message(d) \in Messages /\ d[2] \in 1..MaxReceives
BY DEF Deliveries, Message

LEMMA TypeInit == Init => TypeInv
BY ConsumerAssumption, VisibilityPositive
   DEF Init, TypeInv, TypeOK, LeftOK, Jobs, NoPod

(* A job becomes one of the jobs. *)
LEMMA SetJobType ==
  ASSUME TypeOK, NEW d \in Deliveries, NEW j \in Jobs, SetJob(d, j)
  PROVE  job' \in [Deliveries -> Jobs]
BY DEF TypeOK, SetJob

LEMMA StopBeatType ==
  ASSUME TypeOK, NEW d \in Deliveries, StopBeat(d)
  PROVE  /\ beat' \in [Deliveries -> BOOLEAN]
         /\ age' \in [Deliveries -> 0..MaxHandling]
         /\ due' \in [Deliveries -> BOOLEAN]
         /\ missed' \in [Deliveries -> 0..MaxMissed]
BY ConsumerAssumption DEF TypeOK, StopBeat

(* Messages handed out are in flight for the whole visibility timeout. *)
LEMMA HandOutType ==
  ASSUME TypeInv, NEW S \in SUBSET Messages, HandOut(S)
  PROVE  /\ queue' \in [Messages -> {"visible", "inflight", "deleted", "dead"}]
         /\ count' \in [Messages -> 0..MaxReceives]
         /\ left' \in [Messages -> 0..LongestVisibility]
         /\ LeftOK'
<1>1. count' \in [Messages -> 0..MaxReceives]
  BY ConsumerAssumption DEF TypeInv, TypeOK, HandOut
<1> QED
  BY <1>1, VisibilityPositive DEF TypeInv, TypeOK, LeftOK, HandOut

LEMMA PodEndsType ==
  ASSUME TypeInv, NEW p \in Pods, PodEnds(p)
  PROVE  TypeInv'
<1>1. job' \in [Deliveries -> Jobs]
  BY DEF TypeInv, TypeOK, PodEnds, Jobs
<1>2. /\ beat' \in [Deliveries -> BOOLEAN]
      /\ due' \in [Deliveries -> BOOLEAN]
      /\ held' \in [Deliveries -> BOOLEAN]
  BY DEF TypeInv, TypeOK, PodEnds
<1>3. /\ age' \in [Deliveries -> 0..MaxHandling]
      /\ missed' \in [Deliveries -> 0..MaxMissed]
  BY ConsumerAssumption DEF TypeInv, TypeOK, PodEnds
<1>4. pod' \in [Pods -> {"receiving", "dispatching", "draining", "exited"}]
  BY DEF TypeInv, TypeOK, PodEnds
<1> QED
  BY <1>1, <1>2, <1>3, <1>4 DEF TypeInv, TypeOK, LeftOK, PodEnds, queueVars

LEMMA ElapseType ==
  ASSUME TypeInv, Tick
  PROVE  TypeInv'
<1> USE DEF TypeInv, TypeOK, Tick, Elapse
<1>1. left' \in [Messages -> 0..LongestVisibility]
  BY VisibilityPositive DEF LeftOK
<1>2. queue' \in [Messages -> {"visible", "inflight", "deleted", "dead"}]
  OBVIOUS
<1>3. LeftOK'
  BY VisibilityPositive DEF LeftOK
<1>4. age' \in [Deliveries -> 0..MaxHandling]
  BY ConsumerAssumption
<1>5. due' \in [Deliveries -> BOOLEAN]
  OBVIOUS
<1> QED
  BY <1>1, <1>2, <1>3, <1>4, <1>5

(* Every action keeps every type. *)
LEMMA TypeStep == TypeInv /\ [Next]_vars => TypeInv'
<1> SUFFICES ASSUME TypeInv, [Next]_vars PROVE TypeInv'
  OBVIOUS
<1> USE DEF TypeInv, TypeOK, LeftOK, queueVars, beatVars
<1>0. CASE UNCHANGED vars
  BY <1>0 DEF vars
<1>1. CASE Tick
  BY <1>1, ElapseType
<1>2. ASSUME NEW m \in Messages, DeadLetter(m) PROVE TypeInv'
  BY <1>2 DEF DeadLetter
<1>3. ASSUME NEW p \in Pods, RunStep(p) \/ PodFault(p) PROVE TypeInv'
  <2>1. CASE Receive(p)
    <3>1. PICK S \in SUBSET Messages :
            /\ HandOut(S)
            /\ LET new == {<<m, count[m] + 1>> : m \in S}
               IN /\ job' = [d \in Deliveries |->
                               IF d \in new THEN "batch" ELSE job[d]]
                  /\ host' = [d \in Deliveries |->
                               IF d \in new THEN p ELSE host[d]]
      BY <2>1 DEF Receive
    <3>2. job' \in [Deliveries -> Jobs] /\ host' \in [Deliveries -> Pods \cup {NoPod}]
      BY <3>1 DEF Jobs
    <3>3. pod' \in [Pods -> {"receiving", "dispatching", "draining", "exited"}]
      BY <2>1 DEF Receive
    <3> QED
      BY <2>1, <3>1, <3>2, <3>3, HandOutType DEF Receive
  <2>2. CASE ReceiveLost(p)
    BY <2>2, HandOutType DEF ReceiveLost
  <2>3. CASE BatchDone(p)
    BY <2>3 DEF BatchDone
  <2>4. CASE StartDrain(p) \/ ReceiveTimesOut(p)
    BY <2>4 DEF StartDrain, ReceiveTimesOut
  <2>5. CASE DrainDone(p) \/ DrainDeadline(p) \/ Crash(p)
    BY <2>5, PodEndsType DEF DrainDone, DrainDeadline, Crash
  <2>6. CASE Sigterm(p)
    BY <2>6 DEF Sigterm
  <2> QED
    BY <1>3, <2>1, <2>2, <2>3, <2>4, <2>5, <2>6 DEF RunStep, PodFault
<1>4. ASSUME NEW d \in Deliveries,
             WorkerStep(d) \/ HeartbeatStep(d) \/ HandlerPanics(d)
      PROVE  TypeInv'
  <2> USE DeliveryParts DEF Jobs
  <2>1. CASE Dispatch(d)
    <3>1. job' \in [Deliveries -> Jobs]
      BY <2>1 DEF Dispatch, SetJob
    <3> QED
      BY <2>1, <3>1 DEF Dispatch
  <2>2. CASE HandlerReturns(d)
    <3>1. job' \in [Deliveries -> Jobs]
      BY <2>2 DEF HandlerReturns, SetJob
    <3> QED
      BY <2>2, <3>1 DEF HandlerReturns
  <2>3. CASE HeartbeatStopped(d)
    BY <2>3 DEF HeartbeatStopped, SetJob
  <2>4. CASE Delete(d)
    <3>1. job' \in [Deliveries -> Jobs]
      BY <2>4 DEF Delete, SetJob
    <3>2. /\ queue' \in [Messages -> {"visible", "inflight", "deleted", "dead"}]
          /\ left' \in [Messages -> 0..LongestVisibility]
          /\ LeftOK'
      BY <2>4, VisibilityPositive DEF Delete
    <3> QED
      BY <2>4, <3>1, <3>2 DEF Delete
  <2>5. CASE BeatExit(d)
    BY <2>5, StopBeatType DEF BeatExit
  <2>6. CASE BeatExtends(d)
    <3>1. left' \in [Messages -> 0..LongestVisibility] /\ LeftOK'
      BY <2>6, VisibilityPositive DEF BeatExtends
    <3>2. held' \in [Deliveries -> BOOLEAN] /\ due' \in [Deliveries -> BOOLEAN]
      BY <2>6 DEF BeatExtends
    <3>3. missed' \in [Deliveries -> 0..MaxMissed]
      BY <2>6, ConsumerAssumption DEF BeatExtends
    <3> QED
      BY <2>6, <3>1, <3>2, <3>3 DEF BeatExtends
  <2>7. CASE BeatFails(d)
    <3>1. missed' \in [Deliveries -> 0..MaxMissed]
      BY <2>7, ConsumerAssumption DEF BeatFails
    <3> QED
      BY <2>7, <3>1 DEF BeatFails
  <2>8. CASE BeatRefused(d)
    BY <2>8, StopBeatType DEF BeatRefused
  <2>9. CASE HandlerPanics(d)
    BY <2>9 DEF HandlerPanics, SetJob
  <2> QED
    BY <1>4, <2>1, <2>2, <2>3, <2>4, <2>5, <2>6, <2>7, <2>8, <2>9
       DEF WorkerStep, HeartbeatStep
<1> QED
  BY <1>0, <1>1, <1>2, <1>3, <1>4 DEF Next

LEMMA TypeInvariant == Spec => []TypeInv
BY TypeInit, TypeStep, PTL DEF Spec

(* Every variable keeps its type; with it the bounds on receives, on the    *)
(* time a handler runs and on missed heartbeats.                            *)
THEOREM TypeCorrect == Spec => []TypeOK
<1>1. TypeInv => TypeOK
  BY DEF TypeInv
<1> QED
  BY <1>1, TypeInvariant, PTL
-----------------------------------------------------------------------------
(* Deletes                                                                  *)

(* A receipt that was given out is counted, a handler runs only for a       *)
(* message that parses, and a worker goes on to the delete only once the    *)
(* handler has said so.                                                     *)
JobsOK ==
  \A d \in Deliveries :
    /\ job[d] # "none" => d[2] <= count[Message(d)]
    /\ job[d] = "handling" => Parses(Message(d))
    /\ job[d] \in {"stopping", "deleting"} /\ Message(d) \in Valid =>
         Message(d) \in handled

DeleteInv == JobsOK /\ DeletedWasHandled /\ HandledDeleteIsAlone

LEMMA DeleteInit == Init => DeleteInv
BY DEF Init, DeleteInv, JobsOK, DeletedWasHandled, HandledDeleteIsAlone

(* What the messages handed out mean for the deliveries. *)
LEMMA HandOutJobs ==
  ASSUME TypeInv, DeleteInv, NEW S \in SUBSET Messages, HandOut(S),
         UNCHANGED <<beatVars, handled>>,
         \/ UNCHANGED job
         \/ job' = [d \in Deliveries |->
                      IF d \in {<<m, count[m] + 1>> : m \in S} THEN "batch"
                                                              ELSE job[d]]
  PROVE  DeleteInv'
<1> USE DEF TypeInv, TypeOK, DeleteInv, HandOut, beatVars
<1>1. ASSUME NEW d \in Deliveries
      PROVE  /\ job'[d] # "none" => d[2] <= count'[Message(d)]
             /\ job'[d] \in {job[d], "batch"}
  <2>1. Message(d) \in Messages /\ d[2] \in Nat /\ count[Message(d)] \in Nat
        /\ count'[Message(d)] \in Nat /\ count[Message(d)] <= count'[Message(d)]
    BY DeliveryParts, ConsumerAssumption
  <2>2. CASE UNCHANGED job
    BY <2>1, <2>2 DEF JobsOK
  <2>3. CASE job' = [c \in Deliveries |->
                      IF c \in {<<m, count[m] + 1>> : m \in S} THEN "batch"
                                                              ELSE job[c]]
    <3>1. CASE \E m \in S : d = <<m, count[m] + 1>>
      <4>1. PICK m \in S : d = <<m, count[m] + 1>>
        BY <3>1
      <4>2. Message(d) = m /\ d[2] = count[m] + 1 /\ count'[m] = count[m] + 1
        BY <4>1 DEF Message
      <4> QED
        BY <2>1, <2>3, <4>1, <4>2
    <3>2. CASE ~\E m \in S : d = <<m, count[m] + 1>>
      BY <2>1, <2>3, <3>2 DEF JobsOK
    <3> QED
      BY <3>1, <3>2
  <2> QED
    BY <2>2, <2>3
<1>2. JobsOK'
  BY <1>1 DEF JobsOK, Parses
<1>3. DeletedWasHandled'
  BY DEF DeletedWasHandled
<1>4. HandledDeleteIsAlone'
  BY <1>1 DEF HandledDeleteIsAlone
<1> QED
  BY <1>2, <1>3, <1>4

(* The end of a pod takes its jobs and its heartbeats along. *)
LEMMA PodEndsJobs ==
  ASSUME TypeInv, DeleteInv, NEW p \in Pods, PodEnds(p)
  PROVE  DeleteInv'
<1> USE DEF TypeInv, TypeOK, DeleteInv, PodEnds, queueVars
<1>1. \A d \in Deliveries : /\ job'[d] \in {job[d], "gone"}
                            /\ job'[d] # job[d] => job[d] # "none"
                            /\ beat'[d] => beat[d]
  BY DEF On
<1>2. JobsOK'
  BY <1>1 DEF JobsOK, Parses
<1>3. DeletedWasHandled'
  BY DEF DeletedWasHandled
<1>4. HandledDeleteIsAlone'
  BY <1>1 DEF HandledDeleteIsAlone
<1> QED
  BY <1>2, <1>3, <1>4

LEMMA DeleteStep == TypeInv /\ DeleteInv /\ [Next]_vars => DeleteInv'
<1> SUFFICES ASSUME TypeInv, DeleteInv, [Next]_vars PROVE DeleteInv'
  OBVIOUS
<1> USE DEF TypeInv, TypeOK, DeleteInv, queueVars, beatVars
<1>0. CASE UNCHANGED vars
  BY <1>0 DEF vars, JobsOK, DeletedWasHandled, HandledDeleteIsAlone, Parses
<1>1. CASE Tick
  BY <1>1 DEF Tick, Elapse, JobsOK, DeletedWasHandled, HandledDeleteIsAlone, Parses
<1>2. ASSUME NEW m \in Messages, DeadLetter(m) PROVE DeleteInv'
  BY <1>2 DEF DeadLetter, JobsOK, DeletedWasHandled, HandledDeleteIsAlone, Parses
<1>3. ASSUME NEW p \in Pods, RunStep(p) \/ PodFault(p) PROVE DeleteInv'
  <2>1. CASE Receive(p)
    BY <2>1, HandOutJobs DEF Receive
  <2>2. CASE ReceiveLost(p)
    BY <2>2, HandOutJobs DEF ReceiveLost
  <2>3. CASE BatchDone(p) \/ StartDrain(p) \/ ReceiveTimesOut(p) \/ Sigterm(p)
    BY <2>3 DEF BatchDone, StartDrain, ReceiveTimesOut, Sigterm, JobsOK, DeletedWasHandled,
                HandledDeleteIsAlone, Parses
  <2>4. CASE DrainDone(p) \/ DrainDeadline(p) \/ Crash(p)
    BY <2>4, PodEndsJobs DEF DrainDone, DrainDeadline, Crash
  <2> QED
    BY <1>3, <2>1, <2>2, <2>3, <2>4 DEF RunStep, PodFault
<1>4. ASSUME NEW d \in Deliveries, WorkerStep(d) PROVE DeleteInv'
  <2> USE DeliveryParts DEF JobsOK, DeletedWasHandled, HandledDeleteIsAlone,
                            Parses, SetJob
  <2>1. CASE Dispatch(d)
    BY <1>4, <2>1 DEF Dispatch
  <2>2. CASE HandlerReturns(d)
    BY <1>4, <2>2 DEF HandlerReturns
  <2>3. CASE HeartbeatStopped(d)
    BY <1>4, <2>3 DEF HeartbeatStopped
  <2>4. CASE Delete(d)
    BY <1>4, <2>4 DEF Delete
  <2> QED
    BY <1>4, <2>1, <2>2, <2>3, <2>4 DEF WorkerStep
<1>5. ASSUME NEW d \in Deliveries, HeartbeatStep(d) \/ HandlerPanics(d)
      PROVE  DeleteInv'
  <2> USE DEF JobsOK, DeletedWasHandled, HandledDeleteIsAlone, Parses, SetJob
  <2>1. CASE BeatExit(d) \/ BeatRefused(d)
    BY <1>5, <2>1 DEF BeatExit, BeatRefused, StopBeat
  <2>2. CASE BeatExtends(d) \/ BeatFails(d)
    BY <1>5, <2>2 DEF BeatExtends, BeatFails
  <2>3. CASE HandlerPanics(d)
    BY <1>5, <2>3 DEF HandlerPanics
  <2> QED
    BY <1>5, <2>1, <2>2, <2>3 DEF HeartbeatStep
<1> QED
  BY <1>0, <1>1, <1>2, <1>3, <1>4, <1>5 DEF Next

LEMMA DeleteInvariant == Spec => [](TypeInv /\ DeleteInv)
<1>1. Init => TypeInv /\ DeleteInv
  BY TypeInit, DeleteInit
<1>2. TypeInv /\ DeleteInv /\ [Next]_vars => (TypeInv /\ DeleteInv)'
  BY TypeStep, DeleteStep
<1> QED
  BY <1>1, <1>2, PTL DEF Spec

(* No message is lost, whatever happens to the pods, the calls and the      *)
(* heartbeats: what was deleted had been handled, or can never be.          *)
THEOREM NothingLost == Spec => []DeletedWasHandled
<1>1. TypeInv /\ DeleteInv => DeletedWasHandled
  BY DEF DeleteInv
<1> QED
  BY <1>1, DeleteInvariant, PTL

(* The delete of a handled message has no heartbeat beside it.              *)
THEOREM DeleteAlone == Spec => []HandledDeleteIsAlone
<1>1. TypeInv /\ DeleteInv => HandledDeleteIsAlone
  BY DEF DeleteInv
<1> QED
  BY <1>1, DeleteInvariant, PTL
-----------------------------------------------------------------------------
(* The pool                                                                 *)

PoolInv == \A p \in Pods : /\ IsFiniteSet(Working(p))
                           /\ Cardinality(Working(p)) <= MaxInFlight

(* Who holds a slot. *)
LEMMA WorkingIs ==
  ASSUME NEW p \in Pods
  PROVE  /\ Working(p) = {d \in Deliveries : /\ host[d] = p
                                  /\ job[d] \notin {"none", "batch", "gone"}}
         /\ Working(p)' = {d \in Deliveries : /\ host'[d] = p
                                  /\ job'[d] \notin {"none", "batch", "gone"}}
BY DEF Working, Waiting, On

(* A pool that no delivery joins stays within its bound. *)
LEMMA PoolShrinks ==
  ASSUME PoolInv, \A p \in Pods : Working(p)' \subseteq Working(p)
  PROVE  PoolInv'
<1> SUFFICES ASSUME NEW p \in Pods
             PROVE  /\ IsFiniteSet(Working(p)')
                    /\ Cardinality(Working(p)') <= MaxInFlight
  BY DEF PoolInv
<1>1. IsFiniteSet(Working(p)) /\ Cardinality(Working(p)) <= MaxInFlight
  BY DEF PoolInv
<1>2. /\ IsFiniteSet(Working(p)')
      /\ Cardinality(Working(p)') <= Cardinality(Working(p))
  BY <1>1, FS_Subset
<1>3. Cardinality(Working(p)') \in Nat /\ Cardinality(Working(p)) \in Nat
  BY <1>1, <1>2, FS_CardinalityType
<1> QED
  BY <1>1, <1>2, <1>3, ConsumerAssumption

(* Only Dispatch takes a slot, and only when one is free. *)
LEMMA PoolDispatch ==
  ASSUME TypeInv, PoolInv, NEW d \in Deliveries, Dispatch(d)
  PROVE  PoolInv'
<1> SUFFICES ASSUME NEW p \in Pods
             PROVE  /\ IsFiniteSet(Working(p)')
                    /\ Cardinality(Working(p)') <= MaxInFlight
  BY DEF PoolInv
<1>1. IsFiniteSet(Working(p)) /\ Cardinality(Working(p)) <= MaxInFlight
  BY DEF PoolInv
<1>2. Cardinality(Working(p)) \in Nat
  BY <1>1, FS_CardinalityType
<1>3. CASE host[d] = p
  <2>1. Working(p)' \subseteq Working(p) \cup {d}
    BY <1>3, WorkingIs DEF Dispatch, SetJob, TypeInv, TypeOK
  <2>2. d \notin Working(p) /\ Cardinality(Working(p)) < MaxInFlight
    BY <1>3, WorkingIs DEF Dispatch
  <2>3. /\ IsFiniteSet(Working(p) \cup {d})
        /\ Cardinality(Working(p) \cup {d}) = Cardinality(Working(p)) + 1
    BY <1>1, <2>2, FS_AddElement
  <2>4. /\ IsFiniteSet(Working(p)')
        /\ Cardinality(Working(p)') <= Cardinality(Working(p) \cup {d})
    BY <2>1, <2>3, FS_Subset
  <2>5. Cardinality(Working(p)') \in Nat
    BY <2>4, FS_CardinalityType
  <2> QED
    BY <1>2, <2>2, <2>3, <2>4, <2>5, ConsumerAssumption
<1>4. CASE host[d] # p
  <2>1. Working(p)' \subseteq Working(p)
    BY <1>4, WorkingIs DEF Dispatch, SetJob, TypeInv, TypeOK
  <2>2. /\ IsFiniteSet(Working(p)')
        /\ Cardinality(Working(p)') <= Cardinality(Working(p))
    BY <1>1, <2>1, FS_Subset
  <2>3. Cardinality(Working(p)') \in Nat
    BY <2>2, FS_CardinalityType
  <2> QED
    BY <1>1, <1>2, <2>2, <2>3, ConsumerAssumption
<1> QED
  BY <1>3, <1>4

LEMMA PoolStep == TypeInv /\ PoolInv /\ [Next]_vars => PoolInv'
<1> SUFFICES ASSUME TypeInv, PoolInv, [Next]_vars PROVE PoolInv'
  OBVIOUS
<1> USE WorkingIs DEF TypeInv, TypeOK, queueVars, beatVars, SetJob
<1>0. CASE UNCHANGED vars
  BY <1>0, PoolShrinks DEF vars
<1>1. CASE Tick
  BY <1>1, PoolShrinks DEF Tick, Elapse
<1>2. ASSUME NEW m \in Messages, DeadLetter(m) PROVE PoolInv'
  BY <1>2, PoolShrinks DEF DeadLetter
<1>3. ASSUME NEW p \in Pods, RunStep(p) \/ PodFault(p) PROVE PoolInv'
  <2>1. CASE Receive(p)
    <3>1. PICK S \in SUBSET Messages :
            LET new == {<<m, count[m] + 1>> : m \in S}
            IN /\ job' = [d \in Deliveries |->
                            IF d \in new THEN "batch" ELSE job[d]]
               /\ host' = [d \in Deliveries |-> IF d \in new THEN p ELSE host[d]]
      BY <2>1 DEF Receive
    <3>2. \A d \in Deliveries :
            \/ job'[d] = "batch"
            \/ job'[d] = job[d] /\ host'[d] = host[d]
      <4> DEFINE new == {<<m, count[m] + 1>> : m \in S}
      <4>1. /\ job' = [d \in Deliveries |-> IF d \in new THEN "batch" ELSE job[d]]
            /\ host' = [d \in Deliveries |-> IF d \in new THEN p ELSE host[d]]
        BY <3>1
      <4> HIDE DEF new
      <4> QED
        BY <4>1
    <3>3. \A q \in Pods : Working(q)' \subseteq Working(q)
      BY <3>2
    <3> QED
      BY <3>3, PoolShrinks
  <2>2. CASE ReceiveLost(p) \/ ReceiveTimesOut(p) \/ BatchDone(p)
               \/ StartDrain(p) \/ Sigterm(p)
    BY <2>2, PoolShrinks
       DEF ReceiveLost, ReceiveTimesOut, BatchDone, StartDrain, Sigterm
  <2>3. CASE DrainDone(p) \/ DrainDeadline(p) \/ Crash(p)
    <3>1. PodEnds(p)
      BY <2>3 DEF DrainDone, DrainDeadline, Crash
    <3>2. \A q \in Pods : Working(q)' \subseteq Working(q)
      BY <3>1 DEF PodEnds
    <3> QED
      BY <3>2, PoolShrinks
  <2> QED
    BY <1>3, <2>1, <2>2, <2>3 DEF RunStep, PodFault
<1>4. ASSUME NEW d \in Deliveries,
             WorkerStep(d) \/ HeartbeatStep(d) \/ HandlerPanics(d)
      PROVE  PoolInv'
  <2>1. CASE Dispatch(d)
    BY <2>1, PoolDispatch
  <2>2. CASE HandlerReturns(d)
    BY <2>2, PoolShrinks DEF HandlerReturns
  <2>3. CASE HeartbeatStopped(d) \/ HandlerPanics(d)
    BY <2>3, PoolShrinks DEF HeartbeatStopped, HandlerPanics
  <2>4. CASE Delete(d)
    BY <2>4, PoolShrinks DEF Delete
  <2>5. CASE HeartbeatStep(d)
    BY <2>5, PoolShrinks DEF HeartbeatStep, BeatExit, BeatExtends, BeatFails,
                             BeatRefused
  <2> QED
    BY <1>4, <2>1, <2>2, <2>3, <2>4, <2>5 DEF WorkerStep
<1> QED
  BY <1>0, <1>1, <1>2, <1>3, <1>4 DEF Next

LEMMA PoolInit == Init => PoolInv
<1> SUFFICES ASSUME Init, NEW p \in Pods
             PROVE  IsFiniteSet(Working(p)) /\ Cardinality(Working(p)) <= MaxInFlight
  BY DEF PoolInv
<1>1. Working(p) = {}
  BY WorkingIs DEF Init
<1> QED
  BY <1>1, FS_EmptySet, ConsumerAssumption

(* The pool never holds more workers than slots, for any number of          *)
(* messages, pods, panics, drains and redeliveries.                         *)
THEOREM PoolBounded == Spec => []PoolIsBounded
<1>1. Init => TypeInv /\ PoolInv
  BY TypeInit, PoolInit
<1>2. TypeInv /\ PoolInv /\ [Next]_vars => (TypeInv /\ PoolInv)'
  BY TypeStep, PoolStep
<1>3. TypeInv /\ PoolInv => PoolIsBounded
  BY DEF PoolInv, PoolIsBounded
<1> QED
  BY <1>1, <1>2, <1>3, PTL DEF Spec
-----------------------------------------------------------------------------
(* The promise                                                              *)

Fate == [m \in Messages |-> IF queue[m] \in {"visible", "inflight"}
                              THEN "pending" ELSE queue[m]]

LEMMA PromiseInit == Init => Promise!Init
BY DEF Init, Promise!Init

(* What the promise does not see. *)
LEMMA PromiseStutter ==
  ASSUME UNCHANGED <<count, handled>>, Fate' = Fate
  PROVE  UNCHANGED Promise!vars
BY DEF Promise!vars, Fate

(* Messages that SQS hands out. *)
LEMMA PromiseHandOut ==
  ASSUME TypeInv, NEW S \in SUBSET Messages, HandOut(S), UNCHANGED handled
  PROVE  Promise!Next
<1>1. \A m \in S : Fate[m] = "pending" /\ count[m] < MaxReceives
  BY DEF HandOut, Fate
<1>2. Fate' = Fate
  BY DEF HandOut, Fate, TypeInv, TypeOK
<1>3. count' = [m \in Messages |-> IF m \in S THEN count[m] + 1 ELSE count[m]]
  BY DEF HandOut
<1>4. Promise!HandOut(S)
  BY <1>1, <1>2, <1>3 DEF Promise!HandOut, Fate
<1> QED
  BY <1>4 DEF Promise!Next

(* Every step is one of the promise, or one it does not see. *)
LEMMA PromiseStep ==
  TypeInv /\ DeleteInv /\ [Next]_vars => [Promise!Next]_(Promise!vars)
<1> SUFFICES ASSUME TypeInv, DeleteInv, [Next]_vars
             PROVE  Promise!Next \/ UNCHANGED Promise!vars
  OBVIOUS
<1> USE DEF queueVars
<1>0. CASE UNCHANGED vars
  BY <1>0, PromiseStutter DEF vars, Fate
<1>1. CASE Tick
  <2>1. Fate' = Fate
    BY <1>1 DEF Tick, Elapse, Fate
  <2> QED
    BY <1>1, <2>1, PromiseStutter DEF Tick, Elapse
<1>2. ASSUME NEW m \in Messages, DeadLetter(m) PROVE Promise!Next
  <2>1. Fate[m] = "pending" /\ count[m] = MaxReceives
    BY <1>2 DEF DeadLetter, Fate
  <2>2. Fate' = [Fate EXCEPT ![m] = "dead"]
    BY <1>2 DEF DeadLetter, Fate, TypeInv, TypeOK
  <2>3. Promise!GiveUp(m)
    BY <1>2, <2>1, <2>2 DEF Promise!GiveUp, DeadLetter, Fate
  <2> QED
    BY <2>3 DEF Promise!Next
<1>3. ASSUME NEW p \in Pods, RunStep(p) \/ PodFault(p)
      PROVE  Promise!Next \/ UNCHANGED Promise!vars
  <2>1. CASE Receive(p)
    BY <2>1, PromiseHandOut DEF Receive
  <2>2. CASE ReceiveLost(p)
    BY <2>2, PromiseHandOut DEF ReceiveLost
  <2>3. CASE ReceiveTimesOut(p) \/ BatchDone(p) \/ StartDrain(p) \/ Sigterm(p)
    BY <2>3, PromiseStutter
       DEF ReceiveTimesOut, BatchDone, StartDrain, Sigterm, Fate
  <2>4. CASE DrainDone(p) \/ DrainDeadline(p) \/ Crash(p)
    BY <2>4, PromiseStutter DEF DrainDone, DrainDeadline, Crash, PodEnds, Fate
  <2> QED
    BY <1>3, <2>1, <2>2, <2>3, <2>4 DEF RunStep, PodFault
<1>4. ASSUME NEW d \in Deliveries,
             WorkerStep(d) \/ HeartbeatStep(d) \/ HandlerPanics(d)
      PROVE  Promise!Next \/ UNCHANGED Promise!vars
  <2>1. CASE Dispatch(d) \/ HeartbeatStopped(d) \/ HandlerPanics(d)
    BY <2>1, PromiseStutter DEF Dispatch, HeartbeatStopped, HandlerPanics, Fate
  <2>2. CASE HeartbeatStep(d)
    BY <2>2, PromiseStutter
       DEF HeartbeatStep, BeatExit, BeatExtends, BeatFails, BeatRefused, Fate
  <2>3. CASE HandlerReturns(d)
    <3>1. CASE UNCHANGED handled
      BY <2>3, <3>1, PromiseStutter DEF HandlerReturns, Fate
    <3>2. CASE handled' = handled \cup {Message(d)}
      <4>1. Message(d) \in Messages /\ Message(d) \in Valid
            /\ count[Message(d)] > 0
        BY <2>3, DeliveryParts, ConsumerAssumption
           DEF HandlerReturns, DeleteInv, JobsOK, Parses, TypeInv, TypeOK
      <4>2. Promise!Finish(Message(d))
        BY <2>3, <3>2, <4>1 DEF HandlerReturns, Promise!Finish
      <4> QED
        BY <4>1, <4>2 DEF Promise!Next
    <3> QED
      BY <2>3, <3>1, <3>2 DEF HandlerReturns
  <2>4. CASE Delete(d)
    <3> DEFINE m == Message(d)
    <3>1. CASE UNCHANGED queue
      BY <2>4, <3>1, PromiseStutter DEF Delete, Fate
    <3>2. CASE queue[m] \in {"inflight", "visible"}
               /\ queue' = [queue EXCEPT ![m] = "deleted"]
      <4>1. /\ m \in Messages
            /\ count[m] > 0
            /\ m \in Valid => m \in handled
        BY <2>4, DeliveryParts, ConsumerAssumption
           DEF Delete, DeleteInv, JobsOK, TypeInv, TypeOK
      <4>2. Fate[m] = "pending" /\ Fate' = [Fate EXCEPT ![m] = "deleted"]
        BY <3>2, <4>1 DEF Fate, TypeInv, TypeOK
      <4>3. Promise!Delete(m)
        BY <2>4, <4>1, <4>2 DEF Delete, Promise!Delete, Fate
      <4> QED
        BY <4>1, <4>3 DEF Promise!Next
    <3> QED
      BY <2>4, <3>1, <3>2 DEF Delete
  <2> QED
    BY <1>4, <2>1, <2>2, <2>3, <2>4 DEF WorkerStep
<1> QED
  BY <1>0, <1>1, <1>2, <1>3, <1>4 DEF Next

(* Queue, pods, workers and heartbeats together keep the promise to the     *)
(* sender: at least one receipt, a delete only after a handler's end or of  *)
(* what can never be handled, a dead letter only after the last receipt.    *)
THEOREM Refinement == Spec => ImplementsAtLeastOnce
<1> QED
  BY PromiseInit, PromiseStep, DeleteInvariant, PTL
     DEF Spec, ImplementsAtLeastOnce, Promise!Spec
-----------------------------------------------------------------------------
(* Heartbeats against visibility                                            *)

(* A heartbeat call extends the visibility beyond the intervals in which    *)
(* the calls that follow it may fail: as deployed, where it is ten          *)
(* intervals.                                                               *)
Slack      == (MaxMissed + 1) * Interval
Outlasting == Visibility > Slack

(* The ticks in which the heartbeat of d may still fail to extend.          *)
Reserve(d) ==
  (IF due[d] THEN 0 ELSE Interval - (age[d] % Interval))
    + (MaxMissed - missed[d]) * Interval

(* The handler of d works in a pod that is not draining, with a heartbeat   *)
(* that has succeeded.                                                      *)
Held(d) == held[d] /\ job[d] = "handling" /\ ~term[host[d]]

(* What is held is the latest receipt, and its visibility covers the        *)
(* heartbeats to come.  SQS may have honoured the delete of an earlier one. *)
CoverOK(d) ==
  Held(d) =>
    /\ Latest(d)
    /\ \/ queue[Message(d)] = "deleted"
       \/ /\ queue[Message(d)] = "inflight"
          /\ beat[d] /\ left[Message(d)] > Reserve(d)

HeldOK(d) ==
  /\ job[d] # "none" => host[d] \in Pods
  /\ job[d] \in {"none", "batch"} => ~held[d]
  /\ due[d] => age[d] % Interval = 0
  /\ CoverOK(d)

HeldInv == TypeInv /\ DeleteInv /\ \A d \in Deliveries : HeldOK(d)

(* A product grows with its second factor. *)
LEMMA Smaller ==
  ASSUME NEW x \in Int, NEW y \in Int, x <= y, NEW k \in Nat
  PROVE  k * x <= k * y
<1>1. y - x \in Nat /\ k * (y - x) >= 0
  OBVIOUS
<1> QED
  BY <1>1

(* One more: the remainder grows by one or comes back to 0. *)
LEMMA NextRemainder ==
  ASSUME NEW a \in Nat, NEW k \in Nat \ {0}
  PROVE  /\ a % k \in 0..(k - 1)
         /\ \/ (a + 1) % k = 0 /\ a % k = k - 1
            \/ (a + 1) % k = (a % k) + 1
<1> DEFINE q == a \div k
           s == (a + 1) \div k
           r == a % k
           t == (a + 1) % k
<1>1. r \in 0..(k - 1) /\ t \in 0..(k - 1) /\ q \in Int /\ s \in Int
  OBVIOUS
<1>2. a = k * q + r /\ a + 1 = k * s + t
  OBVIOUS
<1>3. /\ k * (q + 1) = k * q + k /\ k * (q - 1) = k * q - k
      /\ k * (q + 2) = k * q + k + k
  BY <1>1
<1> HIDE DEF q, s, r, t
<1>4. s < q + 2
  <2> SUFFICES ASSUME q + 2 <= s
               PROVE  FALSE
    BY <1>1
  <2>1. k * (q + 2) <= k * s
    BY <1>1, Smaller
  <2> QED
    BY <2>1, <1>1, <1>2, <1>3
<1>5. s > q - 1
  <2> SUFFICES ASSUME s <= q - 1
               PROVE  FALSE
    BY <1>1
  <2>1. k * s <= k * (q - 1)
    BY <1>1, Smaller
  <2> QED
    BY <2>1, <1>1, <1>2, <1>3
<1>6. CASE s = q
  <2>1. t = r + 1
    BY <1>1, <1>2, <1>6
  <2> QED
    BY <1>1, <2>1 DEF t, r
<1>7. CASE s = q + 1
  <2>1. t = r + 1 - k
    BY <1>1, <1>2, <1>3, <1>7
  <2>2. t = 0 /\ r = k - 1
    BY <1>1, <2>1
  <2> QED
    BY <1>1, <2>2 DEF t, r
<1> QED
  BY <1>1, <1>4, <1>5, <1>6, <1>7

(* What k missed calls may cost, and how much a further one takes of it.    *)
LEMMA Budget ==
  ASSUME NEW k \in 0..MaxMissed
  PROVE  /\ (MaxMissed - k) * Interval \in Nat
         /\ k = 0 => Slack = Interval + (MaxMissed - k) * Interval
         /\ k < MaxMissed =>
              (MaxMissed - k) * Interval
                = Interval + (MaxMissed - (k + 1)) * Interval
<1>1. Interval \in Nat /\ MaxMissed \in Nat
  BY ConsumerAssumption
<1>2. \A x, y \in Nat : x * y \in Nat
  OBVIOUS
<1>3. \A x, y \in Int : (x + 1) * y = y + x * y
  OBVIOUS
<1>4. MaxMissed - k \in Nat /\ MaxMissed - (k + 1) \in Int
      /\ MaxMissed - k = (MaxMissed - (k + 1)) + 1
  BY <1>1
<1>5. (MaxMissed - k) * Interval \in Nat
  BY <1>1, <1>2, <1>4
<1>6. (MaxMissed - k) * Interval = Interval + (MaxMissed - (k + 1)) * Interval
  BY <1>1, <1>3, <1>4
<1>7. k = 0 => Slack = Interval + (MaxMissed - k) * Interval
  BY <1>1, <1>3 DEF Slack
<1> QED
  BY <1>5, <1>6, <1>7

(* The reserve of a heartbeat: of one that is due, and of one whose ticker  *)
(* has just been seen to.                                                   *)
LEMMA ReserveFacts ==
  ASSUME TypeInv, NEW d \in Deliveries, due[d] => age[d] % Interval = 0
  PROVE  /\ Reserve(d) \in Nat
         /\ ~due[d] => Reserve(d) > 0
         /\ due[d] => Reserve(d) = (MaxMissed - missed[d]) * Interval
         /\ ~due[d] /\ age[d] % Interval = 0 =>
              Reserve(d) = Interval + (MaxMissed - missed[d]) * Interval
<1> DEFINE c == (MaxMissed - missed[d]) * Interval
           r == age[d] % Interval
<1>1. /\ missed[d] \in 0..MaxMissed /\ age[d] \in Nat /\ due[d] \in BOOLEAN
      /\ Interval \in Nat \ {0}
  BY ConsumerAssumption DEF TypeInv, TypeOK
<1>2. c \in Nat
  BY <1>1, Budget
<1>3. r \in 0..(Interval - 1)
  BY <1>1, NextRemainder
<1>4. Reserve(d) = (IF due[d] THEN 0 ELSE Interval - r) + c
  BY DEF Reserve
<1> HIDE DEF c, r
<1>5. /\ Reserve(d) \in Nat /\ (~due[d] => Reserve(d) > 0)
      /\ due[d] => Reserve(d) = c
      /\ ~due[d] /\ r = 0 => Reserve(d) = Interval + c
  BY <1>1, <1>2, <1>3, <1>4
<1> QED
  BY <1>5 DEF c, r

(* A heartbeat of which nothing changes keeps its reserve. *)
LEMMA SameReserve ==
  ASSUME NEW d, age'[d] = age[d], due'[d] = due[d], missed'[d] = missed[d]
  PROVE  Reserve(d)' = Reserve(d)
BY DEF Reserve

LEMMA HeldInit == Init => HeldInv
BY TypeInit, DeleteInit DEF Init, HeldInv, HeldOK, CoverOK, Held

(* A delivery of which at most the pod is canceled stays held and covered,  *)
(* if its message stays where it is, is deleted, or gets more time.         *)
LEMMA HeldStays ==
  ASSUME HeldInv, TypeInv', NEW d \in Deliveries, HeldOK(d),
         job'[d] = job[d], host'[d] = host[d], held'[d] => held[d],
         beat'[d] = beat[d], age'[d] = age[d], due'[d] = due[d],
         missed'[d] = missed[d],
         \A p \in Pods : term[p] => term'[p],
         Held(d) =>
           /\ count'[Message(d)] = count[Message(d)]
           /\ \/ queue'[Message(d)] = "deleted"
              \/ /\ queue'[Message(d)] = queue[Message(d)]
                 /\ \/ left'[Message(d)] = left[Message(d)]
                    \/ left'[Message(d)] > Reserve(d)
  PROVE  HeldOK(d)'
<1>1. Held(d)' => Held(d)
  BY DEF Held, HeldOK
<1>2. Reserve(d)' = Reserve(d)
  BY SameReserve
<1>3. CoverOK(d)'
  BY <1>1, <1>2 DEF HeldOK, CoverOK, Latest, Message
<1> QED
  BY <1>3 DEF HeldOK

(* SQS hands out nothing that is held. *)
LEMMA HeldHandOut ==
  ASSUME HeldInv, NEW S \in SUBSET Messages, HandOut(S),
         NEW d \in Deliveries, Held(d)
  PROVE  /\ count'[Message(d)] = count[Message(d)]
         /\ queue'[Message(d)] = queue[Message(d)]
         /\ left'[Message(d)] = left[Message(d)]
<1>1. Message(d) \in Messages /\ Message(d) \notin S
  BY DeliveryParts DEF HeldInv, HeldOK, CoverOK, HandOut
<1> QED
  BY <1>1 DEF HandOut

LEMMA HeldReceive ==
  ASSUME HeldInv, TypeInv', NEW p \in Pods, Receive(p)
  PROVE  \A d \in Deliveries : HeldOK(d)'
<1> SUFFICES ASSUME NEW d \in Deliveries PROVE HeldOK(d)'
  OBVIOUS
<1> DEFINE new(S) == {<<m, count[m] + 1>> : m \in S}
<1>1. PICK S \in SUBSET Messages :
        /\ HandOut(S)
        /\ job' = [e \in Deliveries |-> IF e \in new(S) THEN "batch" ELSE job[e]]
        /\ host' = [e \in Deliveries |-> IF e \in new(S) THEN p ELSE host[e]]
  BY DEF Receive
<1>2. UNCHANGED <<term, beatVars>> /\ HeldOK(d)
  BY DEF Receive, HeldInv
<1>3. CASE d \in new(S)
  <2>1. job[d] = "none"
    <3>1. PICK m \in S : d = <<m, count[m] + 1>>
      BY <1>3
    <3>2. Message(d) = m /\ d[2] = count[m] + 1 /\ count[m] \in Nat
      BY <3>1, ConsumerAssumption DEF Message, HeldInv, TypeInv, TypeOK
    <3> QED
      BY <3>2 DEF HeldInv, DeleteInv, JobsOK
  <2>2. job'[d] = "batch" /\ host'[d] = p
    BY <1>1, <1>3
  <2> QED
    BY <1>2, <2>1, <2>2 DEF HeldOK, CoverOK, Held, beatVars
<1>4. CASE d \notin new(S)
  <2>1. job'[d] = job[d] /\ host'[d] = host[d]
    BY <1>1, <1>4
  <2> HIDE DEF new
  <2> QED
    BY <1>1, <1>2, <2>1, HeldHandOut, HeldStays DEF beatVars
<1> QED
  BY <1>3, <1>4

(* A pod that ends holds nothing, the others hold what they held. *)
LEMMA HeldPodEnds ==
  ASSUME HeldInv, TypeInv', NEW p \in Pods, PodEnds(p)
  PROVE  \A d \in Deliveries : HeldOK(d)'
<1> SUFFICES ASSUME NEW d \in Deliveries PROVE HeldOK(d)'
  OBVIOUS
<1> USE DEF PodEnds, queueVars
<1>1. HeldOK(d)
  BY DEF HeldInv
<1>2. CASE host[d] = p
  <2>1. /\ host'[d] = p /\ ~held'[d] /\ ~due'[d]
        /\ job'[d] \in {job[d], "gone"}
    BY <1>2
  <2> QED
    BY <1>1, <2>1 DEF HeldOK, CoverOK, Held
<1>3. CASE host[d] # p
  <2>1. /\ job'[d] = job[d] /\ host'[d] = host[d] /\ held'[d] = held[d]
        /\ beat'[d] = beat[d] /\ age'[d] = age[d] /\ due'[d] = due[d]
        /\ missed'[d] = missed[d]
    BY <1>3 DEF On, HeldInv, TypeInv, TypeOK
  <2> QED
    BY <1>1, <2>1, HeldStays
<1> QED
  BY <1>2, <1>3

(* A tick takes as much of the reserve as of the visibility. *)
LEMMA HeldTick ==
  ASSUME HeldInv, TypeInv', Tick
  PROVE  \A d \in Deliveries : HeldOK(d)'
<1> SUFFICES ASSUME NEW d \in Deliveries PROVE HeldOK(d)'
  OBVIOUS
<1> DEFINE m == Message(d)
           r == age[d] % Interval
<1> USE DEF Tick, Elapse
<1>1. /\ HeldOK(d) /\ m \in Messages
      /\ UNCHANGED <<count, term, job, host, beat, missed, held>>
  BY DeliveryParts DEF HeldInv
<1>2. /\ age[d] \in Nat /\ due[d] \in BOOLEAN /\ missed[d] \in 0..MaxMissed
      /\ left[m] \in Nat /\ Interval \in Nat \ {0} /\ held[d] \in BOOLEAN
  BY <1>1, ConsumerAssumption, VisibilityPositive DEF HeldInv, TypeInv, TypeOK
<1>3. CASE Beating(d)
  <2>1. /\ ~due[d] /\ age'[d] = age[d] + 1
        /\ due'[d] = ((age[d] + 1) % Interval = 0)
    BY <1>2, <1>3
  <2>2. due'[d] => age'[d] % Interval = 0
    BY <2>1
  <2>3. CoverOK(d)'
    <3> SUFFICES ASSUME Held(d), queue[m] = "inflight"
                 PROVE  queue'[m] = "inflight" /\ left'[m] > Reserve(d)'
      BY <1>1 DEF HeldOK, CoverOK, Held, Latest, Message
    <3>1. left[m] > Reserve(d) /\ beat[d]
      BY <1>1 DEF HeldOK, CoverOK
    <3> DEFINE t == (age[d] + 1) % Interval
               c == (MaxMissed - missed[d]) * Interval
    <3>2. Reserve(d) = Interval - r + c
      BY <2>1 DEF Reserve
    <3>3. Reserve(d)' = (IF t = 0 THEN 0 ELSE Interval - t) + c
      BY <1>1, <2>1 DEF Reserve
    <3>4. /\ r \in 0..(Interval - 1)
          /\ (t = 0 /\ r = Interval - 1) \/ t = r + 1
      BY <1>2, NextRemainder
    <3>5. c \in Nat
      BY <1>2, Budget
    <3> HIDE DEF r, t, c
    <3>6. Reserve(d)' = Reserve(d) - 1 /\ Reserve(d) \in Nat \ {0}
      BY <1>2, <3>2, <3>3, <3>4, <3>5
    <3>7. left'[m] = left[m] - 1 /\ left[m] # 1
      BY <1>1, <1>2, <3>1, <3>6
    <3>8. queue'[m] = "inflight"
      BY <1>1, <3>7
    <3> QED
      BY <1>2, <3>1, <3>6, <3>7, <3>8
  <2> QED
    BY <1>1, <2>2, <2>3 DEF HeldOK
<1>4. CASE ~Beating(d)
  <2>1. age'[d] = age[d] /\ due'[d] = due[d]
    BY <1>2, <1>4
  <2>2. Held(d) => queue[m] = "deleted"
    BY <1>1, <1>4 DEF HeldOK, CoverOK, Held, Beating, Canceled
  <2>3. queue[m] = "deleted" => queue'[m] = "deleted"
    BY <1>1
  <2> QED
    BY <1>1, <2>1, <2>2, <2>3 DEF HeldOK, CoverOK, Held, Latest, Message
<1> QED
  BY <1>3, <1>4

LEMMA SlackIs ==
  /\ Slack = Interval + (MaxMissed - 0) * Interval
  /\ (MaxMissed - 0) * Interval \in Nat
<1>1. 0 \in 0..MaxMissed
  BY ConsumerAssumption
<1> QED
  BY <1>1, Budget

(* No reserve is more than that of a heartbeat that has just succeeded.     *)
LEMMA SlackCovers ==
  ASSUME TypeInv, NEW d \in Deliveries
  PROVE  Slack \in Nat /\ Reserve(d) <= Slack
<1> DEFINE r == age[d] % Interval
           c == (MaxMissed - missed[d]) * Interval
           b == (MaxMissed - 0) * Interval
<1>1. /\ missed[d] \in 0..MaxMissed /\ age[d] \in Nat
      /\ Interval \in Nat \ {0} /\ MaxMissed \in Nat
  BY ConsumerAssumption DEF TypeInv, TypeOK
<1>2. c <= b
  <2>1. /\ MaxMissed - missed[d] \in Int /\ MaxMissed - 0 \in Int
        /\ MaxMissed - missed[d] <= MaxMissed - 0
    BY <1>1
  <2>2. Interval * (MaxMissed - missed[d]) <= Interval * (MaxMissed - 0)
    BY <1>1, <2>1, Smaller
  <2>3. \A x, y \in Int : x * y = y * x
    OBVIOUS
  <2> QED
    BY <1>1, <2>1, <2>2, <2>3
<1>3. c \in Nat
  BY <1>1, Budget
<1>4. r \in 0..(Interval - 1)
  BY <1>1, NextRemainder
<1>5. Slack = Interval + b /\ b \in Nat
  BY SlackIs
<1>6. Reserve(d) = (IF due[d] THEN 0 ELSE Interval - r) + c
  BY DEF Reserve
<1> HIDE DEF r, c, b
<1> QED
  BY <1>1, <1>2, <1>3, <1>4, <1>5, <1>6

(* What workers do leaves the heartbeats of the others alone. *)
LEMMA HeldWorker ==
  ASSUME HeldInv, TypeInv', NEW e \in Deliveries,
         WorkerStep(e) \/ HandlerPanics(e)
  PROVE  \A d \in Deliveries : HeldOK(d)'
<1> SUFFICES ASSUME NEW d \in Deliveries PROVE HeldOK(d)'
  OBVIOUS
<1> USE DEF HeldInv, TypeInv, TypeOK, queueVars, beatVars, SetJob
<1>1. HeldOK(d) /\ HeldOK(e) /\ Message(d) \in Messages
  BY DeliveryParts
<1>2. CASE Dispatch(e)
  <2>1. CASE e = d
    BY <1>1, <1>2, <2>1 DEF Dispatch, HeldOK, CoverOK, Held
  <2>2. CASE e # d
    BY <1>1, <1>2, <2>2, HeldStays DEF Dispatch
  <2> QED
    BY <2>1, <2>2
<1>3. CASE HandlerReturns(e) \/ HandlerPanics(e)
  <2>1. CASE e = d
    BY <1>1, <1>3, <2>1 DEF HandlerReturns, HandlerPanics, HeldOK, CoverOK, Held
  <2>2. CASE e # d
    BY <1>1, <1>3, <2>2, HeldStays DEF HandlerReturns, HandlerPanics
  <2> QED
    BY <2>1, <2>2
<1>4. CASE HeartbeatStopped(e)
  <2>1. CASE e = d
    BY <1>1, <1>4, <2>1 DEF HeartbeatStopped, HeldOK, CoverOK, Held
  <2>2. CASE e # d
    BY <1>1, <1>4, <2>2, HeldStays DEF HeartbeatStopped
  <2> QED
    BY <2>1, <2>2
<1>5. CASE Delete(e)
  <2>1. \/ UNCHANGED <<queue, left>>
        \/ \A m \in Messages : \/ queue'[m] = "deleted"
                               \/ queue'[m] = queue[m] /\ left'[m] = left[m]
    BY <1>5 DEF Delete
  <2>2. CASE e = d
    BY <1>1, <1>5, <2>2 DEF Delete, HeldOK, CoverOK, Held
  <2>3. CASE e # d
    BY <1>1, <1>5, <2>1, <2>3, HeldStays DEF Delete
  <2> QED
    BY <2>2, <2>3
<1> QED
  BY <1>2, <1>3, <1>4, <1>5 DEF WorkerStep

(* A heartbeat that ends was canceled, or its message is settled or has     *)
(* gone to a later receipt; one that extends covers the calls that may fail *)
(* after it, and more time does no other receipt any harm.                  *)
LEMMA HeldBeat ==
  ASSUME HeldInv, TypeInv', Outlasting, NEW e \in Deliveries, HeartbeatStep(e)
  PROVE  \A d \in Deliveries : HeldOK(d)'
<1> SUFFICES ASSUME NEW d \in Deliveries PROVE HeldOK(d)'
  OBVIOUS
<1> USE DEF HeldInv, TypeInv, TypeOK, queueVars, beatVars
<1>1. /\ HeldOK(d) /\ HeldOK(e)
      /\ Message(d) \in Messages /\ Message(e) \in Messages
  BY DeliveryParts
<1>2. Interval \in Nat \ {0} /\ MaxMissed \in Nat /\ Visibility \in Nat
      /\ missed[d] \in 0..MaxMissed /\ left[Message(d)] \in Int
  BY <1>1, ConsumerAssumption, VisibilityPositive
<1>3. /\ Reserve(d) \in Nat
      /\ due[d] => Reserve(d) = (MaxMissed - missed[d]) * Interval
  BY <1>1, ReserveFacts DEF HeldOK
<1>4. CASE BeatExit(e) \/ BeatRefused(e)
  <2>1. StopBeat(e) /\ UNCHANGED <<queueVars, pod, term, job, host, held, handled>>
    BY <1>4 DEF BeatExit, BeatRefused
  <2>2. CASE e = d
    <3>1. ~due'[d]
      BY <2>1, <2>2 DEF StopBeat
    <3>2. Held(d) => queue[Message(d)] = "deleted"
      BY <1>1, <1>4, <2>2
         DEF BeatExit, BeatRefused, Held, Canceled, HeldOK, CoverOK
    <3> QED
      BY <1>1, <2>1, <3>1, <3>2 DEF HeldOK, CoverOK, Held, Latest, Message
  <2>3. CASE e # d
    BY <1>1, <2>1, <2>3, HeldStays DEF StopBeat
  <2> QED
    BY <2>2, <2>3
<1>5. CASE BeatExtends(e)
  <2>1. Slack \in Nat /\ Reserve(d) <= Slack
    BY <1>1, SlackCovers DEF HeldOK
  <2>2. Visibility > Reserve(d)
    BY <1>2, <1>3, <2>1 DEF Outlasting
  <2>3. CASE e = d
    <3>1. /\ ~due'[d] /\ missed'[d] = 0 /\ age'[d] = age[d]
          /\ held'[d] = (Latest(d) /\ job[d] = "handling")
          /\ left'[Message(d)] = Visibility
          /\ queue'[Message(d)] = "inflight" /\ beat'[d]
          /\ UNCHANGED <<count, term, job, host>>
      BY <1>1, <1>5, <2>3 DEF BeatExtends, Beating
    <3>2. age[d] % Interval = 0
      BY <1>1, <1>5, <2>3 DEF BeatExtends, HeldOK
    <3>3. Reserve(d)' = Slack
      <4>1. Reserve(d)' = Interval - 0 + (MaxMissed - 0) * Interval
        BY <3>1, <3>2 DEF Reserve
      <4> QED
        BY <1>2, <4>1, SlackIs
    <3>4. CoverOK(d)'
      BY <3>1, <3>3 DEF CoverOK, Held, Latest, Message, Outlasting
    <3> QED
      BY <1>1, <3>1, <3>4 DEF HeldOK
  <2>4. CASE e # d
    <3>1. \/ left'[Message(d)] = left[Message(d)]
          \/ left'[Message(d)] > Reserve(d)
      BY <1>1, <1>5, <2>2 DEF BeatExtends
    <3> QED
      BY <1>1, <1>5, <2>4, <3>1, HeldStays DEF BeatExtends
  <2> QED
    BY <2>3, <2>4
<1>6. CASE BeatFails(e)
  <2>1. CASE e = d
    <3>1. /\ due[d] /\ ~due'[d] /\ missed[d] < MaxMissed
          /\ missed'[d] = missed[d] + 1
          /\ UNCHANGED <<queue, left, count, term, job, host, beat, age, held>>
      BY <1>6, <2>1 DEF BeatFails
    <3>2. age[d] % Interval = 0
      BY <1>1, <3>1 DEF HeldOK
    <3>3. Reserve(d)' = Interval - 0 + (MaxMissed - (missed[d] + 1)) * Interval
      BY <3>1, <3>2 DEF Reserve
    <3>4. (MaxMissed - missed[d]) * Interval
            = Interval + (MaxMissed - (missed[d] + 1)) * Interval
      BY <1>2, <3>1, Budget
    <3>5. missed[d] + 1 \in 0..MaxMissed
          /\ (MaxMissed - (missed[d] + 1)) * Interval \in Nat
      BY <1>2, <3>1, Budget
    <3>6. Reserve(d)' = Reserve(d)
      BY <1>2, <1>3, <3>1, <3>3, <3>4, <3>5
    <3>7. CoverOK(d)'
      BY <1>1, <3>1, <3>6 DEF HeldOK, CoverOK, Held, Latest, Message
    <3> QED
      BY <1>1, <3>1, <3>7 DEF HeldOK
  <2>2. CASE e # d
    BY <1>1, <1>6, <2>2, HeldStays DEF BeatFails
  <2> QED
    BY <2>1, <2>2
<1> QED
  BY <1>4, <1>5, <1>6 DEF HeartbeatStep

LEMMA HeldStep == Outlasting /\ HeldInv /\ [Next]_vars => HeldInv'
<1> SUFFICES ASSUME Outlasting, HeldInv, [Next]_vars PROVE HeldInv'
  OBVIOUS
<1>1. TypeInv' /\ DeleteInv'
  BY TypeStep, DeleteStep DEF HeldInv
<1>2. \A d \in Deliveries : HeldOK(d) /\ Message(d) \in Messages
  BY DeliveryParts DEF HeldInv
<1> SUFFICES \A d \in Deliveries : HeldOK(d)'
  BY <1>1 DEF HeldInv
<1> USE DEF queueVars, beatVars
<1>3. CASE UNCHANGED vars
  BY <1>1, <1>2, <1>3, HeldStays DEF vars
<1>4. CASE Tick
  BY <1>1, <1>4, HeldTick
<1>5. ASSUME NEW m \in Messages, DeadLetter(m)
      PROVE  \A d \in Deliveries : HeldOK(d)'
  <2>1. \A d \in Deliveries : Held(d) => Message(d) # m
    BY <1>2, <1>5 DEF HeldOK, CoverOK, DeadLetter
  <2>2. \A n \in Messages : n # m => queue'[n] = queue[n]
    BY <1>5 DEF DeadLetter, HeldInv, TypeInv, TypeOK
  <2> QED
    BY <1>1, <1>2, <1>5, <2>1, <2>2, HeldStays DEF DeadLetter
<1>6. ASSUME NEW p \in Pods, RunStep(p) \/ PodFault(p)
      PROVE  \A d \in Deliveries : HeldOK(d)'
  <2>1. CASE Receive(p)
    BY <1>1, <2>1, HeldReceive
  <2>2. CASE ReceiveLost(p)
    BY <1>1, <1>2, <2>2, HeldHandOut, HeldStays DEF ReceiveLost
  <2>3. CASE BatchDone(p) \/ StartDrain(p) \/ ReceiveTimesOut(p)
    BY <1>1, <1>2, <2>3, HeldStays DEF BatchDone, StartDrain, ReceiveTimesOut
  <2>4. CASE Sigterm(p)
    <3>1. \A q \in Pods : term[q] => term'[q]
      BY <2>4 DEF Sigterm, HeldInv, TypeInv, TypeOK
    <3> QED
      BY <1>1, <1>2, <2>4, <3>1, HeldStays DEF Sigterm
  <2>5. CASE DrainDone(p) \/ DrainDeadline(p) \/ Crash(p)
    BY <1>1, <2>5, HeldPodEnds DEF DrainDone, DrainDeadline, Crash
  <2> QED
    BY <1>6, <2>1, <2>2, <2>3, <2>4, <2>5 DEF RunStep, PodFault
<1>7. ASSUME NEW e \in Deliveries,
             WorkerStep(e) \/ HeartbeatStep(e) \/ HandlerPanics(e)
      PROVE  \A d \in Deliveries : HeldOK(d)'
  BY <1>1, <1>7, HeldWorker, HeldBeat
<1> QED
  BY <1>3, <1>4, <1>5, <1>6, <1>7 DEF Next

(* No step hands out what is held. *)
LEMMA HeldKept ==
  ASSUME HeldInv, [Next]_vars, NEW d \in Deliveries, Held(d)
  PROVE  count'[Message(d)] = count[Message(d)]
<1> USE DEF queueVars
<1>1. CASE UNCHANGED count
  BY <1>1
<1>2. ASSUME NEW S \in SUBSET Messages, HandOut(S)
      PROVE  count'[Message(d)] = count[Message(d)]
  BY <1>2, HeldHandOut
<1>3. \/ UNCHANGED count
      \/ \E S \in SUBSET Messages : HandOut(S)
  BY DEF Next, vars, Tick, Elapse, DeadLetter, RunStep, PodFault, Receive,
         ReceiveLost, BatchDone, StartDrain, ReceiveTimesOut, Sigterm, DrainDone,
         DrainDeadline, Crash, PodEnds, WorkerStep, HeartbeatStep, Dispatch,
         HandlerReturns, HandlerPanics, HeartbeatStopped, Delete, BeatExit,
         BeatExtends, BeatFails, BeatRefused
<1> QED
  BY <1>1, <1>2, <1>3

(* While the timeout of a heartbeat outlasts the intervals in which calls   *)
(* may fail, a message that a heartbeat holds is not handed out: for any    *)
(* number of messages and pods, with goroutines of any speed, and whatever  *)
(* the timeout of a receive is.                                             *)
THEOREM HeldStaysHidden == Outlasting /\ Spec => HeldIsNotHandedOut
<1>1. HeldInv /\ [Next]_vars =>
        [\A d \in Deliveries :
           held[d] /\ job[d] = "handling" /\ ~term[host[d]] =>
             count'[Message(d)] = count[Message(d)]]_vars
  BY HeldKept DEF Held
<1>2. Outlasting /\ Spec => []HeldInv
  <2> SUFFICES ASSUME Outlasting PROVE Spec => []HeldInv
    OBVIOUS
  <2>1. HeldInv /\ [Next]_vars => HeldInv'
    BY HeldStep
  <2> QED
    BY <2>1, HeldInit, PTL DEF Spec
<1> QED
  BY <1>1, <1>2, PTL DEF Spec, HeldIsNotHandedOut
=============================================================================
