----------------------------- MODULE AppProofs ------------------------------
(***************************************************************************)
(* Proofs about App.  That Run's deadline never cuts the consumer's short   *)
(* rests on what the two clocks have to do with each other: Run starts to   *)
(* wait, and the consumer to drain, within the tick of the signal, and no   *)
(* time passes until both have.                                             *)
(***************************************************************************)
EXTENDS App, TLAPS

(* Run goes on to close down only after the signal or the consumer's end,   *)
(* and the server closes only after the signal or when Run is leaving.      *)
SignalInv ==
  /\ run \in {"flipping", "waiting", "closing", "leaving"} =>
       term \/ queue = "done"
  /\ server \in {"closing", "stopped"} => term \/ run \in {"leaving", "over"}
  /\ run \in {"steady", "flipping", "waiting"} => queue # "off"

(* The two clocks. *)
ClockInv ==
  /\ run = "waiting" /\ queue = "running" => appLeft = Graceful + Slack
  /\ run = "waiting" /\ queue = "draining" => appLeft >= queueLeft + Slack
  /\ run \in {"closing", "leaving"} => queue = "done"
  /\ queue = "done" => workers = 0 \/ queueLeft = 0

Inv == TypeOK /\ SignalInv /\ ClockInv /\ CleanExitIsDrained

(* The invariant holds when the process starts. *)
LEMMA InvInit == Init => Inv
<1> SUFFICES ASSUME Init PROVE Inv
  OBVIOUS
<1>1. /\ Graceful \in 0..Graceful
      /\ Graceful + Slack \in 0..(Graceful + Slack)
      /\ 0 \in 0..MaxInFlight
  BY AppAssumption
<1>2. TypeOK
  BY <1>1 DEF Init, TypeOK
<1>3. SignalInv /\ ClockInv /\ CleanExitIsDrained
  BY DEF Init, SignalInv, ClockInv, CleanExitIsDrained
<1> QED
  BY <1>2, <1>3 DEF Inv

(* Every step of the process keeps the types. *)
LEMMA TypeStep == TypeOK /\ [Next]_vars => TypeOK'
<1> SUFFICES ASSUME TypeOK, [Next]_vars PROVE TypeOK'
  OBVIOUS
<1> USE AppAssumption DEF TypeOK
<1>1. CASE UNCHANGED vars
  BY <1>1 DEF vars
<1>0. CASE LoadConfig \/ LoadFails \/ Build \/ BuildFails \/ SignalKills
  BY <1>0 DEF LoadConfig, LoadFails, Build, BuildFails, SignalKills, RunsTo,
              Quit
<1>2. CASE ProbeOk \/ ProbeFails \/ Leave
  BY <1>2 DEF ProbeOk, ProbeFails, Leave, RunsTo, Quit
<1>3. CASE Shutdown \/ ServerError \/ StartWaiting \/ DrainOver
  <2>1. CASE Shutdown
    <3>1. run' = "flipping" /\ UNCHANGED <<term, exit, ready, server, queue,
                                           workers, queueLeft, appLeft>>
      BY <2>1 DEF Shutdown, RunsTo
    <3> QED
      BY <3>1
  <2>2. CASE ServerError
    BY <2>2 DEF ServerError, Quit
  <2>3. CASE StartWaiting
    <3>1. Graceful + Slack \in 0..(Graceful + Slack)
      OBVIOUS
    <3> QED
      BY <2>3, <3>1 DEF StartWaiting, RunsTo
  <2>4. CASE DrainOver
    BY <2>4 DEF DrainOver, RunsTo
  <2> QED
    BY <1>3, <2>1, <2>2, <2>3, <2>4
<1>4. CASE CloseServer
  BY <1>4 DEF CloseServer, Unlisten, RunsTo
<1>5. CASE StartReturnsError \/ StartSeesTerm \/ Listen \/ ListenFails
             \/ ServerStops
  BY <1>5 DEF StartReturnsError, StartSeesTerm, Listen, ListenFails,
              ServerStops, ServerOnly
<1>6. CASE QueueDrains \/ ReceiveTimesOut \/ QueueReturns
             \/ WorkerStarts \/ WorkerEnds
  BY <1>6 DEF QueueDrains, ReceiveTimesOut, StopsReceiving, QueueReturns,
              WorkerStarts, WorkerEnds, QueueOnly
<1>7. CASE Sigterm
  BY <1>7 DEF Sigterm
<1>8. CASE Tick
  <2>1. queue = "draining" => queueLeft > 0
    BY <1>8 DEF Tick, Reacting
  <2>2. run = "waiting" => appLeft > 0
    BY <1>8 DEF Tick, Reacting
  <2> QED
    BY <1>8, <2>1, <2>2 DEF Tick
<1> QED
  BY <1>0, <1>1, <1>2, <1>3, <1>4, <1>5, <1>6, <1>7, <1>8 DEF Next, React

(* Every step keeps what is known of who has learnt of the signal. *)
LEMMA SignalStep == TypeOK /\ SignalInv /\ ClockInv /\ [Next]_vars => SignalInv'
<1> SUFFICES ASSUME TypeOK, SignalInv, ClockInv, [Next]_vars PROVE SignalInv'
  OBVIOUS
<1> USE DEF TypeOK, SignalInv
<1>1. CASE UNCHANGED vars
  BY <1>1 DEF vars
<1>0. CASE LoadConfig \/ LoadFails \/ Build \/ BuildFails \/ SignalKills
  BY <1>0 DEF LoadConfig, LoadFails, Build, BuildFails, SignalKills, RunsTo,
              Quit
<1>2. CASE ProbeOk \/ ProbeFails \/ Leave
  BY <1>2 DEF ProbeOk, ProbeFails, Leave, RunsTo, Quit
<1>3. CASE Shutdown \/ ServerError \/ StartWaiting \/ DrainOver
  BY <1>3 DEF Shutdown, ServerError, StartWaiting, DrainOver, RunsTo, Quit
<1>4. CASE CloseServer
  BY <1>4 DEF CloseServer, Unlisten, RunsTo
<1>5. CASE StartReturnsError \/ StartSeesTerm \/ Listen \/ ListenFails
             \/ ServerStops
  BY <1>5 DEF StartReturnsError, StartSeesTerm, Listen, ListenFails,
              ServerStops, ServerOnly
<1>6. CASE QueueDrains \/ ReceiveTimesOut \/ QueueReturns
             \/ WorkerStarts \/ WorkerEnds
  BY <1>6 DEF QueueDrains, ReceiveTimesOut, StopsReceiving, QueueReturns,
              WorkerStarts, WorkerEnds, QueueOnly
<1>7. CASE Sigterm
  BY <1>7 DEF Sigterm
<1>8. CASE Tick
  BY <1>8 DEF Tick
<1> QED
  BY <1>0, <1>1, <1>2, <1>3, <1>4, <1>5, <1>6, <1>7, <1>8 DEF Next, React

(* Every step keeps the relation of the two clocks: a tick needs both       *)
(* goroutines to have reacted, and then takes from both alike.              *)
LEMMA ClockStep ==
  TypeOK /\ SignalInv /\ ClockInv /\ [Next]_vars => ClockInv'
<1> SUFFICES ASSUME TypeOK, SignalInv, ClockInv, [Next]_vars PROVE ClockInv'
  OBVIOUS
<1> USE AppAssumption DEF TypeOK, SignalInv, ClockInv
<1>1. CASE UNCHANGED vars
  BY <1>1 DEF vars
<1>0. CASE LoadConfig \/ LoadFails \/ Build \/ BuildFails \/ SignalKills
  BY <1>0 DEF LoadConfig, LoadFails, Build, BuildFails, SignalKills, RunsTo,
              Quit
<1>2. CASE ProbeOk \/ ProbeFails \/ Leave
  BY <1>2 DEF ProbeOk, ProbeFails, Leave, RunsTo, Quit
<1>3. CASE Shutdown \/ ServerError
  BY <1>3 DEF Shutdown, ServerError, RunsTo, Quit
<1>4. CASE StartWaiting
  BY <1>4 DEF StartWaiting, RunsTo
<1>5. CASE DrainOver
  <2>1. queue = "done"
    BY <1>5 DEF DrainOver, RunsTo
  <2> QED
    BY <1>5, <2>1 DEF DrainOver, RunsTo
<1>6. CASE CloseServer
  BY <1>6 DEF CloseServer, RunsTo
<1>7. CASE StartReturnsError \/ StartSeesTerm \/ Listen \/ ListenFails
             \/ ServerStops
  BY <1>7 DEF StartReturnsError, StartSeesTerm, Listen, ListenFails,
              ServerStops, ServerOnly
<1>8. CASE QueueDrains \/ ReceiveTimesOut
  BY <1>8 DEF QueueDrains, ReceiveTimesOut, StopsReceiving, QueueOnly
<1>9. CASE QueueReturns \/ WorkerStarts \/ WorkerEnds
  BY <1>9 DEF QueueReturns, WorkerStarts, WorkerEnds, QueueOnly
<1>10. CASE Sigterm
  BY <1>10 DEF Sigterm
<1>11. CASE Tick
  <2>1. run = "waiting" => queue # "running"
    BY <1>11 DEF Tick, Reacting
  <2> QED
    BY <1>11, <2>1 DEF Tick
<1> QED
  BY <1>0, <1>1, <1>2, <1>3, <1>4, <1>5, <1>6, <1>7, <1>8, <1>9, <1>10, <1>11
  DEF Next, React

(* A step that ends the process with status 0 finds the consumer drained,   *)
(* and after the end nothing moves.                                         *)
LEMMA ExitStep ==
  TypeOK /\ ClockInv /\ CleanExitIsDrained /\ (exit # "none" => run = "over")
    /\ [Next]_vars => CleanExitIsDrained' /\ (exit # "none" => run = "over")'
<1> SUFFICES ASSUME TypeOK, ClockInv, CleanExitIsDrained,
                    exit # "none" => run = "over", [Next]_vars
             PROVE  CleanExitIsDrained' /\ (exit # "none" => run = "over")'
  OBVIOUS
<1> USE DEF TypeOK, ClockInv, CleanExitIsDrained, Alive
<1>1. CASE UNCHANGED vars
  BY <1>1 DEF vars
<1>0. CASE LoadConfig \/ LoadFails \/ Build \/ BuildFails \/ SignalKills
  BY <1>0 DEF LoadConfig, LoadFails, Build, BuildFails, SignalKills, RunsTo,
              Quit
<1>2. CASE ProbeOk \/ ProbeFails \/ Leave
  BY <1>2 DEF ProbeOk, ProbeFails, Leave, RunsTo, Quit
<1>3. CASE Shutdown \/ ServerError \/ StartWaiting \/ DrainOver \/ CloseServer
  BY <1>3 DEF Shutdown, ServerError, StartWaiting, DrainOver, CloseServer,
              RunsTo, Quit
<1>4. CASE StartReturnsError \/ StartSeesTerm \/ Listen \/ ListenFails
             \/ ServerStops
  BY <1>4 DEF StartReturnsError, StartSeesTerm, Listen, ListenFails,
              ServerStops, ServerOnly
<1>5. CASE QueueDrains \/ ReceiveTimesOut \/ QueueReturns
             \/ WorkerStarts \/ WorkerEnds
  BY <1>5 DEF QueueDrains, ReceiveTimesOut, StopsReceiving, QueueReturns,
              WorkerStarts, WorkerEnds, QueueOnly
<1>6. CASE Sigterm \/ Tick
  BY <1>6 DEF Sigterm, Tick
<1> QED
  BY <1>0, <1>1, <1>2, <1>3, <1>4, <1>5, <1>6 DEF Next, React

(* Every variable keeps its type; with it the size of the pool and the      *)
(* bounds of the two clocks.                                                *)
THEOREM TypeCorrect == Spec => []TypeOK
<1>1. Init => TypeOK
  BY InvInit DEF Inv
<1> QED
  BY <1>1, TypeStep, PTL DEF Spec

(* Whatever the sizes of the pool and of the deadlines, as long as Run      *)
(* waits longer than the consumer: a process that ends with status 0 has    *)
(* let every worker finish, or the drain deadline has passed (app.go).      *)
THEOREM CleanExit == Spec => []CleanExitIsDrained
<1> DEFINE All == Inv /\ (exit # "none" => run = "over")
<1>1. Init => All
  BY InvInit DEF Init
<1>2. All /\ [Next]_vars => All'
  BY TypeStep, SignalStep, ClockStep, ExitStep DEF Inv
<1>3. All => CleanExitIsDrained
  BY DEF Inv
<1> QED
  BY <1>1, <1>2, <1>3, PTL DEF Spec
=============================================================================
