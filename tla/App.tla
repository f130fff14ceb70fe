-------------------------------- MODULE App ---------------------------------
(***************************************************************************)
(* The life of one pod's process: run (cmd/zip-extraction/main.go), which  *)
(* loads the configuration, takes over the signals and builds the clients; *)
(* app.Service.Run (internal/app/app.go), which starts the operational     *)
(* HTTP server, probes SQS, opens the readiness gate, starts the SQS       *)
(* consumer and, after SIGTERM or when one of the two ends, closes         *)
(* everything down; health.Server.Start and health.Gate                    *)
(* (internal/health/server.go); and the consumer as far as Run sees it:    *)
(* workers, the drain and its deadline (module SqsConsumer has the rest).  *)
(*                                                                         *)
(* Time passes in ticks.  A goroutine that has something to react to does  *)
(* so within the tick.  The startup probe, workers, HTTP connections that  *)
(* are being closed and the listener may take any time.                    *)
(***************************************************************************)
EXTENDS Naturals

CONSTANTS
  MaxInFlight,  (* SQSConfig.MaxInFlight                                     *)
  Graceful,     (* GracefulShutdownTimeoutSec, in ticks                      *)
  Slack         (* what Run waits beyond it: 10 s in the code                *)

ASSUME AppAssumption ==
  /\ MaxInFlight \in Nat \ {0}
  /\ Graceful \in Nat \ {0}       (* config.Validate                         *)
  /\ Slack \in Nat \ {0}

VARIABLES
  term,      (* the root context is canceled                                 *)
  run,       (* where main's run, and then Service.Run, is                   *)
  exit,      (* the exit status of the process                               *)
  ready,     (* health.Gate                                                  *)
  server,    (* where Server.Start is                                        *)
  queue,     (* where the goroutine with Queue.Run is                        *)
  workers,   (* workers that have a message in hand                          *)
  queueLeft, (* ticks until the consumer's drain deadline                    *)
  appLeft    (* ticks until Run's own                                        *)

vars == <<term, run, exit, ready, server, queue, workers, queueLeft, appLeft>>

TypeOK ==
  /\ term \in BOOLEAN
  /\ run \in {"loading", "building", "probing", "steady", "flipping",
              "waiting", "closing", "leaving", "over"}
  /\ exit \in {"none", "0", "1", "killed"}
  /\ ready \in BOOLEAN
  /\ server \in {"off", "starting", "listening", "closing", "stopped", "broken",
                 "failed"}
  /\ queue \in {"off", "running", "draining", "done"}
  /\ workers \in 0..MaxInFlight
  /\ queueLeft \in 0..Graceful
  /\ appLeft \in 0..(Graceful + Slack)

Init ==
  /\ term = FALSE
  /\ run = "loading"
  /\ exit = "none"
  /\ ready = FALSE
  /\ server = "off"
  /\ queue = "off"
  /\ workers = 0
  /\ queueLeft = Graceful
  /\ appLeft = Graceful + Slack

Alive == run # "over"
RunsTo(here, there) == run = here /\ run' = there

(* main returns: whatever still runs is gone with the process.              *)
Quit(status) ==
  /\ run' = "over"
  /\ exit' = status
  /\ UNCHANGED <<term, server, queue, workers, queueLeft, appLeft>>

-----------------------------------------------------------------------------
(* main's run, up to Service.Run                                            *)

(* The settings pass config.Validate; from here on signals go to the root   *)
(* context.                                                                 *)
LoadConfig ==
  /\ RunsTo("loading", "building")
  /\ UNCHANGED <<term, exit, ready, server, queue, workers, queueLeft, appLeft>>

(* A setting is missing, unknown or out of range. *)
LoadFails ==
  /\ run = "loading"
  /\ UNCHANGED ready
  /\ Quit("1")

(* The clients are there; Service.Run starts the server. *)
Build ==
  /\ RunsTo("building", "probing")
  /\ server' = "starting"
  /\ UNCHANGED <<term, exit, ready, queue, workers, queueLeft, appLeft>>

BuildFails ==
  /\ run = "building"
  /\ UNCHANGED ready
  /\ Quit("1")

-----------------------------------------------------------------------------
(* Service.Run                                                              *)

ProbeOk ==
  /\ RunsTo("probing", "steady")
  /\ ready' = TRUE
  /\ queue' = "running"
  /\ UNCHANGED <<term, exit, server, workers, queueLeft, appLeft>>

ProbeFails ==
  /\ run = "probing"
  /\ ready' = FALSE
  /\ Quit("1")

(* The select: the root context, or the consumer has returned (always with  *)
(* nil), or Server.Start has (with nil).                                    *)
Shutdown ==
  /\ RunsTo("steady", "flipping")
  /\ term \/ queue = "done" \/ server = "stopped"
  /\ UNCHANGED <<term, exit, ready, server, queue, workers, queueLeft, appLeft>>

(* Mutant of ServerError: the workers are waited for, without a deadline. *)
ServerErrorWhenIdle ==
  /\ run = "steady"
  /\ server = "failed"
  /\ workers = 0
  /\ UNCHANGED ready
  /\ Quit("1")

(* The select: Server.Start has failed.  Nothing is drained.                *)
ServerError ==
  /\ run = "steady"
  /\ server = "failed"
  /\ UNCHANGED ready
  /\ Quit("1")

(* Mutant of StartWaiting: Run waits no longer than the consumer does. *)
StartWaitingNoSlack ==
  /\ RunsTo("flipping", "waiting")
  /\ ready' = FALSE
  /\ appLeft' = Graceful
  /\ UNCHANGED <<term, exit, server, queue, workers, queueLeft>>

StartWaiting ==
  /\ RunsTo("flipping", "waiting")
  /\ ready' = FALSE
  /\ appLeft' = Graceful + Slack
  /\ UNCHANGED <<term, exit, server, queue, workers, queueLeft>>

DrainOver ==
  /\ RunsTo("waiting", "closing")
  /\ queue = "done" \/ appLeft = 0
  /\ UNCHANGED <<term, exit, ready, server, queue, workers, queueLeft, appLeft>>

(* http.Server.Shutdown closes the listener at once. *)
Unlisten == server' = IF server \in {"starting", "listening"} THEN "closing"
                                                              ELSE server
CloseServer ==
  /\ RunsTo("closing", "leaving")
  /\ Unlisten
  /\ UNCHANGED <<term, exit, ready, queue, workers, queueLeft, appLeft>>

(* Mutant of Leave: the last worker is waited for. *)
LeaveWhenIdle ==
  /\ run = "leaving"
  /\ workers = 0
  /\ UNCHANGED ready
  /\ Quit("0")

(* Connections are closed, or 5 seconds have passed. *)
Leave ==
  /\ run = "leaving"
  /\ UNCHANGED ready
  /\ Quit("0")

-----------------------------------------------------------------------------
(* health.Server.Start                                                      *)

ServerOnly == UNCHANGED <<term, run, exit, ready, queue, workers, queueLeft,
                          appLeft>>

Listen ==
  /\ Alive
  /\ server = "starting"
  /\ server' = "listening"
  /\ ServerOnly

(* ListenAndServe returns an error: the port is taken, the listener broke.  *)
ListenFails ==
  /\ Alive
  /\ server \in {"starting", "listening"}
  /\ server' = "broken"
  /\ ServerOnly

(* The select in Start: the error; or the context, and then what            *)
(* ListenAndServe returned is dropped.                                      *)
StartReturnsError ==
  /\ Alive
  /\ server = "broken"
  /\ server' = "failed"
  /\ ServerOnly

StartSeesTerm ==
  /\ Alive
  /\ term
  /\ server \in {"starting", "listening", "broken"}
  /\ server' = IF server = "broken" THEN "stopped" ELSE "closing"
  /\ ServerOnly

ServerStops ==
  /\ Alive
  /\ server = "closing"
  /\ server' = "stopped"
  /\ ServerOnly

-----------------------------------------------------------------------------
(* Queue.Run: sqs.Adapter.Run, see SqsConsumer.                             *)

QueueOnly == UNCHANGED <<term, run, exit, ready, server, appLeft>>

(* Mutant of WorkerStarts: no slot is taken. *)
WorkerStartsUnbounded ==
  /\ Alive
  /\ queue = "running"
  /\ workers <= MaxInFlight
  /\ workers' = workers + 1
  /\ QueueOnly /\ UNCHANGED <<queue, queueLeft>>

WorkerStarts ==
  /\ Alive
  /\ queue = "running"
  /\ workers < MaxInFlight
  /\ workers' = workers + 1
  /\ QueueOnly /\ UNCHANGED <<queue, queueLeft>>

WorkerEnds ==
  /\ Alive
  /\ workers > 0
  /\ workers' = workers - 1
  /\ QueueOnly /\ UNCHANGED <<queue, queueLeft>>

StopsReceiving ==
  /\ Alive
  /\ queue = "running"
  /\ queue' = "draining"
  /\ queueLeft' = Graceful
  /\ QueueOnly /\ UNCHANGED workers

QueueDrains == term /\ StopsReceiving

(* A receive that runs into a timeout below the SDK (context deadline       *)
(* exceeded) is taken for the end of the context.                           *)
ReceiveTimesOut == StopsReceiving

QueueReturns ==
  /\ Alive
  /\ queue = "draining"
  /\ workers = 0 \/ queueLeft = 0
  /\ queue' = "done"
  /\ QueueOnly /\ UNCHANGED <<workers, queueLeft>>

-----------------------------------------------------------------------------
(* The environment: SIGTERM or SIGINT, and time.                            *)

Sigterm ==
  /\ Alive /\ run # "loading"
  /\ ~term
  /\ term' = TRUE
  /\ UNCHANGED <<run, exit, ready, server, queue, workers, queueLeft, appLeft>>

(* Nobody listens to signals yet: the default action ends the process.      *)
SignalKills ==
  /\ run = "loading"
  /\ UNCHANGED ready
  /\ Quit("killed")

(* Steps of goroutines that have something to react to. *)
React ==
  \/ Shutdown \/ ServerError \/ StartWaiting \/ DrainOver \/ CloseServer
  \/ StartReturnsError \/ StartSeesTerm
  \/ QueueDrains \/ QueueReturns

Reacting ==
  \/ run = "steady" /\ (term \/ queue = "done"
                             \/ server \in {"stopped", "failed"})
  \/ run \in {"flipping", "closing"}
  \/ run = "waiting" /\ (queue = "done" \/ appLeft = 0)
  \/ server = "broken"
  \/ term /\ server \in {"starting", "listening"}
  \/ term /\ queue = "running"
  \/ queue = "draining" /\ (workers = 0 \/ queueLeft = 0)

Tick ==
  /\ Alive
  /\ ~Reacting
  /\ queue = "draining" \/ run = "waiting"
  /\ queueLeft' = IF queue = "draining" THEN queueLeft - 1 ELSE queueLeft
  /\ appLeft' = IF run = "waiting" THEN appLeft - 1 ELSE appLeft
  /\ UNCHANGED <<term, run, exit, ready, server, queue, workers>>

Next ==
  \/ LoadConfig \/ LoadFails \/ Build \/ BuildFails
  \/ ProbeOk \/ ProbeFails \/ React \/ Leave
  \/ Listen \/ ListenFails \/ ServerStops
  \/ WorkerStarts \/ WorkerEnds \/ ReceiveTimesOut
  \/ Sigterm \/ SignalKills \/ Tick

(* Loading reads a file, the probe has a timeout of 30 s, Shutdown one of   *)
(* 5 s; a worker need not end, and nobody has to send SIGTERM.              *)
Fairness ==
  /\ WF_vars(LoadConfig \/ LoadFails)
  /\ WF_vars(Build \/ BuildFails)
  /\ WF_vars(ProbeOk \/ ProbeFails)
  /\ WF_vars(React)
  /\ WF_vars(Leave)
  /\ WF_vars(Tick)

Spec == Init /\ [][Next]_vars /\ Fairness

-----------------------------------------------------------------------------
(* A process that ends with status 0 has given the consumer its whole drain *)
(* deadline: Run's own deadline never cuts it short (BR-DRAIN-001,          *)
(* BR-DRAIN-003), whatever the order in which the two learn of the signal.  *)
CleanExitIsDrained ==
  exit = "0" => queue = "done" /\ (workers = 0 \/ queueLeft = 0)

(* After SIGTERM the process ends, also when no worker ever does and when   *)
(* the HTTP server has failed or never came up (BR-DRAIN-003).              *)
SignalEndsProcess == term ~> exit # "none"

(* A process whose HTTP server died ends, and does not linger on without    *)
(* probes and metrics, whatever its workers do.                             *)
DeadServerEndsProcess == server = "broken" ~> exit # "none"

(* Run's comment: it blocks until the context is canceled.                  *)
ConsumerBlocksUntilSignal == queue \in {"draining", "done"} => term

(* services.md, shutdown ordering: the HTTP server is shut down after the   *)
(* drain, so that during the drain /healthz/ready answers 503.              *)
DrainAnswersProbes ==
  run = "waiting" /\ queue = "draining" /\ workers > 0 =>
    server \notin {"closing", "stopped"}
=============================================================================
