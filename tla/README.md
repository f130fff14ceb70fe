# Verification of the zip-extraction service

TLA+ models of `services/zip-extraction`, the Go service that takes a claim-check
message from SQS, downloads a ZIP archive, puts every entry into a staging bucket,
records each one in DynamoDB and leaves a slipsheet that says how it went. TLC checks
the models on small instances; TLAPS proves a part of the properties for every value
of the constants. Paths below are relative to `src/services/zip-extraction/` unless
they start with `aidlc-docs/`.

## 1. The system

### Components

| component | code | state | operations | modelled by |
|---|---|---|---|---|
| extraction service | `internal/extraction/service.go` | none of its own: the outcomes of the entries and the archive status live for one call of `Process` | `Process`, `processEntry`, `classifyChild`, `recordFailedEntry`, `computeStatus` | `Extraction`, `EntryLedger` |
| archive opening, spill, peek | `internal/extraction/zip_open.go` | temp file; sums, flags and ranges of the central directory; peek buffer | `openZip`, `spillToTemp`, `peekReader` | `Extraction` (outcomes), `Admission` (sums), `OverlapCheck` (ranges), `EntryStream` (peek) |
| bomb defence | `internal/bombdefence/checker.go` | per entry: a byte counter | `PreCheck`, `EntryCheck`, `OverlapCheck`, `NewLimitedReader` | `Admission`, `OverlapCheck`, `EntryStream` |
| path validation | `internal/validation/validator.go` | none | `Sanitize` | `PathValidator`, `Admission` |
| retrier | `internal/retry/retry.go` | attempt counter of one call | `Do`, `Classify`, `BackoffFor` | `Retry`; `Do` also in `Extraction`, with the verdict of `Classify` as a choice |
| S3 storage | `internal/storage/adapter.go` | staging bucket (external) | `Download`, `Upload` | `Extraction`, `EntryStream` |
| DynamoDB recorder | `internal/dynamodb/adapter.go` | `pipeline_files` (external) | `RecordEntry` | `Extraction`, `EntryLedger` |
| slipsheet writer | `internal/slipsheet/slipsheet.go` | slipsheet object (external) | `Build`, `Write` | `Extraction`, `EntryLedger` |
| SQS consumer | `internal/sqs/adapter.go` | pool of slots, worker contexts, heartbeats; the queue (external) | `Run`, `dispatch`, `startHeartbeat`, `deleteMessage` | `SqsConsumer`, `AtLeastOnce`, `Pipeline` |
| application | `internal/app/app.go` | readiness, drain deadline | `Run` and the handler it gives the consumer | `App`, `Pipeline` |
| health server | `internal/health/server.go` | gate, listener | `Start`, `Shutdown`, `SetReady` | `App` |
| main | `cmd/zip-extraction/main.go` | root context | `run` | boot, signals and exit status in `App`; the wiring of consumer and handler in `Pipeline` |
| configuration, AWS clients | `internal/config/config.go`, `internal/awsclients/awsclients.go` | none after the start | `Load`, `Validate`, `Build` | their outcomes in `App`; what `Validate` enforces are the assumptions on the constants |
| classification client, MIME detection, failure wording, metrics, logging, harness, chart | the rest | | | not modelled, see 8 |

### How they interact

`main` loads the configuration, makes a root context that SIGTERM cancels, builds the clients and calls `app.Service.Run`. `Run`
starts the health server, probes SQS, opens the readiness gate and starts
`sqs.Adapter.Run` in a goroutine. That one receives batches, takes a slot of a
channel for each message and starts a worker; the worker starts a heartbeat goroutine,
calls `extraction.Service.Process` and, on a terminal outcome, cancels its context,
waits for the heartbeat and deletes the message. `Process` works under a context with
the deadline of rule 10 that derives from the worker's. All pods share the queue, the
bucket and the table; deliveries of one message share nothing else. A done root context
reaches handler, heartbeat, slipsheet write and delete alike.

### What is hard here

* **At-least-once delivery.** Two deliveries of a message interleave on the same keys:
  unconditional uploads, conditional puts, an unconditional slipsheet.
* **Partial failure and lost answers.** Each call may fail with or without effect,
  is retried if transient, and its failure is then reported.
* **Cancellation.** Rule 10, SIGTERM, the drain deadline and `workerCancel` reach
  different goroutines through one tree of contexts, some of them too early.
* **Visibility against time.** A heartbeat that fails or starts late lets the queue
  hand out a message that is still being handled.
* **Bounded resources.** Slots across panics, drains and redeliveries.
* **Streams.** Bytes are read through a limiter, a peek buffer and a retried upload.
* **Boundaries.** Unsigned sizes in signed sums, ranges that touch, an unstable sort,
  limits reached exactly, names encoded more than once.

`hazards` in PROJECT.json lists them line by line, each with the properties that
would notice it going wrong.

## 2. Plan

The modules in the order of their importance, which is also the order they are written in:

1. `Extraction` with `EntryLedger`: what deliveries leave in the stores. *Done, safety
   proved.*
2. `SqsConsumer` with `AtLeastOnce`: receive, heartbeat, delete, drain. *Done, safety
   proved.*
3. `App`: process lifecycle around it, from the loading of the configuration on. *Done,
   safety proved.*
4. `OverlapCheck`, `EntryStream`: rules 11, 2 and 3, peek and upload stream. *Done,
   proved.*
5. `PathValidator`, `Admission`: names, sums, rules 1, 4, 5, 6, 9, 12. *Done, proved.*
6. `Retry`: classification and wrapping of errors. *Done, proved.*
7. `Pipeline`: `SqsConsumer` with `Extraction` as its handler. *Done, safety proved, for
   two properties under the timing they need.*
8. Left: the liveness properties, which stay with TLC (see 6).

Abstract specifications, both refined: `EntryLedger` (what deliveries leave in the stores)
and `AtLeastOnce` (what the queue and its consumers promise to a sender).

## 3. Modules

### Extraction

One archive, any set of `Deliveries`. `pc[d]` follows `Process` through `download`,
`spill`, `open`, `loop`, then per entry `upload`/`uploading`, `record`/`recording`,
`classify` and the failure paths `failing` and `rejecting`, to `slipsheet` (the deferred
write) and an end. An entry is of one of eight kinds, by where `processEntry` stops for
it. `uploading` and `recording` are calls in flight: the effect (`StoreChild`, `PutRow`)
and the answer are one step, and an answer may be lost, so that an effective call
fails. The `Do...` operators are `Retrier.Do`: the context check before each attempt,
the error that is not retried, the transient one, the last attempt. `Deadline`,
`Drain`, `Panic` and `Crash` may come at any step. `PutRow` is the conditional put,
whose failed condition counts as success.

`fresh` and the object value `short` stand for the stream an upload attempt reads: a
second attempt continues where the first stopped.

`Ledger` is an instance of **EntryLedger**: objects only of storable entries, a row
for an uploaded entry only after its object, rows written once, a published slipsheet
backed by both. `ImplementsLedger` says every step of every delivery is a step of the
ledger or leaves it unchanged.

### SqsConsumer

Messages, pods, and deliveries `<<m, k>>` (the k-th receipt of m). `pod[p]` is where
`Run` is, `job[d]` where `dispatch` is; `beat`, `age`, `due`, `missed` are the heartbeat
goroutine and its ticker; `queue`, `count`, `left` are SQS. `Canceled(d)` is the worker
context: canceled by SIGTERM through the root, or by `workerCancel`. Time passes in
ticks; `Prompt` chooses whether goroutines that can run do so within the tick.
`FirstVisibility` is the timeout of a receive and `Visibility` that of a heartbeat: they differ
when `VisibilityTimeoutSec` is not set, since the fallback in `Validate` is lost, the
receive leaves the choice to the queue and the heartbeat falls back by itself.
`ReceiveTimesOut` is the receive whose `DeadlineExceeded` is taken for a shutdown.

`Promise` is an instance of **AtLeastOnce**: a message is handed out at most
`MaxReceives` times, deleted only once a handler has brought it to its end or because it
can never be handled, and given up only after its last receipt. `ImplementsAtLeastOnce`
says every step of the queue and the pods is a step of the promise or leaves it
unchanged. `HeldIsNotHandedOut` needs a heartbeat timeout that outlasts the calls which
may fail, which the `sqs` run leaves out on purpose; the `pipeline` run checks it.

### Pipeline

Any number of messages, of which one, `Focus`, is followed through its archive: deliveries of
different messages share no object, row or slipsheet, they only compete for slots, so the
handlers of the others end when they like (`OtherWorker`). Every action of `SqsConsumer` and of
`Extraction` is taken from its module; the two meet where one calls the other: `Dispatch` begins
delivery `<<Focus, k>>` of the archive, `HandlerReturns` and `HandlerPanics` give the consumer
what `Process` ended with. The root context of the pod reaches the handler as `Extraction`'s `Drain`, the end
of the process as its `Crash` (`Overtake`, before anything else happens). `author`,
`unwritten` and `late` are history: whose slipsheet is there, which writes failed by
themselves, and which workers began late.

A worker begins late when its receipt does not hold the message any more, or will not hold
it until a heartbeat has got through (`InTime`): this is what becomes of a message that has
waited in its batch for a slot, without a heartbeat. `OneHandlerAtATime` is about
the handlers that were not late, `DeletedIsReported` about messages none of whose
receipts was; what late ones do is in 7. `DeletedLeavesReport` and the two refinements hold
for both.

### App

`main`'s `run` while it loads (`loading`, when a signal still kills the process) and builds
(`building`); then `Service.Run` and `Server.Start` as two goroutines, the consumer
reduced to its number of workers and its drain deadline. `React` collects the steps of goroutines that have
something to react to; they happen before time passes.

### OverlapCheck

Sort the located ranges by start (`Orders` is every order `sort.Slice` may give), walk
over neighbours, accept or reject. The end of a range is what `openZip` computes: an int64 sum
of the offset and the unsigned 64-bit size, which is negative where either conversion
wraps (`Int64`, `End`). The properties are about the true ends (`Stop`) instead, so
`AcceptedAreApart` is about entries whose end fits the word, among any others, and
`AllAcceptedAreApart` in 7 about the rest.

### EntryStream

Bytes are numbers of their place in the entry. `Pass` and `Trip` are
`limitedReader.Read`: it counts, checks rule 2 and then rule 3, and passes nothing on when
one trips. `PeekRead`/`PeekDone` are `peekReader`, `ReadPeek`/`ReadOn` the upload reading
the rebuilt reader, `AttemptFails` a transient failure whose successor is given the same
reader.

### PathValidator and Admission

`PathValidator` is `Sanitize` as operators on names whose characters carry how many
times they are URL-encoded; decoding, separators, checks and the base name are in the
code's order. `Admission` reads the central directory header by header with sums that
wrap like int64, then applies `PreCheck` (the first broken rule wins), rule 11 as a
choice, and, entry by entry, `Sanitize` and `EntryCheck`.

### Retry

One call of `Retrier.Do`. An error is the chain of its layers, outermost first, and
`As` is `errors.As` on it. `Classify` is four groups of rules in the code's order, of
which the first that is not silent decides; `AsTransient` is what the adapters do to
an error of the SDK before `Do` sees it, `Permanent` what `Do` does to the last one, and
`Verdict` and `EntryReason` what `processEntry` and `classifyEntryFailure` read out of
the result. The context may end at any step, also while `Do` waits.

### How they fit together

`Extraction` takes as given what the four modules of detail decide: `badPath` and
`bombHeader` are refusals of `Admission`, header `bomb` one of `Admission` or
`OverlapCheck`, `bombPeek` and `bombStream` a trip of `EntryStream`, `short` an object of
`EntryStream` that is not whole; the answers of a call it distinguishes (transient, not retried)
are the verdicts of `Retry`. `SqsConsumer` alone takes a handler to end, panic or run into
rule 10 at any time; `Pipeline` puts `Extraction` in its place. `App` takes from
`SqsConsumer` workers and drain.

## 4. Runs

All passing runs finish within five minutes with two workers. `CHECK_DEADLOCK FALSE`
everywhere: deliveries end, processes exit, archives get their verdict.

| run | instance | what it shows |
|---|---|---|
| `extraction_single` | 1 delivery, 3 entries of all 8 kinds, 2 attempts | only storable entries are stored, the slipsheet agrees with the rows and with its status, nothing is started after the context is done, every delivery ends |
| `extraction_redelivery` | 2 deliveries (symmetric), 2 entries that are clean or abort, 1 attempt | rows are write-once and backed, slipsheets are backed, the ledger is implemented |
| `sqs` | 2 messages (one does not parse), 1 pod, 1 slot, both visibilities 2, 2 receives, 1 missed beat, every fault, goroutines of any speed | at-least-once delivery is implemented, the pool stays bounded, no beat beside a delete, messages settle as long as the pod receives, drains end |
| `pipeline` | 1 message, 2 pods, both visibilities 3, interval 1, 2 receives, 1 missed beat, every fault, prompt goroutines; archive of 1 entry whose path is refused | what is deleted has its report, through drains, crashes and redeliveries; handlers that began in time exclude each other; a message that a heartbeat holds is not handed out |
| `pipeline_slots` | 2 messages in a batch, 2 pods of 1 slot, both visibilities 3, interval 1, 2 receives of `Focus` and 1 of the other (constraint `OthersOnce`), no fault, prompt goroutines | receipts wait for the slot and begin late, beside or after another pod's handler: those in time still exclude each other, and where none was late the report is that of the last receipt |
| `app_lifecycle` | pool 2, drain deadline 3, slack 1 | exit 0 means a full drain; SIGTERM and a dead HTTP server always end the process |
| `overlap` | 3 ranges in a word of 8 values, offsets 0..3, sizes 0, 1, 2 and 7, so that ends fit, reach the sign bit by their sum or by the size alone | accepted entries whose end fits are apart; a rejected archive has an overlap |
| `stream` | 2 entries, sizes 0, 1, 3, 5, 6 around a limit of 5 and a ratio of 2, peek 2, part 3, 3 attempts | limits hold whatever the read sizes; an object is the tail of its entry |
| `admission` | up to 3 headers, words of 16 values, names of up to 3 characters and some longer ones | sums that fit are exact; an accepted name is one segment |
| `retry` | 3 attempts, 25 chains of one or two layers: answers of a service, failures of the transport, errors of the body's reader | a bomb aborts however it is wrapped; throttling gets every attempt although its status is 400; an error given up is final |
| `extraction_tail`, `extraction_failed_row` | | one documented claim each that the code does not meet, see 7 |

In `sqs` a message that its only pod leaves behind settles because that pod no longer
receives. `MCSqsConsumerSurvivor.cfg` has one message and a second pod, and the same faults:
what a pod held when it crashed or was terminated settles in the one that is left (517908
states, two minutes; `tlc -config MCSqsConsumerSurvivor.cfg MCSqsConsumer`).

Why the bounds are enough for what they are to show: two deliveries are the fewest that
interleave, and deliveries only meet in the stores, whose keys are per entry; two
entries are the fewest with one uploaded and one not, three put an abort between two
others; two attempts give a first, a retried and a last one; a visibility of 3 with
interval 1 leaves room for one missed beat and none for two, and one of 2 lets a missed
beat bring the message back at the moment the next is due; one slot with two messages
makes the pool full, and with two pods it makes a message wait in one while the other may be
given it (in `pipeline_slots` a visibility of 3 with interval 1 and no missed beat is enough
to begin in time or late, whichever the handler before it leaves); faults and two messages
together are too many states for TLC with the real handler and are left to the theorems,
which hold for both; `pipeline` needs no more of the archive than that its delivery ends in
a slipsheet, since the entries are the subject of the two extraction runs, and all its
kinds of end (report, failed write, rule 10, drain, panic, crash) come with one entry; sizes in `stream` lie below, at and above each limit; sizes in
`admission` lie on both sides of the sign bit, and their sums below, at and above
the limit and beyond the word; three attempts in `retry` give a first, a middle and a last
one, and two layers are what the rules of `Classify` can disagree about.

Every property is shown to depend on the code by a mutant: the definitions before a
mapped one, with a comment `Mutant of`, are the variants the properties reject.

## 5. Fairness

* `Extraction`: weak fairness of each delivery's steps. A goroutine that can run does,
  and every network call returns (the SDK's clients have timeouts, and the context
  ends). None for faults, deadline or drain.
* `SqsConsumer`: weak fairness of time, of the redrive policy, of `Run`, of each worker
  and of each heartbeat. The handler returns because rule 10 ends its context. A
  panic, a crash, SIGTERM and the drain deadline need not come.
* `App`: weak fairness of loading and building (files and the environment are read), of the probe (it has a timeout of 30 s), of goroutines with something
  to react to, of `Run`'s last steps (`Shutdown` has 5 s) and of time. A worker need
  not end and nobody need send SIGTERM.
* `Pipeline`, `Retry`, `Admission`, `EntryStream`: none; their properties are safety.
* `OverlapCheck`: weak fairness of the walk; no checked property needs it.

## 6. Proofs

All theorems are checked by tlapm for every value of the constants that meets the
named assumption of the module (`ExtractionAssumption`, `ConsumerAssumption`,
`PipelineAssumption`, `AppAssumption`, `OverlapAssumption`, `StreamAssumption`,
`AdmissionAssumption`, `RetryAssumption`). Those assumptions are what
`config.Validate` enforces (positive limits and attempts), what the libraries
guarantee (a peek fits an upload part), or what the constants stand for: in `Admission`
a name is a sequence of characters, each with a number of encodings, in `OverlapCheck` a
word has `2 * Half` values, and `Pipeline` follows one of its messages.

* **ExtractionProofs** `TypeCorrect`: `TypeInv` is `TypeOK` with `WhyOK`, which says
  that a failing entry has its reason; without it the outcomes would leave their set.
  `StorableCorrect`, `RowCorrect`, `SlipsheetCorrect` and `RowsCorrect` follow from
  `StoreInv`, whose part `PositionOK` relates where each
  delivery is to its outcomes and to the stores: at `record` the current entry has its
  object, an outcome UPLOADED has both object and row, at `slipsheet` the outcomes are
  those that will be published. It holds for any number of deliveries because
  objects and rows only grow. `StatusCorrect` needs `ReportInv`: `ToldOK` says
  which status each delivery may carry with which outcomes. `Refinement`: initial states and steps of `Extraction` map
  to those of `EntryLedger`, given `StoreInv` and `ReportInv`. `NoCallAfterDone`: every
  action that begins a call looks at the context first. `AgreementAlone`, for one
  delivery: `Alone` says that the outcomes so far and the rows agree entry by entry;
  with two deliveries it is false, since the slipsheet of one may be older than the rows
  of the other (the run checks it for one delivery too).
* **SqsProofs**. `TypeCorrect`: `TypeInv` adds that a message in flight has time left.
  `NothingLost` and `DeleteAlone` follow from `DeleteInv`, whose `JobsOK` says that
  a worker on its way to the delete of a valid message has handled it, and that its
  heartbeat is over once it gets there. `PoolBounded`: `PoolInv` adds that the workers are
  finitely many; a dispatch is the only step that adds one. `Refinement`: steps map to
  steps of `AtLeastOnce` or to stutters, given the other invariants. `HeldStaysHidden`, for
  goroutines of any speed and any timeout of a receive, assumes `Outlasting`: the timeout
  of a heartbeat exceeds `MaxMissed + 1` intervals (300 s against 30 s as deployed).
  `HeldInv` says that a message held by a heartbeat was not handed out since, and that
  its visibility exceeds `Reserve(d)`, the ticks until the last heartbeat call that may
  still fail is followed by one that must succeed: a tick takes one from both, a failed
  call takes one from `MaxMissed - missed` and none from the reserve, a successful call of
  any receipt puts the visibility back above the whole of it.
* **PipelineProofs**, in three parts.
  * The components in the whole. `ConsumerNext` and `HandlerNext`: every step of
    `Pipeline` is a step of `SqsConsumer` and one of `Extraction`, or invisible to them. So
    their invariants hold here, and `WholeDeliversAtLeastOnce`, `WholeKeepsLedger` and
    `HeldStaysHidden` carry the two refinements and the result on heartbeats over to
    the consumer with its real handler.
  * `DeletedLeaves`, whatever the timing: `PlaceOK` relates the two components (a worker that
    is past its handler is one whose `Process` has returned), `ReportOK` says that a
    delivery has returned only with a slipsheet in place, a failed write or a done root
    context. The last case is the one that matters: the context that silently stops the
    write also stops the delete.
  * `HandlersExclude` and `DeletedReported`, for any number of messages, slots and pods, under
    `Timely`: goroutines are prompt, and the timeout of a heartbeat exceeds `Slack`, that is
    `MaxMissed + 1` intervals, as deployed. `TimelyInv` says of the receipts of `Focus` that
    did not begin late: the active one is the latest receipt of a message nobody else can get
    (`ActiveOK`, `PlacedOK`), with visibility left beyond its `Reserve` (`BeatOK`), and a
    handler which has returned wrote the slipsheet that is there or has an excuse
    (`AuthorOK`). Nothing is assumed about receipts that wait: one that waits too long
    leaves the invariant by beginning late, and while it waits, another pod's receipt is the
    latest one.
* **AppProofs** `TypeCorrect` and `CleanExit`: `CleanExitIsDrained` needs `SignalInv` (which stages of the
  server, consumer and `Run` are possible without a signal) and `ClockInv` (while both drain,
  the consumer's clock is ahead of `Run`'s by at least the slack).
* **OverlapProofs** `TypeCorrect`, `Disjoint` and `NoFalseAlarm`: `SortedInv` (the walk's order is one
  of `Orders`) and `WalkInv` (of the ranges before the position, each
  ends before every later one begins). The ends in
  `WalkInv` are the computed ones, each compared with every later start, so a range whose end has
  wrapped may stand between two others; where an end fits the word it is the true one. `NoFalseAlarm` needs no such hypothesis: a
  wrapped end is never beyond the true one.
* **EntryStreamProofs** `TypeCorrect`; `Limited` from `LimiterInv` (the counter equals what was read
  below, and is within the limits unless the reader has tripped) and `Tails`
  from `TailInv` (peek, front and what the attempts have read are consecutive stretches
  of the entry).
* **RetryProofs** `TypeCorrect`, `BombAborts`, `GivenUp` and `ThrottlingRetried`, for any number of attempts and
  any chains of errors: `FinalKind` (a chain with an error of the domain or a
  `PermanentError` is final, whatever wraps it) and `LoopInv` (as long as `Do` has not
  returned, another attempt is left and all errors so far were worth it).
  `ThrottlingRetried` assumes that an answer of a service that throttles wraps no error
  of the domain, as is the case for what the SDK returns: such an error would be final.
* **AdmissionProofs** `TypeCorrect`, `SumsExact` and `OneSegment`. `SumsExact`: where
  the true sum of the archive fits the word, the running sum is the true sum of the headers
  read so far (`SumInv`; partial sums fit as well, `SumBound`), and each verdict agrees
  with the sums it was reached from (`RuleInv`). That needs induction over the
  headers, which the library offers only for an operator; `NatInduct` proves it for
  a given set of numbers, from the least number outside that set, and that one from the
  well-foundedness of strict inclusion among finite sets. `OneSegment`, for names of any
  length and depth of encoding: every segment of the normalised name that `Base` may
  return lies between two neighbouring cuts, so it holds no separator, and it is neither empty nor
  a dot segment, since those are refused or skipped.

**Only model-checked**: the five liveness properties, `EveryDeliveryEnds`,
`EveryMessageSettles`, `DrainEnds`, `SignalEndsProcess` and `DeadServerEndsProcess`. They rest
on fairness, and so on `ENABLED`, which the prover cannot do. Every safety invariant and
action property of the passing runs is a theorem, with the hypotheses named above:
one delivery for `SlipsheetAgreesWithRows`, the SDK's errors for
`ThrottlingUsesAllAttempts`, `Outlasting` for `HeldIsNotHandedOut`, `Timely` for
`OneHandlerAtATime` and `DeletedIsReported`. The properties carry two more in
themselves: workers that did not begin late in the last two, ends that fit the word
in `AcceptedAreApart`.

## 7. Where documents and code disagree

Two are runs of their own:

* `StoredChildrenAreWhole` (`extraction_tail`): a retried upload is given the reader its
  predecessor consumed and can store a truncated child as UPLOADED (`service.go:300`).
* `SuccessHasNoFailedRow` (`extraction_failed_row`): a redelivery reports SUCCESS while a
  FAILED row of an earlier delivery stays, since a failed condition counts as success
  (`dynamodb/adapter.go:55`).

The others are stated at the end of their modules, each with a configuration of
its own that shows a counterexample (`tlc -config <module><property>.cfg <module>`, for
instance `tlc -config MCAppDrainAnswersProbes.cfg MCApp`):

| property | module | what happens |
|---|---|---|
| `UnreadableEntriesHaveRows` | `MCExtraction` | an entry that cannot be opened or peeked has no row (BR-DDB-002) |
| `DeadlineFailsArchive` | `MCExtraction` | rule 10 during the last entry gives PARTIAL_FAILED (BR-STATUS-002) |
| `DrainedDownloadHasSlipsheet` | `MCExtraction` | a drain during the download leaves no slipsheet (business-logic-model.md, section 5) |
| `HeartbeatSurvivesDrain` | `MCSqsConsumer` | SIGTERM ends the heartbeats of running handlers (BR-HEARTBEAT-003) |
| `AcceptedNamesAreStable` | `MCAdmission` | a name that was encoded twice changes when `Sanitize` is applied to its own result (business-rules.md:113) |
| `TerminalIsDeleted` | `MCSqsConsumer` | a message that ends terminally during a drain is not deleted (BR-DLQ-001) |
| `DeleteIsAlone` | `MCSqsConsumer` | the delete of a message that does not parse runs beside its heartbeat |
| `InHandIsInvisible` | `MCSqsConsumer` | a message of a batch that waits for its slot has no heartbeat, and becomes visible to other pods while this one holds it (`sqs/adapter.go:72`, `90`, against NFR-Z-034 and FR-9.1): with 10 messages in a batch, 5 slots, handlers of up to 240 s and a visibility of 300 s no call need fail for that |
| `ExhaustedNamesClass` | `MCRetry` | after exhausted retries the recorded reason is always `retries exhausted: permanent`, never the class (`service.go:448` against business-rules.md:352) |
| `DrainAnswersProbes` | `MCApp` | the HTTP server is already closed during the drain (services.md) |
| `ConsumerBlocksUntilSignal` | `MCApp` | a receive that ends with `DeadlineExceeded` ends the consumer, and the process with status 0, without a signal (comments at `app/app.go:56`, `sqs/adapter.go:53`) |
| `NoDoubleProcessing` | `MCPipeline` | a receipt that has waited for a slot is dispatched although it is stale: its handler works beside that of another pod, or after it, and may then overwrite its slipsheet (requirement-verification-questions.md on heartbeats) |
| `AllAcceptedAreApart` | `MCOverlapCheck` | a declared size of 2^63 or more makes the end of a range negative, and the range then overlaps nothing that follows it (BR-BOMB-009) |
| `ArchiveWithinLimit` | `MCEntryStream` | the byte counter starts again with each entry (BR-BOMB-003) |

Seen while modelling, without a model: a message that does not parse is deleted rather than
left to the DLQ (`sqs/adapter.go:148` against FR-1.4 in
`aidlc-docs/inception/requirements/requirements.md`); `byteReader.Read`
does not advance, which only a caller with a buffer smaller than the peek would
notice; rule 5 counts separators of the raw name, not of the decoded one.

## 8. Not modelled

* **Classification client**: one HTTP call; its result and its failure change no status.
  `Extraction` has the step, as a place where deadline, drain, panic and crash can come.
* **Backoff**: waits have no length, so jitter and `BackoffFor` make no difference.
* **Configuration**: `App` has its two outcomes. What `Validate` checks are the
  assumptions on the constants: a run and a proof stand for the configurations it accepts.
  Parsing of YAML and environment is left out.
* **AWS client construction**: `App` has its two outcomes; endpoints and the SDK's own
  retries are part of "a call answers, or fails".
* **MIME detection, failure wording, JSON forms, metrics, logging, harness, chart**: data and output that no modelled decision reads.
  The chart's 270 s termination grace period exceeds the 250 s + 10 s + 5 s a drain
  may take, so `App` lets `Run` finish.
* **Temp files and memory**: the spill is an outcome; disk space is one of its failures.
