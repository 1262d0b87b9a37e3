# HyperFleet Sentinel: a TLA+ verification project

The Sentinel is a small Go service. It polls the HyperFleet API for clusters or
node pools, lets a configurable CEL decision say which of them are due for
reconciliation, and publishes a CloudEvent for each one that is. It keeps no
durable state. What makes it hard is time and concurrency: a polling loop, a
ticker, a signal goroutine and two HTTP servers share one process; fetches
retry under a budget; every step of a cycle can fail on its own; a watchdog
restarts a loop that has stopped succeeding.

Paths below are relative to `src/`.

## 1. Inventory

| Component | State | Operations | Correct when |
|---|---|---|---|
| Polling loop, `internal/sentinel/sentinel.go` | `lastSuccessfulPoll` (mutex), the cycle's page, index and `pending`, open spans | `Start`, `trigger`, `buildEventData`, `LastSuccessfulPoll` | every fetched resource gets its own outcome; counters, spans and `lastSuccessfulPoll` agree with what happened; the loop stops |
| API client, `internal/client/client.go` | the backoff of one call | `FetchResources`, `fetchResourcesOnce`, `VerifyConnectivity` | transient errors are retried within the budget, permanent ones never, a cancellation is obeyed, the call returns |
| Search string and conversion, same file | none | `buildSearchString`, `labelSelectorToSearchString`, `fetchClusters`, `fetchNodePools` | selectors reach the API unambiguously; every item of the answer becomes a resource |
| Decision engine, `internal/engine/decision.go` | compiled programs, `conditionsLookup` kept between calls | `NewDecisionEngine`, `Evaluate` | the decision is that of the documented triggers, for the resource at hand |
| Payload builder, `internal/payload/builder.go` | the compiled `message_data` | `NewBuilder`, `BuildPayload` | a bad field is left out alone; a broken definition never starts |
| Health checks, `internal/health/health.go` | `ready` (atomic) | `SetReady`, `HealthzHandler`, `ReadyzHandler` | no false alarm, a hung loop is noticed, ready only when serving |
| Process lifecycle, `cmd/sentinel/main.go` | the goroutines of `runServe`, `sigChan`, the defers | `runServe` | the publisher outlives the loop and is released; a signal ends the process |
| Configuration, `internal/config/config.go` | none after loading | `LoadConfig`, `Validate`, `ToMap`, `RedactedCopy` | precedence flags > env > file > defaults; what is loaded can be run |
| Metrics, `internal/metrics/metrics.go` | Prometheus collectors, `sync.Once` | `NewSentinelMetrics`, `Update...Metric` | the numbers can be told from one another and add up |
| Tracing, `pkg/telemetry/otel.go` | the tracer provider | `InitTraceProvider`, `StartSpan`, `Shutdown` | spans are ended, and flushed before the process ends, on every return |
| Logger, `pkg/logger/` | output settings | parsing of the settings, formatting | a bad level ends the start; the rest is text |
| Liveness and readiness probes, `charts/templates/deployment.yaml` | failures in a row | restart | see health checks |
| Mock publisher, mock API, integration helpers, `hack/` | test doubles and build tools | none that concerns the program | not part of it |

How they interact. `runServe` builds everything in one order and runs `Start`
on the main goroutine. `Start` calls `trigger`, which calls the client, the
engine, the builder, the publisher and the metrics, in that order, on the same
goroutine. The health server's goroutines read `ready`, `lastSuccessfulPoll`
and the broker's `Health` while all of this runs. The signal goroutine sets
`ready`, cancels the context that the loop and its fetch run under, and shuts
the servers down. When `Start` returns, `runServe` returns through its defers
and the process is over, whatever the other goroutines are doing.

Where it is hard (each point is a line of the hazard list in `PROJECT.json`,
with the properties that cover it):

* the cancellation races with the ticker in `select`, with a fetch that is out,
  with a backoff wait, with a `/readyz` request between its two checks, and with
  the return of main;
* five ways out of the loop body of `trigger`, each of which has to end its own
  spans and count its own metric;
* a publish that reports an error for an event the broker has taken;
* a retry budget that bounds the start of a request but not its end;
* a decision made of seven expressions, each of which may fail, over a lookup
  table that survives the call;
* a staleness threshold (15 s) that is shorter than one fetch under retries (up
  to 40 s), against a probe that needs three failures 20 s apart;
* two traversals of the same definition (validation and compilation) which must
  agree on what is acceptable;
* a page that is a snapshot, worked through while the API, the labels and the
  other sentinels move on, with no acknowledgement and nothing remembered over a
  crash;
* four layers of configuration with different ideas of "not set", in front of
  code that panics on an interval that is not positive.

## 2. Modules

| Module | Models | Composes |
|---|---|---|
| `PollLoop` | what the loop promises, without how a cycle works: the abstract specification | |
| `Sentinel` | `Start` and `trigger`, every return and `continue` | implements `PollLoop` (`RefinesPollLoop`) |
| `SentinelProofs` | theorems about `Sentinel` | extends `Sentinel` |
| `FetchRetry` | one call of `FetchResources`: attempts, waits, budget, timeout, cancellation | |
| `FetchRetryProofs` | theorems about `FetchRetry` | extends `FetchRetry` |
| `FetchOutage` | a call across an outage of the API | extends `FetchRetry` |
| `FetchOutageProofs` | theorems about `FetchOutage` | extends `FetchOutage` and `FetchRetryProofs` |
| `DecisionEngine` | `Evaluate` with the default `message_decision` | |
| `DecisionEngineProofs` | theorems about `DecisionEngine` | extends `DecisionEngine` |
| `Config` | the layers, decoding and `Validate`: operators only | |
| `Process` | the serve command and `runServe`: configuration, logging, tracer, startup, signal goroutine, servers, `/readyz`, defers | instantiates `PollLoop` for the loop, extends `Config` |
| `ProcessProofs` | theorems about `Process` | extends `Process` |
| `Watchdog` | the loop in time, `/healthz`, the liveness probe, an API outage | its fetch bounds are what `FetchRetry` and `FetchOutage` show |
| `WatchdogProofs` | theorems about `Watchdog` | extends `Watchdog` |
| `Payload` | `message_data` from validation to encoding | |
| `PayloadProofs` | theorems about `Payload` | extends `Payload` |
| `Fleet` | several sentinels with selectors, the API, the broker and the adapters | its cycle is `Sentinel`'s, its decision `DecisionEngine`'s |
| `MCFleet` | two shards for TLC | extends `Fleet` |
| `FleetProofs` | theorems about `Fleet`, and that its decision is the engine's | extends `Fleet`, instantiates `DecisionEngine` |

The loop is split in two so that `Process` does not carry a cycle's inside:
`Sentinel` is shown to implement `PollLoop` (by TLC with its liveness, by proof
for every constant without), and `Process` uses `PollLoop`.

### `PollLoop` and `Sentinel`

`pc` is the position of the loop's goroutine. `init`, `select` and `stopped`
are places of `Start`; `fetch`, `evaluate`, `decide`, `build`, `publish` and
`broker` are places of `trigger`. One action per way out of each place:

| Code | Action |
|---|---|
| the `trigger` before the `for` of `Start` | `InitialTrigger` |
| `<-ticker.C` and `<-ctx.Done()` in `select` | `TakeTick`, `Stop` |
| `FetchResources` returning | `FetchSucceeds`, `APIFails`, `FetchCancelled` |
| the body of the loop over the resources is entered, which opens a span for every one | `StartEvaluate` |
| empty ID: `continue` | `SkipEmptyId` |
| decision: due or not | `DecideToPublish`, `SkipNotDue` |
| `uuid.NewV7` or `event.SetData` failing: `continue` | `BuildFails` |
| `Publish`: sent, taken, answered | `StartPublish`, `BrokerTakes`, `PublishReturnsNil`, `PublishReturnsError` |
| the end of `trigger` | `FinishCycle` |

`outcome` has one element per iteration done, so its length is the loop's
index. `page` is what the fetch returned: items with an ID, or the empty one,
and the verdict the decision engine will give on them; `DecisionEngine` says
what that verdict is. `cycle`, `before` (the metrics at the cycle's start), `born`,
`ending` and `delivered` are history variables. The logging, the trace context of the event and the metrics' labels are
left out; the increments of the counters are kept.

`PollLoop` has six variables and five actions. Its `End` says what the two
returns of `trigger` have in common: a cycle ends, and it may be counted as
successful only if it began before the cancellation.

### `FetchRetry`

Time is an action, `Pass`. `Attempt` sends the request; `Answered`,
`NetworkError`, `RequestTimesOut` and `RequestAborted` end it; `Backoff` is
what the retry library then decides from the options the client gives it. The
jitter is a choice in the whole interval it may be drawn from. `dead` records
that the context was done when the request was sent: Go's transport refuses
such a request, so that it cannot be answered. Of the two resource types one
is modelled, as their functions have the same control. The request timeout is
positive here; that the configuration accepts zero is a hazard of its own.

### `FetchOutage`

The same call, to an API that is down once, from before the call or from some
moment in it. `Send` and `Receive` are the attempts of `FetchRetry` with what
the API's state allows them to come to: `success` if the API has been up since
the request was sent, an error worth a retry while it is down, either of the two
for a request that the outage has met. With `api = "any"` the call is
`FetchRetry` as it is (`AtLarge`): an API that may answer anything or nothing,
and a context that may be cancelled. So one run checks both. The module is the
link to `Watchdog`, which sees a fetch from outside: how soon a call ends after
a recovery (`RetryGap`), and how early it may fail (`MinSurrender`).

### `DecisionEngine`

CEL values are Booleans, times and `Err`, and the operators follow CEL:
`&&` and `||` absorb an error when the other operand decides. `EvalParam`
evaluates the next param in a table of those before it; one that comes to
`Err` ends the evaluation, as `Evaluate` does. `lookup` survives the call.
Custom expressions are not modelled: the module is about the shipped decision.

### `Config`

A text stands for all texts its reader treats alike: what does not parse, what
parses to zero, the empty one. `Merge` is viper's order as the program sets it
up: a flag counts if it was given, even empty; a variable that is empty does
not; a key of the file counts; otherwise the default stays. `Decode` is the hook for
durations and Booleans, `Validate` the checks on the result, `Loads` all of it
with the file's state. It has no state: `Process` begins with an input
and loads it.

### `Process`

`main` is the next step of the serve command, one value per step: `Load`, the
logging, the tracer, then those of `runServe`, each of which may fail. A tracer
that fails to start is logged and done without. A signal kills the process until
`signal.Notify` has run and goes to a channel of capacity one afterwards. The
handler goroutine goes through `SetReady(false)`, `cancel`, and the two
`Shutdown` calls. A `/readyz` request is accepted, loads `ready`, and only then
runs its checks, so that everything may happen in between.

### `Watchdog`

Time is in seconds. `left` is what the loop's activity may still take, `hit`
says that the API was down at some time during the fetch; a fetch that was hit
may fail once it has lasted `MinSurrender` and ends within `FetchBudget`.
`WithinBudget` of `FetchRetry` gives the latter: 30 s and one request of 10 s.
The other bounds are checked in `FetchOutage`: a failed fetch has lasted 30 s
minus 1.1 times the largest interval (8 s), hence 21 s in whole seconds, and
`RetryGap` is the longest wait and one request that is lost (8.8 s and 10 s,
hence 19 s). The probe begins 15 s after the container, the loop up to a poll
interval after it.

### `Fleet`

Each sentinel has a `page`, taken with the fetch and split at that moment into
what is due and what is not, since `Evaluate` sees the fetched resource and the
time of the fetch and nothing else. `Publish` and `Skip` take resources off it
in any order; `PublishFails` drops one, whether the broker took the event or
not; `Crash` drops all. `Search` is the path from `resource_selector` to what
the API is asked: `ToMap` fills a map in list order, the search string has one
term per entry. `Convert` makes a resource of an item with or without
conditions. The API (labels, specs, the age of a status), the topic and the
adapters are the environment, as far as the code and its guides use them; the
adapters may finish, finish half, or lose the event. The age of a status is one
of three classes, with the 10 seconds and the 30 minutes as limits. `late` is a
history variable: events a sentinel has sent for a resource since that resource
last gave it cause for one. A page is the API's whole answer here: its size is
the API's affair.

### `Payload`

A definition is a map of maps, given by what it has at each path: a leaf, or
`Map`. A key is a name and its spelling, because viper writes all keys in lower
case when it reads the file, at every depth: a field `clusterId` is published as
`clusterid`, and of `Labels` and `labels` in one map a single one is left, with
what is below it, Go's order of map iteration deciding which. `Lowered` is the
conversion; each element of `Survivors` is one way such clashes can go, and `Read`
the map it gives. (viper's delimiter `::` inside a key is out of scope.)

The code goes through the map four times after that (validation, unmarshalling,
compilation, evaluation), each time by a recursion that asks of a map whether
something is met in one of its fields: a blank leaf, a leaf that stays, a field that
does not compile, a field that comes to something. `Somewhere` is this recursion,
written once, and the four differ in the leaves they look for. An expression is
reduced to what it comes to for one resource: a value, an error, the CEL null or a map made by
CEL. `Load` is the reading and the validation, `NewBuilder` the compilation, `Build` the
evaluation and the encoding of one event. `loaded` is the definition as the
process goes on with it: unmarshalling drops leaves that are nil and maps that
hold nothing else, so that what viper has read has to be validated as well.

## 3. Runs

| Run | Question | Bounds |
|---|---|---|
| `Sentinel` | do counters, spans, deliveries and `lastSuccessfulPoll` stay consistent in every interleaving, is every resource handled, is the loop a `PollLoop` | 2 resources a page, 2 ticks (3 cycles), 1 ID and the empty one |
| `SentinelShutdown` | does a cycle that is running finish before the exit | 1 resource, 1 tick |
| `FetchRetry` (module `FetchOutage`) | are the budget, the retry rule, the cancellation and the return right with the shipped constants; does a call across an outage keep the bounds `Watchdog` works with | units of 500 ms; one status code per class and boundary; one outage of any length, at any time; an answer within 1 s |
| `FetchRetryTotal` | does a call end within 30 s | units of 250 ms |
| `DecisionEngine` | does `Evaluate` decide the four documented triggers | up to 2 conditions, 2 types, 2 times, 2 nows |
| `DecisionEngineSpecChange` | is every spec change published | with a time so old that its age is no CEL duration |
| `Process` | is what is loaded what the layers say and fit to run; do the goroutines of `runServe` start, serve and stop in a safe order | each input differs from a plain one in one key (all layers) or in the rest of the file; 2 cycles, 2 signals, 1 probe at a time |
| `ProcessShutdown` | are the servers shut down when the process is over | as above |
| `Fleet` | is every covered resource reconciled in the end, and how often is it published without cause | 2 shards, 1 resource, 2 generations, 2 changes of labels, 3 faults |
| `Watchdog` | false alarms, outages, hung loops | poll interval 5 s, an outage of up to 26 s |
| `Payload` | are fields built in place, left out alone, and blank ones refused | up to 4 fields over 2 names in 2 spellings, up to two levels deep; 2 expressions |
| `PayloadNull` | is a null field left out | up to 3 fields, else as above |

Why the bounds are enough. In `Sentinel` the loop's state is reset by
`BeginCycle` except for `metrics`, `lastPoll` and the history, which only grow;
three cycles include one that fails between two that do not, and a page of two
has a resource before and one after whatever goes wrong; the safety properties
are also proved without bounds. `FetchRetry` is run with the real constants and
proved for all. In units of 500 ms the first wait is exact and the jitter shows
in the longest wait. In `DecisionEngine` two conditions are what it takes to
have two of one type or one of another type in front; the times lie on both
sides of both thresholds. In `Process` the second signal is the one that finds
the channel full or the handler gone, the second cycle the one after a shutdown
began; keys of the configuration are merged, decoded and validated one by one,
so that one differing key reaches every case. In `Fleet` resources do not
interact except through the pass, which takes them in any order, so that one of
them and two sentinels show the races between shards (two resources with one
fault and one generation were checked once and give the same result); one
generation is created and one changed; two relabellings take a resource to the
other shard and back, or out of both; three faults let a crash meet a failed
publish and a lost event. The list of one shard has an entry without a label and
that of the other names a label twice. In `Watchdog` the outage starts at any
time and everything is finite without a bound of the model's own. `Payload`
needs two names for a failing field to have a sibling, a second spelling for
fields to clash, one level of nesting for its recursion to be entered and left,
and four fields for two maps that clash to have a field each; larger trees are left to
the proofs.

Every property is accompanied by a faulty variant of a definition (the
operators whose comment begins with "Fault") under which TLC finds it violated: a
property that could not fail is not listed.

### What the passing runs say

* `MetricsAddUp`, `CyclesAccounted`: the metrics add up. In each cycle, at every
  moment, the due resources decided on are the growth of `events_published` and
  `broker_errors`, plus the events that could not be built (which no metric counts)
  and the one under way; `resources_skipped` grows by the resources that are not due; the
  gauge shows the last complete cycle's number and stands still in one that runs or
  has failed. Each cycle is one completed poll or one API error.
* `SpansMatchPhase`: every resource opens a span, and none of the five ways out of
  the loop body, nor a return of `trigger`, leaves one open.
* `PublishesOnlyDue`, `DeadCycleDoesNothing`: the broker gets what is due and
  nothing else; a cycle that Go's `select` starts after the cancellation does
  nothing.
* `LastPollOnlyAfterFullPass`, `EveryResourceHandled`: the watchdog's input
  moves only after a full pass, and no failure hides the resources behind it.
* `RefinesPollLoop`: the whole loop, its termination included.
* `WithinBudget`, `NoEarlySurrender`, `PermanentEndsCall`,
  `DeadRequestIsCancelled`, `Returns`: the fetch.
* `RecoversInTime`, `FailsLate`: the fetch seen by `Watchdog`. After a recovery a call is over
  within 19 s and an answer, and a call that fails has been retried for 21 s at least.
* `DecidesTheTriggers`: the engine, exactly: it publishes if and only if a
  trigger holds and the age of the status can be computed.
* `PublisherOutlivesLoop`, `ReleasesPublisher`, `ReadyOnlyWhenServing`,
  `TracerShutDownLast`, `SignalEndsProcess`: the process. The tracer outlives
  loop and publisher, and no return leaves it unflushed, a failed start included.
* `PrecedenceKept`, `ConfigRunnable`: a key has the value of the first layer that
  speaks of it, in the order the documentation gives, and whatever the layers
  say, what loads has an interval `time.NewTicker` accepts, an API to ask and a known
  resource type.
* `Reconciles`: a resource that some sentinel covers and that is not settled
  becomes settled or loses its cover, whatever crashed, failed or was lost in
  between, and although a sentinel remembers nothing. New resources, which have
  no status yet, included.
* `AtMostOneLateEvent`: a resource that no longer gives a sentinel cause for an
  event gets at most one more from it: the page is stale, but only by one pass.
* `NoFalseAlarm`, `OutageTolerated`, `HungLoopIsRestarted`, `PollsResume`: the
  watchdog. 26 s is the longest single outage that leaves the pod alone under the default
  settings; with 27 s TLC finds a restart, although every fetch was retried as
  it should be. The threshold of three poll intervals is shorter than one fetch under retries.
* `RestartDeadline`: how soon the pod of a hung loop is restarted. With the
  defaults 75 s pass at most, and neither an outage nor probes that have failed
  before put it off.
* `FieldsInPlace`, `NoEmptyObject`, `NoBlankLeafBeyondLoad`: the payload. A field
  that no other one clashes with is published with its value at its path in lower
  case, whatever fails beside it; nothing is published that no field of that path came to;
  a blank field keeps the sentinel from starting unless a clashing one has replaced
  it.

### Where code and documentation part

Five runs look for a violation and find it.

* `CompletesCurrentCycle` (`docs/runbook.md:47`): a cancellation aborts the
  fetch that is running, and the cycle is counted as an API error.
* `TotalWithinMaxElapsed` (`docs/runbook.md:71`): the 30 s bound the start of
  the last request, which may take 10 s more.
* `SpecChangesCaught` (`docs/sentinel-operator-guide.md:143`): a param that
  fails ends the evaluation. With a zero `last_updated_time` the age is not a
  CEL duration, `reconciled_and_stale` or `not_reconciled_and_debounced` fails,
  and a changed generation is not published.
* `ServersShutDown` (`docs/runbook.md:48`): `runServe` returns with `Start`
  and does not wait for the signal goroutine.
* `NullIsOmitted` (`internal/payload/builder.go:214`): the CEL null is not a
  Go nil once converted and is published as 0.

Four more disagreements have no run of their own. Each shows in the model, and
properties that hold say what the code does instead.

* `internal/client/client.go:125` ("Resources with nil status are logged and
  skipped") and the comment of the test at `internal/client/client_test.go:395`
  ("Skip the resource"): `fetchClusters` and `fetchNodePools` convert a resource
  without a status to one without conditions, which is due as a new one.
  `Reconciles` depends on that; `FetchedWithStatus`, what the comments say, is
  the mutant that breaks it.
* `README.md:141` ("all labels must match"): of two selectors with one label
  the last one alone counts, and one with an empty label does not count. `Reconciles` is
  stated for the entries that count.
* `docs/sentinel-operator-guide.md:346` ("Each key-value pair in `message_data`
  becomes a field"): the field's name is in lower case, and of keys that differ in
  case alone one is lost. `FieldsInPlace` is stated accordingly.
* `docs/sentinel-operator-guide.md:294` lists environment, file and defaults as the
  layers of the configuration and leaves out the flags, which are above them; `PrecedenceKept`
  follows `docs/config.md:6` and the code.

## 4. Fairness

* `Sentinel`: weak fairness of the goroutine's steps; that a fetch returns is
  `Returns` of `FetchRetry`, that `Publish` returns is assumed of the broker
  library (`Watchdog` drops this assumption). Strong fairness of `Stop`:
  Go's `select` picks at random among the ready cases, so it does not pass
  over `ctx.Done()` for ever. No fairness of the ticker, the cancellation or
  the broker's taking an event.
* `FetchRetry`: the goroutine runs, time passes, a request whose timeout is
  over or whose context is done ends. The API owes no answer, but across an outage one that is up
  answers within `AnswerTime`.
* `Process`: main, the handler and the loop are scheduled; nothing is assumed
  of signals, servers, probes or ticks.
* `Watchdog`: time passes, the kubelet probes, the loop runs unless it hangs,
  the outage ends at its bound.
* `Fleet`: weak fairness of each sentinel's own steps (its ticker and its
  goroutine run, and Kubernetes restarts it), of time and of the adapters. Faults
  have no fairness and are bounded, which says that they stop in the end: with
  faults for ever nothing could be promised.
* `DecisionEngine` and `Payload` state no liveness and no fairness.

## 5. Proofs

Eight modules of proofs are checked by TLAPS, for every value of the constants,
from the assumptions named in the modules they extend: `NoIdAssumption` and
`BoundAssumption` (`Sentinel`); `IntervalAssumption`, `BudgetAssumption` and
`CodesAssumption` (`FetchRetry`); `AnswerAssumption` and `WatchdogAssumption`
(`FetchOutage`); `TimeAssumption` and `MarkAssumption` (`DecisionEngine`);
`BoundAssumption` (`Process`); `LowerAssumption` and `DepthAssumption` (`Payload`); `TimesAssumption` (`Watchdog`);
`SelectorAssumption`, `LabelAssumption` and `BoundAssumption` (`Fleet`). TLC
evaluates them in the runs.

`SentinelProofs` goes as follows. `TypeOK` and `SpansMatchPhase` are inductive, and
`CyclesAccounted` is inductive relative to `TypeOK`. `Position` says where
`outcome` stands against `page` at each `pc` (an iteration is only ever in
progress at an index inside the page); with it `MetricsAddUp` is
inductive. Its four equations are kept together by `AccountsNext`: what a step adds to
one side it adds to the other, where the sides are counts over a page or over
`outcome` that grow by one element (`UpToOneMore`, `CountAppend`). The history variable
`before` is what lets the counters, which only ever grow, be compared with a
single cycle. `LastPollBehind` says that `lastPoll` is a cycle already
begun and that the one in progress is not it, which gives
`LastPollOnlyAfterFullPass` and the step of the refinement that moves
`full`. `Deliveries` says that what has been delivered belongs to a cycle
begun, and in the current cycle to an index reached, that the set is finite,
and how far it is ahead of the counter: an event is new when it is taken, which
is why `eventsPublished` never exceeds the number of events taken.
`SafelyRefinesPollLoop` maps the initial states and every step to a step or a
stutter of `PollLoop`. `CycleRunsOut` does for the cycle what `CallRunsOut` does
for the call: `CycleLeft` counts the steps that the page still asks for, five for
each resource, whichever way they go.

`FetchRetryProofs`: `Spent` relates the time spent to the position in the call
(while waiting, the time left in the wait still fits the budget; while a
request is out, all but its own time does), which makes `WithinBudget`
inductive for every backoff. `Tracked` relates `last` and `result` to the position,
from which `PermanentEndsCall` and `DeadRequestIsCancelled` follow and relative to
which `NoEarlySurrender` is inductive. `CallRunsOut` is the part of `Returns`
that needs no fairness: `StepsLeft` counts the time that budget and request
timeout still leave and the place in the call, is bounded, and every step that is
not the last lowers it. What is left to TLC is that steps are taken.

`FetchOutageProofs`: each step under an outage is a step of `FetchRetry`, so
those invariants carry over. `Recovering` adds how long the API may have been
back at each place of the call: in the request that the outage has met, no
longer than that request; in the wait after it, no longer than `RetryGap` minus
what is left of the wait; in the next request, `RetryGap` and its own time.
`RecoversInTime` and `FailsLate` follow, for every backoff, given that
`RetryGap` and `MinSurrender` have room for one longest wait
(`WatchdogAssumption`). `SafelyRefinesFetchRetry` states that the outage only
takes behaviour away: its specification implies that of `FetchRetry`.

`DecisionEngineProofs`: `TableReadsResource` shows that the map filled in list
order answers `condition()` with the last condition of the type, which a
resource's list of any length has by well-founded induction (`LastOf`). One
lemma per param (`Param1` to `Param7`) then gives its value over the resource,
provided that the params before it have theirs; the two time-based ones may be
an error instead, and only when the age of the status cannot be computed. The
invariant says that during a call a prefix of the params is bound to those
values, and all of them are when the result is evaluated; `ResultDecides` turns
them into the triggers. `TypeCorrect` and `Decides` follow, for any thresholds,
times, generations and numbers of conditions.

`ProcessProofs`: `Order` says what is open, started or possible at each
step of main, `Probes` what a request to `/readyz` that is past its check
knows, `LoadedIsRunnable` what `Loads` leaves of all texts. Their
conjunction is preserved by main, loop, signals and servers, one lemma each,
and gives six theorems. The seventh, `PrecedenceKept`, is about the step that loads:
`LayersInOrder` shows that `Merge` takes the value of the strongest layer that
speaks. The eighth, `SafelyRunsPollLoop`, maps `Process` to `PollLoop`: whatever
signals, probes, servers and failed starts do, the loop that runs in the process is the
one `Sentinel` implements.

`WatchdogProofs`: `Fresh` bounds, at each place of the loop, the age of the last
poll and what the loop may still take until it is renewed. It is inductive
together with the types; `NoFalseAlarm` follows when `AnswerTime + PassTime <= 2
* PollInterval` (`FastEnough`), a condition on the settings under which the
documented threshold of three intervals is safe. The types need that the
client's budget is the longest the loop does anything (`Longest`). `OutageBorne`
compares two clocks: the longest time to the next successful poll (`ToPoll`)
stays below the shortest time to a restart (`ToKill`), from the moment the API
goes down. That is inductive when the outage is short enough (`Bearable`):

    MaxOutage + Recovery + PollInterval + AnswerTime
      <= 3 * PollInterval + (ProbeFailures - 1) * ProbePeriod

where `Recovery` is the later of a tick and the call's own recovery, plus one cycle. With
the defaults this gives the 26 s of the run, and no second more. The three conditions are
hypotheses of the theorems and hold for the constants of the run. `HungHasDeadline` is the
safety core of `HungLoopIsRestarted`: `RestartBy` is the latest time of the
restart, given the next probe, the failures counted and the age of the last
poll. `ProbeDue` (the next probe is never further away than its period or the first
delay) bounds it by `RestartTime`, and no step but a second that
passes changes it, which lowers it.

`FleetProofs`: a late event can only come from a page that is older than the
change. `NoneWhileDue` says that no late event is on record for a resource
that gives cause for one, nor for one that a page holds as due; an event takes
the resource off the page, hence at most one. Two theorems tie the model's parts
together. `CoveredIsFound`: what `Reconciles` promises, it promises of the
resources that match every entry of a sentinel's list that counts; the map filled
in list order and the search made of it select exactly these (`LastEntry`: a
label of the map has a last entry, by well-founded minimality).
`DecisionIsEngines`: the decision over classes of ages is what `Decides` shows
`Evaluate` to come to, if the age can be computed; every item stands for such a
resource and time (`EveryItemStands`), so that the theorem is about all of them.

`PayloadProofs`: `SomewhereBelow` says that the traversal finds what lies
below a path and nothing else. It is proved in two steps. The function "a leaf of
`hits` lies below" satisfies the recursive equation (`HitIsMet`), so that the
recursion has a solution, and `Somewhere`, which is a choice among the solutions, is
one. Two solutions agree: among the paths where they differ there would be a longest
one (`Longest`, by well-founded minimality), and on the paths below it they
agree, hence also on it. `OnlyKeepsTree` is then all that is needed of unmarshalling and
evaluation: what is left is a tree, with exactly the leaves looked for, and no map
in it is empty. `ReadTree` shows that viper's map is a tree whichever keys
survive, `AloneIsRead` that a field without a clash is in it: the first of the maps
around it to be missing (`Shortest`) would have lost to another key. The
invariant says that what was loaded has all the leaves of what viper read, for some choice
among clashing keys, that what was compiled is made of it, and that the payload is
made of that, from which the four theorems follow.

Model-checked only: every liveness property (`EveryResourceHandled`, the
fairness of `RefinesPollLoop`, `Returns`, `SignalEndsProcess`,
`HungLoopIsRestarted`, `PollsResume`, `Reconciles`), since TLAPS has no
ENABLED. For `Returns`, `EveryResourceHandled` and `HungLoopIsRestarted` the
ranking behind them is proved, as said above, so that what rests on TLC alone is
that the enabled step is taken.

## 6. Not modelled

* The size of a page of the API's answer: the client reads the first page, and
  how many resources that is lies outside this repository.
* Custom `message_decision` expressions: they would need CEL as a whole.
* `RedactedCopy`, the config-dump and version commands: they print and end.
  Durations written as bare integers are a conversion of viper's decoder that no
  property speaks of, and keys of `message_data` that contain its delimiter `::` are left
  out.
* Registration of the collectors and the text of metric labels: registration
  happens once, before there is a second goroutine, and two hazards of labels are
  listed without a property.
* Sampling, export and propagation of traces, formatting and output of logs.
* The API's, the broker's and the adapters' own behaviour, beyond what `Fleet`
  and `Sentinel` take them to do.
* Test doubles, the integration helpers and the tools in `hack/`.

## 7. Plan

Built, in this order: `PollLoop` and `Sentinel` with their proofs,
`FetchRetry` with its proofs, `DecisionEngine`, `Process`, `Watchdog`,
`Payload`, `Fleet` with its proofs, `Config`, the proofs of `Process`,
`Watchdog` and `DecisionEngine`, `FetchOutage` with its proofs, the proofs of `Payload`, and the
rankings, implementations and links between modules that section 5 names.

Next:

1. The ranking behind `Reconciles` and `SignalEndsProcess`, as it is for the other
   liveness properties.
2. Labels of the metrics, so that the two hazards without a property get one.
3. Custom decisions, if they can be modelled short of CEL: that a param may read
   those before it only.
