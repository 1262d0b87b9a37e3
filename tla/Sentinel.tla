------------------------------ MODULE Sentinel ------------------------------
(***************************************************************************)
(* The polling loop of internal/sentinel/sentinel.go: Start, which runs    *)
(* one cycle at once and then one per ticker tick until its context is     *)
(* cancelled, and trigger, the cycle: fetch, evaluate every resource,      *)
(* publish an event for those that are due, record the metrics.            *)
(*                                                                         *)
(* Left to other modules: what a decision is made of (DecisionEngine), how *)
(* a fetch retries (FetchRetry), who reads lastSuccessfulPoll (Watchdog).  *)
(* Here a fetched resource carries the verdict the engine gives on it.     *)
(***************************************************************************)
EXTENDS Integers, Sequences, FiniteSets

CONSTANTS
  Ids,       \* the non-empty resource IDs the API can return
  NoId,      \* the empty ID
  MaxItems,  \* bound: resources in one response
  MaxTicks   \* bound: ticks the ticker delivers in one run

ASSUME NoIdAssumption  == NoId \notin Ids
ASSUME BoundAssumption == MaxItems \in Nat /\ MaxTicks \in Nat

Item  == [id : Ids \cup {NoId}, due : BOOLEAN]
Pages == UNION {[1..n -> Item] : n \in 0..MaxItems}

(* How an iteration of the loop over the resources can end.                *)
Outcomes == {"published", "broker_error", "encode_error", "skipped", "no_id"}

VARIABLES
  pc,         \* where the loop's goroutine is
  ctxDone,    \* the context of Start has been cancelled
  tick,       \* a tick waits in ticker.C, a channel of capacity 1
  ticks,      \* ticks fired so far (only the bound MaxTicks reads it)
  page,       \* resources: what this cycle fetched
  outcome,    \* how each iteration done so far ended; its length is the index
  pending,    \* the cycle's pending counter
  lastPoll,   \* lastSuccessfulPoll: the cycle that set it, 0 for the zero time
  metrics,    \* the Prometheus metrics the cycle writes
  spans,      \* the open OpenTelemetry spans
  cycle,      \* history: cycles started
  before,     \* history: the metrics when this cycle started
  born,       \* history: was the context live when this cycle started
  ending,     \* history: how the last cycle that ended did
  delivered   \* history: <<cycle, index>> of the events the broker has taken

envVars  == <<ctxDone, tick, ticks>>
loopVars == <<page, outcome, pending>>
histVars == <<cycle, before, born, ending, delivered>>
vars     == <<pc, envVars, loopVars, lastPoll, metrics, spans, histVars>>

InCycle == pc \in {"fetch", "evaluate", "decide", "build", "publish", "broker"}
Index   == Len(outcome) + 1      \* the resource the loop is at
Here    == page[Index]

(* The Update...Metric functions of internal/metrics/metrics.go. They drop *)
(* a call with an empty label, which a valid configuration cannot make:    *)
(* the loop's metrics have one set of labels but for their reason.         *)
Inc(m) == [metrics EXCEPT ![m] = @ + 1]

Init ==
  /\ pc = "init"
  /\ ctxDone = FALSE /\ tick = FALSE /\ ticks = 0
  /\ page = <<>> /\ outcome = <<>> /\ pending = 0
  /\ lastPoll = 0
  /\ metrics = [apiErrors |-> 0, brokerErrors |-> 0, eventsPublished |-> 0,
                resourcesSkipped |-> 0, polls |-> 0, pendingGauge |-> 0]
  /\ spans = {}
  /\ cycle = 0 /\ before = metrics /\ born = "live" /\ ending = "none" /\ delivered = {}

-----------------------------------------------------------------------------
(* The world around the loop.                                              *)

(* The runtime's ticker: a tick that finds the channel full is dropped.    *)
TickerFires ==
  /\ pc # "stopped" /\ ticks < MaxTicks
  /\ tick' = TRUE /\ ticks' = ticks + 1
  /\ UNCHANGED <<pc, ctxDone, loopVars, lastPoll, metrics, spans, histVars>>

(* The signal goroutine of main cancels the context, at any moment.        *)
Cancel ==
  /\ ~ctxDone /\ ctxDone' = TRUE
  /\ UNCHANGED <<pc, tick, ticks, loopVars, lastPoll, metrics, spans, histVars>>

-----------------------------------------------------------------------------
(* trigger, up to and including the fetch.                                 *)

BeginCycle ==
  /\ pc' = "fetch" /\ spans' = {"poll"}
  /\ page' = <<>> /\ outcome' = <<>> /\ pending' = 0
  /\ cycle' = cycle + 1 /\ before' = metrics
  /\ born' = IF ctxDone THEN "dead" ELSE "live"
  /\ UNCHANGED <<ctxDone, ticks, lastPoll, metrics, ending, delivered>>

InitialTrigger == pc = "init" /\ BeginCycle /\ UNCHANGED tick

FetchAnswered ==
  /\ pc = "fetch" /\ pc' = "evaluate"
  /\ \E p \in Pages : page' = p
  /\ UNCHANGED <<envVars, outcome, pending, lastPoll, metrics, spans, histVars>>

(* An HTTP request under a context that was already done cannot succeed,   *)
(* but one that was answered as the cancellation came in still counts.     *)
FetchSucceeds == born = "live" /\ FetchAnswered

(* The early return of trigger: record the error, leave everything else.   *)
FetchReturns(why, m, poll, next) ==
  /\ pc = "fetch" /\ pc' = next
  /\ metrics' = m /\ lastPoll' = poll
  /\ spans' = spans \ {"poll"}
  /\ ending' = why
  /\ UNCHANGED <<envVars, loopVars, cycle, before, born, delivered>>

(* Faults: an uncounted error, a poll noted too early, an error that ends Start *)
FailUncounted(why) == FetchReturns(why, metrics, lastPoll, "select")
FailNotesPoll(why) == FetchReturns(why, Inc("apiErrors"), cycle, "select")
FailEndsLoop(why)  == FetchReturns(why, Inc("apiErrors"), lastPoll, "stopped")

FetchFails(why) == FetchReturns(why, Inc("apiErrors"), lastPoll, "select")

APIFails       == born = "live" /\ FetchFails("api_error")
FetchCancelled == ctxDone /\ FetchFails("cancelled")

-----------------------------------------------------------------------------
(* trigger, the loop over the resources.                                   *)

(* An iteration begins; whatever the resource is, it gets its span.        *)
StartEvaluate ==
  /\ pc = "evaluate" /\ Index <= Len(page) /\ pc' = "decide"
  /\ spans' = spans \cup {"evaluate"}
  /\ UNCHANGED <<envVars, loopVars, lastPoll, metrics, histVars>>

(* An iteration ends with outcome o and metrics m, and ends its spans.     *)
EndIteration(o, m, ended) ==
  /\ pc' = "evaluate"
  /\ outcome' = Append(outcome, o)
  /\ metrics' = m
  /\ spans' = spans \ ended
  /\ UNCHANGED <<envVars, page, pending, lastPoll, histVars>>

(* Fault: a `continue` without evalSpan.End.                               *)
SkipLeaksSpan == pc = "decide" /\ Here.id = NoId /\ EndIteration("no_id", metrics, {})

SkipEmptyId ==
  pc = "decide" /\ Here.id = NoId /\ EndIteration("no_id", metrics, {"evaluate"})

SkipNotDue ==
  /\ pc = "decide" /\ Here.id # NoId /\ ~Here.due
  /\ EndIteration("skipped", Inc("resourcesSkipped"), {"evaluate"})

(* `pending++` and on to building the event, whatever the resource is.     *)
CountPending ==
  /\ pc' = "build"
  /\ pending' = pending + 1
  /\ UNCHANGED <<envVars, page, outcome, lastPoll, metrics, spans, histVars>>

(* Fault: the empty ID is not looked at.                                   *)
DecideWithoutId == pc = "decide" /\ Here.due /\ CountPending

DecideToPublish == pc = "decide" /\ Here.id # NoId /\ Here.due /\ CountPending

(* uuid.NewV7 or event.SetData fails: an error is logged, nothing counted. *)
BuildFails == pc = "build" /\ EndIteration("encode_error", metrics, {"evaluate"})

StartPublish ==
  /\ pc = "build" /\ pc' = "publish"
  /\ spans' = spans \cup {"publish"}
  /\ UNCHANGED <<envVars, loopVars, lastPoll, metrics, histVars>>

(* The broker takes the event; the answer is still on its way.             *)
BrokerTakes ==
  /\ pc = "publish" /\ pc' = "broker"
  /\ delivered' = delivered \cup {<<cycle, Index>>}
  /\ UNCHANGED <<envVars, loopVars, lastPoll, metrics, spans, cycle, before, born, ending>>

PublishReturnsNil ==
  /\ pc = "broker"
  /\ EndIteration("published", Inc("eventsPublished"), {"publish", "evaluate"})

(* Fault: a `return` where the code has `continue`.                        *)
PublishErrorReturns ==
  /\ pc \in {"publish", "broker"} /\ pc' = "select" /\ spans' = {}
  /\ metrics' = Inc("brokerErrors")
  /\ UNCHANGED <<envVars, loopVars, lastPoll, histVars>>

(* Fault: the error is logged and not counted.                             *)
PublishErrorUncounted ==
  /\ pc \in {"publish", "broker"}
  /\ EndIteration("broker_error", metrics, {"publish", "evaluate"})

(* Publish returns an error, whether or not the broker took the event.     *)
PublishReturnsError ==
  /\ pc \in {"publish", "broker"}
  /\ EndIteration("broker_error", Inc("brokerErrors"), {"publish", "evaluate"})

EndCycle(gauge) ==
  /\ pc = "evaluate" /\ Index > Len(page) /\ pc' = "select"
  /\ metrics' = [Inc("polls") EXCEPT !.pendingGauge = gauge]
  /\ lastPoll' = cycle
  /\ spans' = spans \ {"poll"}
  /\ ending' = "complete"
  /\ UNCHANGED <<envVars, loopVars, cycle, before, born, delivered>>

(* Fault: the gauge is given a difference.                                 *)
GaugeNetOfIndex == EndCycle(pending - Len(outcome))

FinishCycle == EndCycle(pending)

-----------------------------------------------------------------------------
(* Start: select between ctx.Done and ticker.C; Go picks either when both  *)
(* are ready, so a cancelled loop may still run another cycle.             *)

TakeTick == pc = "select" /\ tick /\ tick' = FALSE /\ BeginCycle

Stop ==
  /\ pc = "select" /\ ctxDone /\ pc' = "stopped"
  /\ UNCHANGED <<envVars, loopVars, lastPoll, metrics, spans, histVars>>

Stopped == pc = "stopped" /\ UNCHANGED vars

Iterate ==
  \/ StartEvaluate \/ SkipEmptyId \/ SkipNotDue \/ DecideToPublish
  \/ BuildFails \/ StartPublish
  \/ PublishReturnsNil \/ PublishReturnsError

Progress ==
  \/ InitialTrigger \/ FetchSucceeds \/ APIFails \/ FetchCancelled
  \/ Iterate \/ FinishCycle \/ TakeTick

Next == TickerFires \/ Cancel \/ Progress \/ BrokerTakes \/ Stop \/ Stopped

(* The goroutine is scheduled, a fetch and a Publish return (a fetch has a *)
(* retry budget and a request timeout, see FetchRetry; that Publish        *)
(* returns is assumed of the broker library), and Go's select, which picks *)
(* at random, does not pass over a ready ctx.Done for ever.                *)
Fairness == WF_vars(Progress) /\ SF_vars(Stop)

Spec == Init /\ [][Next]_vars /\ Fairness

-----------------------------------------------------------------------------
(* Properties                                                              *)

Metrics == [apiErrors : Nat, brokerErrors : Nat, eventsPublished : Nat,
            resourcesSkipped : Nat, polls : Nat, pendingGauge : Nat]

TypeOK ==
  /\ pc \in {"init", "fetch", "evaluate", "decide", "build", "publish", "broker",
             "select", "stopped"}
  /\ ctxDone \in BOOLEAN /\ tick \in BOOLEAN /\ ticks \in Nat
  /\ page \in Seq(Item) /\ outcome \in Seq(Outcomes) /\ pending \in Nat
  /\ lastPoll \in Nat /\ cycle \in Nat
  /\ metrics \in Metrics /\ before \in Metrics
  /\ spans \subseteq {"poll", "evaluate", "publish"}
  /\ born \in {"live", "dead"}
  /\ ending \in {"none", "complete", "api_error", "cancelled"}
  /\ delivered \subseteq Nat \X Nat

Count(s, S) == Cardinality({k \in 1..Len(s) : s[k] \in S})
InFlight == IF pc \in {"build", "publish", "broker"} THEN 1 ELSE 0

(* The resources of a set S that the loop has decided on in this cycle.    *)
Decided(S) == Cardinality({k \in 1..(Len(outcome) + InFlight) : page[k] \in S})
DueItems   == {r \in Item : r.id # NoId /\ r.due}
QuietItems == {r \in Item : r.id # NoId /\ ~r.due}

Since(m) == metrics[m] - before[m]

(* The metrics of a cycle add up, at every moment and whichever way each   *)
(* resource goes: `pending` is the number of due resources decided on,     *)
(* resources_skipped grows by those that are not due, and each one pending *)
(* shows in events_published or in broker_errors unless its event could    *)
(* not be built or is under way. The gauge shows the last complete cycle's *)
(* pending and is left alone by one that runs or has failed.               *)
MetricsAddUp ==
  /\ pending = Decided(DueItems)
  /\ Since("resourcesSkipped") = Decided(QuietItems)
  /\ pending = Since("eventsPublished") + Since("brokerErrors")
               + Count(outcome, {"encode_error"}) + InFlight
  /\ metrics.pendingGauge = IF ~InCycle /\ ending = "complete" THEN pending
                            ELSE before.pendingGauge

(* Every cycle is counted exactly once: as a completed poll (poll_duration *)
(* histogram) or as an API error, and the one that is running as neither.  *)
CyclesAccounted ==
  cycle = metrics.polls + metrics.apiErrors + (IF InCycle THEN 1 ELSE 0)

(* Every resource's span is ended on each of the five paths out of the     *)
(* loop body, the publish span with it, and the poll span on both returns  *)
(* of trigger: no span is left open or ended early, so that none is a      *)
(* child of another resource's, and a waiting loop holds none.             *)
SpansMatchPhase ==
  spans = CASE pc \in {"fetch", "evaluate"}  -> {"poll"}
            [] pc \in {"decide", "build"}    -> {"poll", "evaluate"}
            [] pc \in {"publish", "broker"}  -> {"poll", "evaluate", "publish"}
            [] OTHER                         -> {}

(* The broker is only ever given a resource that has an ID and that the    *)
(* decision engine found due, and an event is counted as published only if *)
(* the broker really took it, each taken event at most once.               *)
PublishesOnlyDue ==
  /\ \A d \in delivered :
       d[1] = cycle => /\ d[2] \in 1..Len(page)
                       /\ page[d[2]].id # NoId
                       /\ page[d[2]].due
  /\ metrics.eventsPublished <= Cardinality(delivered)

(* Go's select may start a cycle although the context is already done, but *)
(* that cycle can do nothing: it fetches nothing and publishes nothing.    *)
DeadCycleDoesNothing ==
  born = "dead" => /\ page = <<>>
                   /\ \A d \in delivered : d[1] < cycle
                   /\ lastPoll < cycle

(* lastSuccessfulPoll, which both probes read, moves only when a cycle has *)
(* fetched and been through all of its resources, never on an early return *)
(* and never backwards.                                                    *)
LastPollOnlyAfterFullPass ==
  [][lastPoll' # lastPoll =>
       /\ pc # "fetch" /\ Len(outcome) = Len(page)
       /\ lastPoll < lastPoll' /\ lastPoll' = cycle]_vars

(* Per-resource error isolation (docs/runbook.md): whatever happens to the *)
(* resources before it, the k-th resource fetched gets its own outcome.    *)
EveryResourceHandled ==
  \A k \in 1..MaxItems :
    (InCycle /\ Len(page) >= k) ~> (Len(outcome) >= k)

Loop == INSTANCE PollLoop WITH
  phase <- CASE pc = "init"    -> "start"
             [] pc = "select"  -> "waiting"
             [] pc = "stopped" -> "stopped"
             [] OTHER          -> "working",
  begun <- cycle, full <- lastPoll, live <- born = "live"

(* The poll loop is a PollLoop: cycles begin only at start or on a tick,   *)
(* each ends, at most one runs, one that began after the cancellation is   *)
(* never counted as successful, and after a cancellation the loop returns. *)
RefinesPollLoop == Loop!Spec

(* docs/runbook.md says of a shutdown that the sentinel "Completes current *)
(* polling cycle before exiting": a cycle that began before the            *)
(* cancellation is not cut short by it.                                    *)
CompletesCurrentCycle == born = "live" => ending # "cancelled"
=============================================================================
