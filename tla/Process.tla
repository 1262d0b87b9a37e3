------------------------------ MODULE Process ------------------------------
(***************************************************************************)
(* The process around the loop: the serve command and runServe of          *)
(* cmd/sentinel/main.go. The main goroutine loads the configuration,       *)
(* initialises one component after the other, starts the HTTP servers and  *)
(* the signal goroutine, runs Start, and returns through its defers;       *)
(* requests to /readyz come in meanwhile. The configuration is Config's,   *)
(* the loop is PollLoop, the specification that Sentinel implements.       *)
(***************************************************************************)
EXTENDS Naturals, Config

CONSTANTS
  MaxCycles,   \* bound: cycles of the loop
  MaxSignals   \* bound: signals sent to the process

ASSUME BoundAssumption == MaxCycles \in Nat /\ MaxSignals \in Nat

VARIABLES
  main,       \* the next step of the main goroutine
  input,      \* flags, environment and file, until they have been loaded
  config,     \* cfg, once loaded
  tracer,     \* the tracer provider: "none", "open" or "shut"
  publisher,  \* the broker publisher: "none", "open" or "closed"
  ready,      \* ReadinessChecker.ready
  health,     \* the health server
  scrape,     \* the metrics server
  signals,    \* signals sent so far (only the bound MaxSignals reads it)
  sigChan,    \* a signal waits in sigChan, a channel of capacity 1
  handler,    \* the signal goroutine
  probe,      \* a request to /readyz: where its handler is
  admitted,   \* history: was the process ready when it accepted that request
  answer,     \* history: the last answer of /readyz
  phase, ctxDone, tick, begun, full, live   \* the loop

Loop == INSTANCE PollLoop

loopVars   == <<phase, ctxDone, tick, begun, full, live>>
serverVars == <<health, scrape>>
signalVars == <<signals, sigChan>>
probeVars  == <<probe, admitted, answer>>
initVars   == <<input, config, tracer>>
mainVars   == <<main, initVars>>
vars == <<mainVars, publisher, ready, serverVars, signalVars, handler, probeVars, loopVars>>

Startup == {"load", "logging", "tracer", "client", "connect", "engine", "publisher",
            "readiness", "sentinel", "serve", "notify"}
Alive   == main \notin {"exited", "killed"}

None == [loaded |-> FALSE]   \* no input, no configuration

(* A complete file and nothing else, and what differs from it in one key   *)
(* or in the rest of the file: the keys do not depend on each other.       *)
Plain == [k \in Keys |-> [flag |-> Silent, env |-> Silent,
                          file |-> CASE k = "resource_type" -> "clusters"
                                     [] k = "base_url" -> "http://api"
                                     [] OTHER -> Silent]]
Whole == [state |-> "good", decision |-> "valid", data |-> "valid"]

Inputs ==
  {[settings |-> Plain, file |-> f] : f \in Files} \cup
  UNION {{[settings |-> [Plain EXCEPT ![k] = s], file |-> Whole] : s \in Setting(k)} :
           k \in Keys}

Init ==
  /\ main = "load" /\ input \in Inputs /\ config = None
  /\ tracer = "none" /\ publisher = "none" /\ ready = FALSE
  /\ health = "none" /\ scrape = "none"
  /\ signals = 0 /\ sigChan = FALSE /\ handler = "none"
  /\ probe = "none" /\ admitted = FALSE /\ answer = "none"
  /\ Loop!Init

-----------------------------------------------------------------------------
(* The main goroutine.                                                     *)

Then(step, next) == main = step /\ main' = next

(* LoadConfig; an error ends the command.                                  *)
Load ==
  /\ main = "load" /\ input' = None
  /\ IF Loads(input.settings, input.file)
     THEN main' = "logging" /\ config' = Decoded(input.settings)
     ELSE main' = "returning" /\ UNCHANGED config
  /\ UNCHANGED <<tracer, publisher, ready, serverVars, handler>>

InitLogging ==
  /\ Then("logging", IF config.log_level \in LogLevels THEN "tracer" ELSE "returning")
  /\ UNCHANGED <<initVars, publisher, ready, serverVars, handler>>

(* The exporter and the resource may fail; the sampler has a default.      *)
InitTraceProvider == {"open", "none"}

(* A failure there is logged, and there is no tracer.                      *)
InitTracer ==
  /\ Then("tracer", "client")
  /\ tracer' \in IF config.tracing_enabled = "true" THEN InitTraceProvider ELSE {"none"}
  /\ UNCHANGED <<input, config, publisher, ready, serverVars, handler>>

InitClient ==
  /\ Then("client", "connect")
  /\ UNCHANGED <<initVars, publisher, ready, serverVars, handler>>

Connect ==
  /\ Then("connect", "engine")
  /\ UNCHANGED <<initVars, publisher, ready, serverVars, handler>>

InitEngine ==
  /\ Then("engine", "publisher")
  /\ UNCHANGED <<initVars, publisher, ready, serverVars, handler>>

InitPublisher ==
  /\ Then("publisher", "readiness") /\ publisher' = "open"
  /\ UNCHANGED <<initVars, ready, serverVars, handler>>

InitReadiness ==
  /\ Then("readiness", "sentinel") /\ ready' = TRUE
  /\ UNCHANGED <<initVars, publisher, serverVars, handler>>

InitSentinel ==
  /\ Then("sentinel", "serve")
  /\ UNCHANGED <<initVars, publisher, ready, serverVars, handler>>

(* Fault: the goroutine that waits for signals is not started.             *)
StartServersOnly ==
  /\ Then("serve", "loop") /\ health' = "starting" /\ scrape' = "starting"
  /\ UNCHANGED <<initVars, publisher, ready, handler>>

StartServers ==
  /\ Then("serve", "notify") /\ health' = "starting" /\ scrape' = "starting"
  /\ UNCHANGED <<initVars, publisher, ready, handler>>

StartHandler ==
  /\ Then("notify", "loop") /\ handler' = "waiting"
  /\ UNCHANGED <<initVars, publisher, ready, serverVars>>

(* Each of these steps but the readiness one can fail, and runServe        *)
(* returns the error.                                                      *)
StartupFails ==
  /\ main \in {"client", "connect", "engine", "publisher", "sentinel"}
  /\ main' = "closing"
  /\ UNCHANGED <<initVars, publisher, ready, serverVars, handler>>

(* Start has returned: the deferred cancel comes before the other defers.  *)
LoopReturned ==
  /\ main = "loop" /\ phase = "stopped" /\ main' = "closing"
  /\ UNCHANGED <<initVars, publisher, ready, serverVars, handler>>

(* Fault: runServe returns without the deferred Close.                     *)
ReturnUnclosed ==
  /\ Then("closing", "flushing")
  /\ UNCHANGED <<initVars, publisher, ready, serverVars, handler>>

(* The deferred pub.Close, if there is a publisher to close.               *)
ClosePublisher ==
  /\ Then("closing", "flushing")
  /\ publisher' = IF publisher = "open" THEN "closed" ELSE publisher
  /\ UNCHANGED <<initVars, ready, serverVars, handler>>

(* telemetry.Shutdown: spans not exported yet are, within 5 s.             *)
Shutdown(tp) == IF tp = "open" THEN "shut" ELSE tp

(* The shutdown of the tracer provider was deferred first and comes last;  *)
(* then the process exits, whatever its other goroutines are doing.        *)
ShutdownTracer ==
  /\ main \in {"returning", "flushing"} /\ main' = "exited"
  /\ tracer' = Shutdown(tracer)
  /\ UNCHANGED <<input, config, publisher, ready, serverVars, handler>>

Main ==
  /\ \/ Load \/ InitLogging \/ InitTracer \/ InitClient \/ Connect \/ InitEngine
     \/ InitPublisher \/ InitReadiness \/ InitSentinel \/ StartServers \/ StartHandler
     \/ StartupFails \/ LoopReturned \/ ClosePublisher \/ ShutdownTracer
  /\ UNCHANGED <<signalVars, probeVars, loopVars>>

-----------------------------------------------------------------------------
(* The loop, once main has called Start.                                   *)

(* A Publish or a fetch that is out holds the loop in phase "working".     *)
RunLoop ==
  /\ main = "loop"
  /\ (begun < MaxCycles /\ Loop!Begin) \/ Loop!End \/ Loop!Stop
  /\ UNCHANGED <<mainVars, publisher, ready, serverVars, signalVars, handler, probeVars>>

Ticker ==
  /\ main = "loop" /\ Loop!Tick
  /\ UNCHANGED <<mainVars, publisher, ready, serverVars, signalVars, handler, probeVars>>

-----------------------------------------------------------------------------
(* Signals.                                                                *)

(* Until signal.Notify has run a signal kills the process; from then on it *)
(* goes to sigChan, which drops it when full.                              *)
Signal ==
  /\ Alive /\ signals < MaxSignals /\ signals' = signals + 1
  /\ IF handler = "none" THEN main' = "killed" /\ UNCHANGED sigChan
     ELSE sigChan' = TRUE /\ UNCHANGED main
  /\ UNCHANGED <<initVars, publisher, ready, serverVars, handler, probeVars, loopVars>>

HandlerStep(step, next) == Alive /\ handler = step /\ handler' = next

ReceiveSignal ==
  /\ HandlerStep("waiting", "received")
  /\ sigChan /\ sigChan' = FALSE
  /\ UNCHANGED <<mainVars, publisher, ready, serverVars, signals, probeVars, loopVars>>

SetNotReady ==
  /\ HandlerStep("received", "not_ready") /\ ready' = FALSE
  /\ UNCHANGED <<mainVars, publisher, serverVars, signalVars, probeVars, loopVars>>

(* Fault: the readiness is withdrawn, the loop not told.                   *)
ForgetCancel ==
  /\ HandlerStep("not_ready", "cancelled")
  /\ UNCHANGED <<mainVars, publisher, ready, serverVars, signalVars, probeVars, loopVars>>

(* Fault: the tracer provider is shut down while the loop may run.        *)
CancelAndShutTracer ==
  /\ HandlerStep("not_ready", "cancelled") /\ Loop!Cancel
  /\ tracer' = Shutdown(tracer)
  /\ UNCHANGED <<main, input, config, publisher, ready, serverVars, signalVars, probeVars>>

(* Fault: the signal goroutine cleans up what the loop still uses.         *)
CancelAndClose ==
  /\ HandlerStep("not_ready", "cancelled") /\ Loop!Cancel /\ publisher' = "closed"
  /\ UNCHANGED <<mainVars, ready, serverVars, signalVars, probeVars>>

CancelContext ==
  /\ HandlerStep("not_ready", "cancelled") /\ Loop!Cancel
  /\ UNCHANGED <<mainVars, publisher, ready, serverVars, signalVars, probeVars>>

(* Shutdown closes the listener and waits for the requests being served.   *)
CloseHealth ==
  /\ HandlerStep("cancelled", "draining") /\ health' = "closed"
  /\ UNCHANGED <<mainVars, publisher, ready, scrape, signalVars, probeVars, loopVars>>

(* It ends when no request is left or its 20 seconds are over; what is     *)
(* left of them is for the metrics server.                                 *)
CloseMetrics ==
  /\ HandlerStep("draining", "done") /\ scrape' = "closed"
  /\ UNCHANGED <<mainVars, publisher, ready, health, signalVars, probeVars, loopVars>>

Handler ==
  ReceiveSignal \/ SetNotReady \/ CancelContext \/ CloseHealth \/ CloseMetrics

-----------------------------------------------------------------------------
(* The servers and a /readyz request.                                      *)

(* ListenAndServe binds the address or fails, which is logged and no more. *)
HealthListens ==
  /\ Alive /\ health = "starting" /\ health' \in {"serving", "failed"}
  /\ UNCHANGED <<mainVars, publisher, ready, scrape, signalVars, handler, probeVars, loopVars>>

MetricsListens ==
  /\ Alive /\ scrape = "starting" /\ scrape' \in {"serving", "failed"}
  /\ UNCHANGED <<mainVars, publisher, ready, health, signalVars, handler, probeVars, loopVars>>

ProbeStep(step, next) ==
  /\ Alive /\ probe = step /\ probe' = next
  /\ UNCHANGED <<mainVars, publisher, ready, serverVars, signalVars, handler, loopVars>>

AcceptProbe ==
  /\ health = "serving" /\ ProbeStep("none", "accepted")
  /\ admitted' = ready /\ answer' = "none"

(* Fault: the readiness flag is not looked at.                             *)
LoadReadyUnguarded == ProbeStep("accepted", "checking") /\ UNCHANGED <<admitted, answer>>

(* ReadyzHandler: IsReady first, then the checks, which are evaluated only *)
(* if it was set.                                                          *)
LoadReady ==
  /\ IF ready THEN ProbeStep("accepted", "checking") /\ UNCHANGED answer
     ELSE ProbeStep("accepted", "none") /\ answer' = "503"
  /\ UNCHANGED admitted

(* runChecks: the broker's Health says anything, the poll check says       *)
(* whether a cycle has been completed.                                     *)
RunChecks ==
  /\ ProbeStep("checking", "none") /\ UNCHANGED admitted
  /\ \E brokerOK \in BOOLEAN :
       answer' = IF brokerOK /\ full # 0 THEN "200" ELSE "503"

Servers == HealthListens \/ MetricsListens \/ AcceptProbe \/ LoadReady \/ RunChecks

-----------------------------------------------------------------------------
Ended == ~Alive /\ UNCHANGED vars

Next == Main \/ RunLoop \/ Ticker \/ Signal \/ Handler \/ Servers \/ Ended

(* The goroutines are scheduled, fetches and publishes return, and select  *)
(* does not pass over a ready ctx.Done for ever.                           *)
Fairness ==
  /\ WF_vars(Main) /\ WF_vars(Handler)
  /\ WF_vars(RunLoop) /\ SF_vars(RunLoop /\ Loop!Stop)

Spec == Init /\ [][Next]_vars /\ Fairness

-----------------------------------------------------------------------------
(* Properties                                                              *)

ServerStates == {"none", "starting", "serving", "failed", "closed"}

TypeOK ==
  /\ main \in Startup \cup {"loop", "closing", "flushing", "returning", "exited", "killed"}
  /\ input \in Inputs \cup {None}
  /\ config = None \/ \A k \in Keys : config[k] \in Written[k] \cup {Default[k]}
  /\ tracer \in {"none", "open", "shut"}
  /\ main = "loop" => handler # "none"
  /\ publisher \in {"none", "open", "closed"} /\ ready \in BOOLEAN
  /\ health \in ServerStates /\ scrape \in ServerStates
  /\ signals \in Nat /\ sigChan \in BOOLEAN
  /\ handler \in {"none", "waiting", "received", "not_ready", "cancelled",
                  "draining", "done"}
  /\ probe \in {"none", "accepted", "checking"} /\ admitted \in BOOLEAN
  /\ answer \in {"none", "200", "503"}
  /\ phase \in {"start", "working", "waiting", "stopped"}
  /\ ctxDone \in BOOLEAN /\ tick \in BOOLEAN /\ live \in BOOLEAN
  /\ begun \in Nat /\ full \in Nat

(* The publisher is closed only once the loop is through: a cycle that is  *)
(* cut short by the shutdown never publishes to a closed publisher.        *)
PublisherOutlivesLoop == Alive /\ phase = "working" => publisher = "open"

(* Whichever way runServe returns (docs/runbook.md: "Cleans up broker      *)
(* connections gracefully"), no publisher stays open behind it.            *)
ReleasesPublisher == main = "exited" => publisher # "open"

(* The tracer provider outlives everything that ends spans in it, the loop *)
(* and the publisher, and is flushed on every return that leaves one       *)
(* behind: a failed startup and a signal do not cost the last spans.       *)
TracerShutDownLast ==
  /\ tracer = "shut" => publisher # "open" /\ (Alive => phase # "working")
  /\ main = "exited" => tracer # "open"

(* What has been loaded can be run: time.NewTicker panics on an interval   *)
(* that is not positive, FetchResources refuses other resource types in    *)
(* every cycle, for ever.                                                  *)
ConfigRunnable ==
  main \in (Startup \ {"load"}) \cup {"loop"} =>
    /\ config.poll_interval = "5s" /\ config.base_url # ""
    /\ config.resource_type \in {"clusters", "nodepools"}

(* A layer has something to say of a key.                                  *)
Speaks(layer, text) == text # Silent /\ (layer = "env" => text # "")

(* "Precedence: CLI flags > Environment variables > YAML file > Defaults"  *)
(* (config.go): each key has the value of the strongest layer that speaks  *)
(* of it. An empty variable does not speak, an empty flag does.            *)
PrecedenceKept ==
  [][main = "load" /\ main' = "logging" => \A k \in Keys :
       LET s == input.settings[k]
           speaking == {l \in DOMAIN s : Speaks(l, s[l])}
           stronger == [flag |-> {}, env |-> {"flag"}, file |-> {"flag", "env"}]
       IN /\ speaking = {} => config'[k] = Default[k]
          /\ \A l \in speaking : stronger[l] \cap speaking = {} =>
               config'[k] = Decode(k, s[l])]_vars

(* /readyz answers 200 only to a request that came in while the process    *)
(* was ready, and only when a polling cycle has been completed, in a       *)
(* process that shuts down, loses its broker or has just started too.      *)
ReadyOnlyWhenServing == answer = "200" => admitted /\ full # 0

(* A process that has taken over its signals ends when it gets one.        *)
SignalEndsProcess == sigChan ~> ~Alive

(* docs/runbook.md gives a shutdown up to "20 seconds for HTTP server      *)
(* shutdown": when a signal has stopped the process, its servers have been *)
(* shut down.                                                              *)
ServersShutDown ==
  main = "exited" /\ handler # "none" => health # "serving" /\ scrape # "serving"
=============================================================================
