--------------------------- MODULE ProcessProofs ---------------------------
(***************************************************************************)
(* Theorems about Process, for any number of cycles and signals. The       *)
(* invariants hold because main goes through its steps in one order: what  *)
(* is open, started or possible at each of them is the strengthening.      *)
(***************************************************************************)
EXTENDS Process, TLAPS

Before  == {"load", "logging", "tracer"}
Opening == {"client", "connect", "engine", "publisher"}
Opened  == {"readiness", "sentinel", "serve", "notify", "loop"}
Running == (Startup \ {"load"}) \cup {"loop"}

Values ==
  /\ main \in Startup \cup {"loop", "closing", "flushing", "returning", "exited", "killed"}
  /\ tracer \in {"none", "open", "shut"} /\ publisher \in {"none", "open", "closed"}
  /\ health \in ServerStates /\ scrape \in ServerStates
  /\ handler \in {"none", "waiting", "received", "not_ready", "cancelled",
                  "draining", "done"}
  /\ probe \in {"none", "accepted", "checking"} /\ answer \in {"none", "200", "503"}
  /\ phase \in {"start", "working", "waiting", "stopped"}
  /\ signals \in Nat /\ begun \in Nat /\ full \in Nat

Flags ==
  /\ ready \in BOOLEAN /\ sigChan \in BOOLEAN /\ admitted \in BOOLEAN
  /\ ctxDone \in BOOLEAN /\ tick \in BOOLEAN /\ live \in BOOLEAN

Types == Values /\ Flags

ConfigTypes ==
  /\ input \in Inputs \cup {None}
  /\ config = None \/ \A k \in Keys : config[k] \in Written[k] \cup {Default[k]}

(* What is open where main is.                                             *)
Order ==
  /\ main = "load" => input \in Inputs
  /\ main \in Before \cup {"returning"} => tracer = "none"
  /\ tracer = "shut" => main = "exited"
  /\ main \in Before \cup Opening \cup {"returning"} => publisher = "none"
  /\ main \in Opened => publisher = "open"
  /\ main \in {"flushing", "exited"} => publisher # "open"
  /\ main = "exited" => tracer # "open"
  /\ main \in Startup \cup {"returning"} => phase = "start" /\ handler = "none"
  /\ main = "loop" => handler # "none"
  /\ main \in {"closing", "flushing"} => phase \in {"start", "stopped"}
  /\ phase = "working" => begun # 0

(* A request that finds the process ready came in when it was: it is ready *)
(* once, from before the servers are started.                              *)
Probes ==
  /\ main \in Before \cup Opening \cup {"readiness", "sentinel", "serve"} => health = "none"
  /\ probe # "none" => health # "none"
  /\ probe = "accepted" /\ ready => admitted
  /\ probe = "checking" => admitted
  /\ answer = "200" => admitted /\ full # 0

IInv == Types /\ ConfigTypes /\ ConfigRunnable /\ Order /\ Probes

-----------------------------------------------------------------------------
(* The configuration.                                                      *)

LEMMA InputTyped ==
  ASSUME NEW i \in Inputs, NEW k \in Keys
  PROVE  i.settings[k] \in Setting(k)
<1>1. DOMAIN Plain = Keys /\ Plain = [x \in DOMAIN Plain |-> Plain[x]] /\ Plain[k] \in Setting(k)
  <2> DEFINE file == CASE k = "resource_type" -> "clusters"
                       [] k = "base_url" -> "http://api"
                       [] OTHER -> Silent
  <2>1. Plain[k] = [flag |-> Silent, env |-> Silent, file |-> file]
    BY DEF Plain
  <2>2. "clusters" \in Written["resource_type"] /\ "http://api" \in Written["base_url"]
    BY DEF Written
  <2>3. file \in Written[k] \cup {Silent}
    BY <2>2
  <2>4. Plain[k] \in Setting(k)
    BY <2>1, <2>3 DEF Setting
  <2>5. QED
    BY <2>4 DEF Plain
<1>2. CASE i.settings = Plain
  BY <1>1, <1>2
<1>3. CASE \E x \in Keys : \E s \in Setting(x) : i.settings = [Plain EXCEPT ![x] = s]
  <2>0. PICK x \in Keys : \E s \in Setting(x) : i.settings = [Plain EXCEPT ![x] = s]
    BY <1>3
  <2>1. PICK s \in Setting(x) : i.settings = [Plain EXCEPT ![x] = s]
    BY <2>0
  <2>2. CASE x = k
    BY <2>1, <2>2, <1>1
  <2>3. CASE x # k
    BY <2>1, <2>3, <1>1
  <2>4. QED
    BY <2>2, <2>3
<1>4. i.settings = Plain \/ \E x \in Keys : \E s \in Setting(x) : i.settings = [Plain EXCEPT ![x] = s]
  BY DEF Inputs
<1>5. QED
  BY <1>2, <1>3, <1>4

LEMMA DecodedTyped ==
  ASSUME NEW i \in Inputs, NEW k \in Keys, Decoded(i.settings)[k] # Err
  PROVE  Decoded(i.settings)[k] \in Written[k] \cup {Default[k]}
<1> DEFINE s == i.settings[k]
<1>1. s \in Setting(k)
  BY InputTyped
<1>2. Merge(k, s) \in Written[k] \cup {Default[k]}
  <2>1. /\ s.flag \in FlagTexts(k) \cup {Silent} /\ s.env \in Written[k] \cup {Silent}
        /\ s.file \in Written[k] \cup {Silent}
    BY <1>1 DEF Setting
  <2>2. FlagTexts(k) \subseteq Written[k]
    <3>1. {"true", "false"} \subseteq Written["tracing_enabled"]
      BY DEF Written
    <3>2. QED
      BY <3>1 DEF FlagTexts
  <2>3. QED
    BY <2>1, <2>2 DEF Merge
<1>3. Decoded(i.settings)[k] = Decode(k, Merge(k, s))
  BY DEF Decoded
<1>4. Decode(k, Merge(k, s)) \in {Merge(k, s), Err} \/
      (k = "tracing_enabled" /\ Decode(k, Merge(k, s)) = "false")
  BY DEF Decode, Keys
<1>5. "false" \in Written["tracing_enabled"]
  BY DEF Written
<1>6. QED
  BY <1>2, <1>3, <1>4, <1>5

LEMMA LoadedIsRunnable ==
  ASSUME NEW i \in Inputs, Loads(i.settings, i.file)
  PROVE  LET c == Decoded(i.settings)
         IN /\ \A k \in Keys : c[k] \in Written[k] \cup {Default[k]}
            /\ c.poll_interval = "5s" /\ c.base_url # ""
            /\ c.resource_type \in {"clusters", "nodepools"}
<1> DEFINE c == Decoded(i.settings)
<1>1. \A k \in Keys : c[k] \in Written[k] \cup {Default[k]}
  BY DecodedTyped DEF Loads
<1>2. c.poll_interval \in {"", "-5s", "0s", "5s", "soon"}
  <2>1. c["poll_interval"] \in Written["poll_interval"] \cup {Default["poll_interval"]}
    BY <1>1 DEF Keys
  <2>2. QED
    BY <2>1 DEF Written, Default
<1>3. c.poll_interval \notin {"", "soon"}
  <2>1. c["poll_interval"] = Decode("poll_interval", Merge("poll_interval", i.settings["poll_interval"]))
    BY DEF Decoded, Keys
  <2>2. c["poll_interval"] # Err
    BY DEF Loads, Keys
  <2>3. QED
    BY <2>1, <2>2 DEF Decode
<1>4. QED
  BY <1>1, <1>2, <1>3 DEF Loads, Validate

(* The precedence of the layers, whatever they say.                        *)
Precedence(k, s, value) ==
  LET speaking == {l \in DOMAIN s : Speaks(l, s[l])}
      stronger == [flag |-> {}, env |-> {"flag"}, file |-> {"flag", "env"}]
  IN /\ speaking = {} => value = Default[k]
     /\ \A l \in speaking : stronger[l] \cap speaking = {} => value = Decode(k, s[l])

LEMMA LayersInOrder ==
  ASSUME NEW k \in Keys, NEW s \in Setting(k)
  PROVE  Precedence(k, s, Decode(k, Merge(k, s)))
<1> DEFINE speaking == {l \in DOMAIN s : Speaks(l, s[l])}
           stronger == [flag |-> {}, env |-> {"flag"}, file |-> {"flag", "env"}]
           value == Decode(k, Merge(k, s))
<1>1. DOMAIN s = {"flag", "env", "file"}
  BY DEF Setting
<1>2. ASSUME speaking = {} PROVE value = Default[k]
  <2>1. ~Speaks("flag", s["flag"]) /\ ~Speaks("env", s["env"]) /\ ~Speaks("file", s["file"])
    BY <1>1, <1>2
  <2>2. Merge(k, s) = Default[k]
    BY <2>1 DEF Speaks, Merge
  <2>3. Decode(k, Default[k]) = Default[k]
    <3>1. CASE k = "timeout"
      BY <3>1 DEF Decode, Default
    <3>2. CASE k = "poll_interval"
      BY <3>2 DEF Decode, Default
    <3>3. CASE k = "tracing_enabled"
      BY <3>3 DEF Decode, Default
    <3>4. CASE k \notin {"timeout", "poll_interval", "tracing_enabled"}
      BY <3>4 DEF Decode
    <3>5. QED
      BY <3>1, <3>2, <3>3, <3>4
  <2>4. QED
    BY <2>2, <2>3
<1>3. ASSUME NEW l \in speaking, stronger[l] \cap speaking = {} PROVE value = Decode(k, s[l])
  <2>1. l \in {"flag", "env", "file"} /\ Speaks(l, s[l])
    BY <1>1
  <2>2. CASE l = "flag"
    BY <2>1, <2>2 DEF Speaks, Merge
  <2>3. CASE l = "env"
    <3>1. ~Speaks("flag", s["flag"])
      BY <1>1, <1>3, <2>3
    <3>2. QED
      BY <2>1, <2>3, <3>1 DEF Speaks, Merge
  <2>4. CASE l = "file"
    <3>1. ~Speaks("flag", s["flag"]) /\ ~Speaks("env", s["env"])
      BY <1>1, <1>3, <2>4
    <3>2. QED
      BY <2>1, <2>4, <3>1 DEF Speaks, Merge
  <2>5. QED
    BY <2>1, <2>2, <2>3, <2>4
<1>4. QED
  BY <1>2, <1>3 DEF Precedence

-----------------------------------------------------------------------------
(* The invariant.                                                          *)

(* The state that the configuration does not touch.                        *)
Rest == Types /\ Order /\ Probes

LEMMA Initial == Init => IInv
<1> SUFFICES ASSUME Init PROVE IInv
  OBVIOUS
<1> USE DEF Init, Loop!Init
<1>1. Types
  BY DEF Types, Values, Flags, Startup, ServerStates
<1>2. ConfigTypes /\ ConfigRunnable
  BY DEF ConfigTypes, ConfigRunnable, Startup
<1>3. Order
  BY DEF Order, Before, Opening, Opened, Startup
<1>4. Probes
  BY DEF Probes, Before, Opening
<1>5. QED
  BY <1>1, <1>2, <1>3, <1>4 DEF IInv

(* Only Load makes a configuration, and only of one that loads.            *)
LEMMA ConfigStep ==
  ASSUME IInv, [Next]_vars
  PROVE  (ConfigTypes /\ ConfigRunnable)'
<1> DEFINE Same == UNCHANGED <<input, config>> /\ (main' \in Running => main \in Running)
<1>1. CASE Load
  <2>1. input \in Inputs /\ input' = None
    BY <1>1 DEF Load, IInv, Order
  <2>2. CASE Loads(input.settings, input.file)
    <3>1. main' = "logging" /\ config' = Decoded(input.settings)
      BY <1>1, <2>2 DEF Load
    <3>2. QED
      BY <2>1, <2>2, <3>1, LoadedIsRunnable DEF ConfigTypes, ConfigRunnable
  <2>3. CASE ~Loads(input.settings, input.file)
    <3>1. main' = "returning" /\ config' = config
      BY <1>1, <2>3 DEF Load
    <3>2. QED
      BY <2>1, <3>1 DEF IInv, ConfigTypes, ConfigRunnable, Startup
  <2>4. QED
    BY <2>2, <2>3
<1>2. CASE Main /\ ~Load
  <2>1. Same
    BY <1>2 DEF Main, InitLogging, InitTracer, InitClient, Connect, InitEngine, InitPublisher,
      InitReadiness, InitSentinel, StartServers, StartHandler, StartupFails, LoopReturned,
      ClosePublisher, ShutdownTracer, Then, initVars, Running, Startup
  <2>2. QED
    BY <2>1 DEF IInv, ConfigTypes, ConfigRunnable, Running
<1>3. CASE RunLoop \/ Ticker \/ Handler \/ Servers \/ Ended \/ UNCHANGED vars
  <2>1. Same
    BY <1>3 DEF RunLoop, Ticker, Handler, Servers, Ended, ReceiveSignal, SetNotReady,
      CancelContext, CloseHealth, CloseMetrics, HealthListens, MetricsListens, AcceptProbe,
      LoadReady, RunChecks, ProbeStep, mainVars, initVars, vars
  <2>2. QED
    BY <2>1 DEF IInv, ConfigTypes, ConfigRunnable, Running
<1>4. CASE Signal
  <2>1. Same
    BY <1>4 DEF Signal, initVars, Running, Startup
  <2>2. QED
    BY <2>1 DEF IInv, ConfigTypes, ConfigRunnable, Running
<1>5. QED
  BY <1>1, <1>2, <1>3, <1>4 DEF Next, Main

(* The steps of main.                                                      *)
LEMMA MainKeepsRest == IInv /\ Main => Rest'
<1> SUFFICES ASSUME IInv, Main PROVE Rest'
  OBVIOUS
<1> USE DEF IInv, Rest, Types, Values, Flags, Order, Probes, Before, Opening, Opened, Startup, ServerStates,
        Then, initVars, serverVars, signalVars, probeVars, loopVars
<1>1. UNCHANGED <<signalVars, probeVars, loopVars>>
  BY DEF Main
<1>2. CASE Load
  BY <1>1, <1>2 DEF Load
<1>3. CASE InitLogging
  BY <1>1, <1>3 DEF InitLogging
<1>4. CASE InitTracer
  BY <1>1, <1>4 DEF InitTracer, InitTraceProvider
<1>5. CASE InitClient
  BY <1>1, <1>5 DEF InitClient
<1>6. CASE Connect
  BY <1>1, <1>6 DEF Connect
<1>7. CASE InitEngine
  BY <1>1, <1>7 DEF InitEngine
<1>8. CASE InitPublisher
  BY <1>1, <1>8 DEF InitPublisher
<1>9. CASE InitReadiness
  BY <1>1, <1>9 DEF InitReadiness
<1>10. CASE InitSentinel
  BY <1>1, <1>10 DEF InitSentinel
<1>11. CASE StartServers
  BY <1>1, <1>11 DEF StartServers
<1>12. CASE StartHandler
  BY <1>1, <1>12 DEF StartHandler
<1>13. CASE StartupFails
  BY <1>1, <1>13 DEF StartupFails
<1>14. CASE LoopReturned
  BY <1>1, <1>14 DEF LoopReturned
<1>15. CASE ClosePublisher
  BY <1>1, <1>15 DEF ClosePublisher
<1>16. CASE ShutdownTracer
  BY <1>1, <1>16 DEF ShutdownTracer, Shutdown
<1>17. QED
  BY <1>2, <1>3, <1>4, <1>5, <1>6, <1>7, <1>8, <1>9, <1>10, <1>11, <1>12, <1>13, <1>14,
     <1>15, <1>16 DEF Main

(* The steps of the loop.                                                  *)
LEMMA LoopKeepsRest == IInv /\ (RunLoop \/ Ticker) => Rest'
<1> SUFFICES ASSUME IInv, RunLoop \/ Ticker PROVE Rest'
  OBVIOUS
<1> USE DEF IInv, Rest, Types, Values, Flags, Order, Probes, Before, Opening, Opened, Startup, ServerStates,
        mainVars, initVars, serverVars, signalVars, probeVars
<1>1. main = "loop" /\ UNCHANGED <<mainVars, publisher, ready, serverVars, signalVars,
                                    handler, probeVars>>
  BY DEF RunLoop, Ticker
<1>2. CASE Loop!Begin
  <2>1. Values'
    BY <1>1, <1>2 DEF Loop!Begin
  <2>2. Flags'
    BY <1>1, <1>2 DEF Loop!Begin
  <2>3. Order'
    BY <1>1, <1>2 DEF Loop!Begin
  <2>4. Probes'
    BY <1>1, <1>2 DEF Loop!Begin
  <2>5. QED
    BY <2>1, <2>2, <2>3, <2>4
<1>3. CASE Loop!End
  BY <1>1, <1>3 DEF Loop!End
<1>4. CASE Loop!Stop
  BY <1>1, <1>4 DEF Loop!Stop
<1>5. CASE Loop!Tick
  BY <1>1, <1>5 DEF Loop!Tick
<1>6. QED
  BY <1>2, <1>3, <1>4, <1>5 DEF RunLoop, Ticker

(* Signals and their goroutine.                                            *)
LEMMA SignalKeepsRest == IInv /\ (Signal \/ Handler) => Rest'
<1> SUFFICES ASSUME IInv, Signal \/ Handler PROVE Rest'
  OBVIOUS
<1> USE DEF IInv, Rest, Types, Values, Flags, Order, Probes, Before, Opening, Opened, Startup, ServerStates,
        Alive, HandlerStep, mainVars, initVars, serverVars, signalVars, probeVars, loopVars
<1>1. CASE Signal
  <2>1. Values'
    BY <1>1 DEF Signal
  <2>2. Flags'
    BY <1>1 DEF Signal
  <2>3. Order'
    BY <1>1 DEF Signal
  <2>4. Probes'
    BY <1>1 DEF Signal
  <2>5. QED
    BY <2>1, <2>2, <2>3, <2>4
<1>2. CASE ReceiveSignal
  <2>1. Values'
    BY <1>2 DEF ReceiveSignal
  <2>2. Flags'
    BY <1>2 DEF ReceiveSignal
  <2>3. Order'
    BY <1>2 DEF ReceiveSignal
  <2>4. Probes'
    BY <1>2 DEF ReceiveSignal
  <2>5. QED
    BY <2>1, <2>2, <2>3, <2>4
<1>3. CASE SetNotReady
  <2>1. Values'
    BY <1>3 DEF SetNotReady
  <2>2. Flags'
    BY <1>3 DEF SetNotReady
  <2>3. Order'
    BY <1>3 DEF SetNotReady
  <2>4. Probes'
    BY <1>3 DEF SetNotReady
  <2>5. QED
    BY <2>1, <2>2, <2>3, <2>4
<1>4. CASE CancelContext
  BY <1>4 DEF CancelContext, Loop!Cancel
<1>5. CASE CloseHealth
  BY <1>5 DEF CloseHealth
<1>6. CASE CloseMetrics
  BY <1>6 DEF CloseMetrics
<1>7. QED
  BY <1>1, <1>2, <1>3, <1>4, <1>5, <1>6 DEF Handler

(* The servers and the request.                                            *)
LEMMA ServersKeepRest == IInv /\ Servers => Rest'
<1> SUFFICES ASSUME IInv, Servers PROVE Rest'
  OBVIOUS
<1> USE DEF IInv, Rest, Types, Values, Flags, Order, Probes, Before, Opening, Opened, Startup, ServerStates,
        ProbeStep, mainVars, initVars, serverVars, signalVars, probeVars, loopVars
<1>1. CASE HealthListens
  BY <1>1 DEF HealthListens
<1>2. CASE MetricsListens
  BY <1>2 DEF MetricsListens
<1>3. CASE AcceptProbe
  BY <1>3 DEF AcceptProbe
<1>4. CASE LoadReady
  BY <1>4 DEF LoadReady
<1>5. CASE RunChecks
  BY <1>5 DEF RunChecks
<1>6. QED
  BY <1>1, <1>2, <1>3, <1>4, <1>5 DEF Servers

LEMMA Inductive == IInv /\ [Next]_vars => IInv'
<1> SUFFICES ASSUME IInv, [Next]_vars PROVE IInv'
  OBVIOUS
<1>1. (ConfigTypes /\ ConfigRunnable)'
  BY ConfigStep
<1>2. CASE Ended \/ UNCHANGED vars
  <2>1. UNCHANGED vars
    BY <1>2 DEF Ended
  <2> USE <2>1 DEF vars, mainVars, initVars, serverVars, signalVars, probeVars, loopVars
  <2>2. Values'
    BY DEF IInv, Types, Values
  <2>3. Flags'
    BY DEF IInv, Types, Flags
  <2>4. Order'
    BY DEF IInv, Order
  <2>5. Probes'
    BY DEF IInv, Probes
  <2>6. QED
    BY <1>1, <2>2, <2>3, <2>4, <2>5 DEF IInv, Types
<1>3. CASE Main \/ RunLoop \/ Ticker \/ Signal \/ Handler \/ Servers
  <2>1. Rest'
    BY <1>3, MainKeepsRest, LoopKeepsRest, SignalKeepsRest, ServersKeepRest
  <2>2. QED
    BY <1>1, <2>1 DEF IInv, Rest
<1>4. QED
  BY <1>2, <1>3 DEF Next

LEMMA Invariance == Spec => []IInv
BY Initial, Inductive, PTL DEF Spec

-----------------------------------------------------------------------------
(* Theorems                                                                *)

(* Every variable keeps its type: the steps of main come one at a time and *)
(* in the order of runServe, and the loop never runs without the goroutine *)
(* that waits for signals.                                                 *)
THEOREM TypeCorrect == Spec => []TypeOK
<1>1. IInv => TypeOK
  BY DEF IInv, Types, Values, Flags, ConfigTypes, Order, TypeOK
<1>2. QED
  BY <1>1, Invariance, PTL

(* The deferred Close comes after Start has returned, whatever signals and *)
(* failed startup steps do: no cycle publishes to a closed publisher.      *)
THEOREM PublisherOutlives == Spec => []PublisherOutlivesLoop
<1>1. IInv => PublisherOutlivesLoop
  BY DEF IInv, Types, Values, Order, Startup, Opened, Alive, PublisherOutlivesLoop
<1>2. QED
  BY <1>1, Invariance, PTL

(* No way out of runServe leaves a publisher open.                         *)
THEOREM PublisherReleased == Spec => []ReleasesPublisher
<1>1. IInv => ReleasesPublisher
  BY DEF IInv, Order, ReleasesPublisher
<1>2. QED
  BY <1>1, Invariance, PTL

(* /readyz says 200 only to a request that came in while the process was   *)
(* ready and had completed a cycle, however the probe, the signal          *)
(* goroutine and the loop interleave.                                      *)
THEOREM ReadyTellsTruth == Spec => []ReadyOnlyWhenServing
<1>1. IInv => ReadyOnlyWhenServing
  BY DEF IInv, Probes, ReadyOnlyWhenServing
<1>2. QED
  BY <1>1, Invariance, PTL

(* The tracer provider is shut down after the loop and the publisher, and  *)
(* is never left behind.                                                   *)
THEOREM TracerLast == Spec => []TracerShutDownLast
<1>1. IInv => TracerShutDownLast
  BY DEF IInv, Order, Alive, TracerShutDownLast
<1>2. QED
  BY <1>1, Invariance, PTL

(* No process gets past LoadConfig with a poll interval that panics the    *)
(* ticker, an empty endpoint or a resource type that every fetch refuses.  *)
THEOREM LoadedConfigRuns == Spec => []ConfigRunnable
<1>1. IInv => ConfigRunnable
  BY DEF IInv
<1>2. QED
  BY <1>1, Invariance, PTL

(* Each key of what is loaded has the value of the strongest layer that    *)
(* speaks of it, for every text the layers may hold: an empty variable     *)
(* does not mask the file, an empty flag does.                             *)
THEOREM LayersKept == Spec => PrecedenceKept
<1> DEFINE Kept == main = "load" /\ main' = "logging" =>
             \A k \in Keys : Precedence(k, input.settings[k], config'[k])
<1>1. IInv /\ [Next]_vars => Kept
  <2> SUFFICES ASSUME IInv, [Next]_vars, main = "load", main' = "logging", NEW k \in Keys
               PROVE  Precedence(k, input.settings[k], config'[k])
    OBVIOUS
  <2>1. Load
    <3>1. CASE Main
      BY <3>1 DEF Main, InitLogging, InitTracer, InitClient, Connect, InitEngine,
        InitPublisher, InitReadiness, InitSentinel, StartServers, StartHandler,
        StartupFails, LoopReturned, ClosePublisher, ShutdownTracer, Then
    <3>2. CASE RunLoop \/ Ticker \/ Handler \/ Servers \/ Ended \/ UNCHANGED vars
      BY <3>2 DEF RunLoop, Ticker, Handler, Servers, Ended, ReceiveSignal, SetNotReady,
        CancelContext, CloseHealth, CloseMetrics, HealthListens, MetricsListens, AcceptProbe,
        LoadReady, RunChecks, ProbeStep, mainVars, vars
    <3>3. CASE Signal
      BY <3>3 DEF Signal
    <3>4. QED
      BY <3>1, <3>2, <3>3 DEF Next
  <2>2. config' = Decoded(input.settings)
    BY <2>1 DEF Load
  <2>3. input \in Inputs
    BY DEF IInv, Order
  <2>4. input.settings[k] \in Setting(k)
    BY <2>3, InputTyped
  <2>5. config'[k] = Decode(k, Merge(k, input.settings[k]))
    BY <2>2 DEF Decoded
  <2>6. QED
    BY <2>4, <2>5, LayersInOrder
<1>2. [][Kept]_vars => PrecedenceKept
  <2>1. Kept <=> (main = "load" /\ main' = "logging" => \A k \in Keys :
          LET s == input.settings[k]
              speaking == {l \in DOMAIN s : Speaks(l, s[l])}
              stronger == [flag |-> {}, env |-> {"flag"}, file |-> {"flag", "env"}]
          IN /\ speaking = {} => config'[k] = Default[k]
             /\ \A l \in speaking : stronger[l] \cap speaking = {} =>
                  config'[k] = Decode(k, s[l]))
    BY DEF Precedence
  <2>2. QED
    BY <2>1, PTL DEF PrecedenceKept
<1>3. QED
  BY <1>1, <1>2, Invariance, PTL DEF Spec

(* The loop that the process runs is the one that Sentinel implements: the *)
(* main goroutine, the signals and the servers do nothing to it that       *)
(* PollLoop does not let its environment do.                               *)
THEOREM SafelyRunsPollLoop == Spec => Loop!Init /\ [][Loop!Next]_(Loop!vars)
<1>1. Init => Loop!Init
  BY DEF Init
<1>2. [Next]_vars => [Loop!Next]_(Loop!vars)
  <2> SUFFICES ASSUME [Next]_vars PROVE [Loop!Next]_(Loop!vars)
    OBVIOUS
  <2> USE DEF Loop!Next, Loop!vars, loopVars
  <2>1. CASE Main
    BY <2>1 DEF Main
  <2>2. CASE RunLoop
    BY <2>2 DEF RunLoop
  <2>3. CASE Ticker
    BY <2>3 DEF Ticker
  <2>4. CASE Signal
    BY <2>4 DEF Signal
  <2>5. CASE Handler
    BY <2>5 DEF Handler, ReceiveSignal, SetNotReady, CancelContext, CloseHealth, CloseMetrics
  <2>6. CASE Servers
    BY <2>6 DEF Servers, HealthListens, MetricsListens, AcceptProbe, LoadReady, RunChecks, ProbeStep
  <2>7. CASE UNCHANGED vars
    BY <2>7 DEF vars
  <2>8. QED
    BY <2>1, <2>2, <2>3, <2>4, <2>5, <2>6, <2>7 DEF Next, Ended
<1>3. QED
  BY <1>1, <1>2, PTL DEF Spec
=============================================================================
