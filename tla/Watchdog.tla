------------------------------ MODULE Watchdog ------------------------------
(***************************************************************************)
(* Who watches the poll loop: /healthz (HealthzHandler of                  *)
(* internal/health/health.go) compares the age of lastSuccessfulPoll with  *)
(* three poll intervals, and the liveness probe of the chart restarts the  *)
(* pod after a few answers of 503. The loop is seen in time: what a cycle  *)
(* does is Sentinel's, how long a fetch may take comes from FetchOutage.   *)
(* The API may be down once, answering every request with an error that    *)
(* is worth a retry, or not at all. Time is in seconds.                    *)
(***************************************************************************)
EXTENDS Integers

CONSTANTS
  PollInterval,   \* poll_interval
  AnswerTime,     \* what an API that is up needs to answer, at most
  RetryGap,       \* longest time to an attempt after a recovery (FetchOutage)
  MinSurrender,   \* a fetch that fails has lasted this long (FetchOutage)
  FetchBudget,    \* and a fetch never lasts longer (FetchRetry)
  PassTime,       \* what the pass over the resources needs, at most
  InitialDelay,   \* initialDelaySeconds of the probe
  ProbePeriod,    \* its periodSeconds
  ProbeFailures,  \* its failureThreshold
  MaxOutage       \* bound: how long the API is down

ASSUME TimesAssumption ==
  /\ {PollInterval, ProbePeriod, ProbeFailures} \subseteq Nat \ {0}
  /\ {AnswerTime, RetryGap, MinSurrender, FetchBudget, PassTime, InitialDelay,
      MaxOutage} \subseteq Nat
  /\ MinSurrender <= FetchBudget

VARIABLES
  loop,      \* "fetch", "handle", "select" or "hung"
  busy,      \* time spent in the fetch, 0 outside of one
  left,      \* time the fetch or the pass may still take, 0 outside of them
  hit,       \* the API was down during this fetch
  toTick,    \* time to the ticker's next tick
  tick,      \* a tick waits in ticker.C
  age,       \* time since lastSuccessfulPoll, Never before the first one
  api,       \* "up", "down" or, after the outage, "back"
  down,      \* how long the API has been down
  toProbe,   \* time to the next liveness probe
  failures,  \* probes failed in a row
  killed     \* the kubelet has restarted the pod

loopVars  == <<loop, busy, left, hit>>
timerVars == <<toTick, tick, toProbe>>
apiVars   == <<api, down>>
vars == <<loopVars, timerVars, age, apiVars, failures, killed>>

Never     == -1
Threshold == 3 * PollInterval
Oldest    == Threshold + 1     \* ages are not told apart from here on
Earlier(a, b) == IF a < b THEN a ELSE b
Sooner(d) == IF d <= InitialDelay THEN InitialDelay - d + 1 ELSE 0

(* The outage may begin at once. The probes begin InitialDelay after the   *)
(* container did, and the loop up to a poll interval after the container.  *)
Init ==
  /\ loop = "fetch" /\ busy = 0 /\ left = AnswerTime /\ hit = FALSE
  /\ toTick = PollInterval /\ tick = FALSE
  /\ age = Never
  /\ api = "up" /\ down = 0
  /\ toProbe \in Sooner(PollInterval)..InitialDelay
  /\ failures = 0 /\ killed = FALSE

-----------------------------------------------------------------------------
(* The loop.                                                               *)

FetchSucceeds ==
  /\ loop = "fetch" /\ api # "down"
  /\ loop' = "handle" /\ left' = PassTime /\ busy' = 0 /\ hit' = FALSE
  /\ UNCHANGED <<timerVars, age, apiVars, failures, killed>>

(* Fault: a fetch that fails ends the loop.                                *)
FetchEndsLoop ==
  /\ loop = "fetch" /\ hit /\ busy >= MinSurrender
  /\ loop' = "ended" /\ left' = 0 /\ busy' = 0 /\ hit' = FALSE
  /\ UNCHANGED <<timerVars, age, apiVars, failures, killed>>

FetchFails ==
  /\ loop = "fetch" /\ hit /\ busy >= MinSurrender
  /\ loop' = "select" /\ left' = 0 /\ busy' = 0 /\ hit' = FALSE
  /\ UNCHANGED <<timerVars, age, apiVars, failures, killed>>

FinishCycle ==
  /\ loop = "handle" /\ loop' = "select" /\ left' = 0
  /\ age' = 0
  /\ UNCHANGED <<busy, hit, timerVars, apiVars, failures, killed>>

(* Fault: the ticker slows down with every tick it delivers.               *)
TickerBacksOff ==
  /\ loop = "select" /\ tick /\ tick' = FALSE
  /\ loop' = "fetch" /\ busy' = 0 /\ hit' = (api = "down")
  /\ left' = IF api = "down" THEN FetchBudget ELSE AnswerTime
  /\ toTick' = toTick + 2 * PollInterval
  /\ UNCHANGED <<toProbe, age, apiVars, failures, killed>>

TakeTick ==
  /\ loop = "select" /\ tick /\ tick' = FALSE
  /\ loop' = "fetch" /\ busy' = 0 /\ hit' = (api = "down")
  /\ left' = IF api = "down" THEN FetchBudget ELSE AnswerTime
  /\ UNCHANGED <<toTick, toProbe, age, apiVars, failures, killed>>

(* A Publish that never returns.                                           *)
Hang ==
  /\ loop = "handle" /\ loop' = "hung" /\ left' = 0
  /\ UNCHANGED <<busy, hit, timerVars, age, apiVars, failures, killed>>

-----------------------------------------------------------------------------
(* The API.                                                                *)

GoesDown ==
  /\ api = "up" /\ api' = "down"
  /\ IF loop = "fetch" THEN hit' = TRUE /\ left' = FetchBudget - busy
     ELSE UNCHANGED <<hit, left>>
  /\ UNCHANGED <<loop, busy, timerVars, age, down, failures, killed>>

ComesBack ==
  /\ api = "down" /\ api' = "back"
  /\ left' = IF loop = "fetch" THEN Earlier(left, RetryGap + AnswerTime) ELSE left
  /\ UNCHANGED <<loop, busy, hit, timerVars, age, down, failures, killed>>

-----------------------------------------------------------------------------
(* The probe.                                                              *)

(* Fault: /healthz allows for one poll interval.                           *)
StaleAtOnce == age # Never /\ age > PollInterval

(* Fault: the age of the last poll is not looked at.                       *)
StaleNever == FALSE

Stale == age # Never /\ age > Threshold

Probe ==
  /\ ~killed /\ toProbe = 0 /\ toProbe' = ProbePeriod
  /\ failures' = IF Stale THEN failures + 1 ELSE 0
  /\ killed' = (failures' = ProbeFailures)
  /\ UNCHANGED <<loopVars, toTick, tick, age, apiVars>>

-----------------------------------------------------------------------------
(* Time, which waits for whatever is due: the loop has until its activity  *)
(* must end, a waiting tick is taken at once, a probe is sent at its time. *)
Pass ==
  /\ ~killed /\ toProbe > 0
  /\ loop \in {"fetch", "handle"} => left > 0
  /\ ~(loop = "select" /\ tick)
  /\ api = "down" => down < MaxOutage
  /\ busy' = IF loop = "fetch" THEN busy + 1 ELSE busy
  /\ left' = IF loop \in {"fetch", "handle"} THEN left - 1 ELSE left
  /\ IF toTick = 1 THEN toTick' = PollInterval /\ tick' = TRUE
     ELSE toTick' = toTick - 1 /\ UNCHANGED tick
  /\ age' = IF age = Never THEN Never ELSE Earlier(age + 1, Oldest)
  /\ down' = IF api = "down" THEN down + 1 ELSE down
  /\ toProbe' = toProbe - 1
  /\ UNCHANGED <<loop, hit, api, failures, killed>>

Restarted == killed /\ UNCHANGED vars

LoopStep == FetchSucceeds \/ FetchFails \/ FinishCycle \/ TakeTick

Next == LoopStep \/ Hang \/ GoesDown \/ ComesBack \/ Probe \/ Pass \/ Restarted

(* Time passes, the kubelet probes, the loop's goroutine runs, the outage  *)
(* ends at its bound.                                                      *)
Fairness ==
  WF_vars(Pass) /\ WF_vars(Probe) /\ WF_vars(LoopStep) /\ WF_vars(ComesBack)

Spec == Init /\ [][Next]_vars /\ Fairness

-----------------------------------------------------------------------------
(* Properties                                                              *)

TypeOK ==
  /\ loop \in {"fetch", "handle", "select", "hung"}
  /\ busy \in 0..FetchBudget /\ left \in 0..FetchBudget
  /\ hit \in BOOLEAN /\ tick \in BOOLEAN /\ killed \in BOOLEAN
  /\ toTick \in 1..PollInterval
  /\ age \in {Never} \cup 0..Oldest
  /\ api \in {"up", "down", "back"} /\ down \in 0..MaxOutage
  /\ toProbe \in 0..(ProbePeriod + InitialDelay)
  /\ failures \in 0..ProbeFailures

(* While the API has been up all along and no publish is stuck, /healthz   *)
(* has no cause to complain: dropped ticks and all, successful polls       *)
(* follow each other within three intervals.                               *)
NoFalseAlarm == api = "up" /\ loop # "hung" => ~Stale

(* A single API outage of up to MaxOutage, with the retries it sets off and the  *)
(* cycles it spoils, does not restart the pod.                             *)
OutageTolerated == killed => loop = "hung"

(* The dead man's switch (docs/runbook.md): a loop that hangs after its    *)
(* first successful poll gets the pod restarted.                           *)
HungLoopIsRestarted == (loop = "hung" /\ age # Never) ~> killed

(* The latest that a hung loop is restarted from now on, if every probe    *)
(* that finds it stale counts. RestartTime: with the probe's 15 s, 20 s    *)
(* and 3 failures and an interval of 5 s, 75 s.                            *)
RestartBy ==
  IF Stale THEN toProbe + (ProbeFailures - failures - 1) * ProbePeriod
  ELSE (IF toProbe >= Oldest - age THEN toProbe ELSE Oldest - age + ProbePeriod - 1)
         + (ProbeFailures - 1) * ProbePeriod

RestartTime ==
  (IF InitialDelay > Threshold + ProbePeriod THEN InitialDelay ELSE Threshold + ProbePeriod)
    + (ProbeFailures - 1) * ProbePeriod

(* And it is restarted in time: from the moment it hangs the deadline only *)
(* comes nearer, by a second in each second that passes, and neither an    *)
(* outage nor failures counted before it hung put it off.                  *)
RestartDeadline ==
  [][(loop = "hung" /\ age # Never /\ ~killed) =>
       /\ RestartBy \in 0..RestartTime
       /\ killed' \/ RestartBy' <= RestartBy - (IF Pass THEN 1 ELSE 0)]_vars

(* After an outage the polls resume: the age of the last one comes back    *)
(* under the threshold, unless the loop hangs.                             *)
PollsResume == api = "back" ~> (loop = "hung" \/ age \in 0..Threshold)
=============================================================================
