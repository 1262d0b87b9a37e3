--------------------------- MODULE WatchdogProofs ---------------------------
(***************************************************************************)
(* Theorems about Watchdog, for every poll interval, probe and API. Two    *)
(* conditions on the settings are hypotheses, which the runs' constants    *)
(* satisfy: a cycle fits two poll intervals, and the client's budget is    *)
(* the longest that the loop does anything. A third one says how long an   *)
(* outage may be.                                                          *)
(***************************************************************************)
EXTENDS Watchdog, TLAPS

FastEnough == AnswerTime + PassTime <= 2 * PollInterval
Longest    == AnswerTime <= FetchBudget /\ PassTime <= FetchBudget

(* What is spent and what is left of a fetch never exceed its budget, only *)
(* a fetch after the API went down is hit, and the pod lives until the     *)
(* failures reach their threshold.                                         *)
Bounds ==
  /\ loop = "fetch" => busy + left <= FetchBudget
  /\ loop # "fetch" => busy = 0
  /\ hit => api # "up"
  /\ ~killed => failures < ProbeFailures

Numbers ==
  /\ loop \in {"fetch", "handle", "select", "hung"}
  /\ busy \in Nat /\ left \in Nat /\ busy <= FetchBudget /\ left <= FetchBudget
  /\ toTick \in Nat /\ 1 <= toTick /\ toTick <= PollInterval
  /\ age \in Int /\ Never <= age /\ age <= Oldest
  /\ api \in {"up", "down", "back"} /\ down \in Nat /\ down <= MaxOutage
  /\ toProbe \in Nat /\ toProbe <= ProbePeriod + InitialDelay
  /\ failures \in Nat /\ failures <= ProbeFailures

Flags == hit \in BOOLEAN /\ tick \in BOOLEAN /\ killed \in BOOLEAN

TInv == Numbers /\ Flags /\ Bounds

(* While the API is up, the age of the last poll and what the loop may     *)
(* still take until it is renewed are bounded at each place of the loop:   *)
(* the wait for a tick, the fetch and the pass.                            *)
Fresh ==
  api = "up" /\ age # Never =>
    /\ loop = "select" /\ tick => age <= PollInterval
    /\ loop = "select" /\ ~tick => age + toTick <= PollInterval
    /\ loop = "fetch" => age + left <= PollInterval + AnswerTime
    /\ loop = "handle" => age + left <= PollInterval + AnswerTime + PassTime

-----------------------------------------------------------------------------
(* An outage. Two clocks run while the API is not what it was: the longest *)
(* time to the next successful poll, and the shortest to the restart.      *)

Later(a, b) == IF a > b THEN a ELSE b
Credit(n)   == n * ProbePeriod
Cycle       == AnswerTime + PassTime
Recovery    == Later(RetryGap + AnswerTime, PollInterval) + Cycle

(* The outage that the settings allow for: with the age the last poll may  *)
(* have when it begins, and with what the loop needs after it, all the     *)
(* probes that must fail do not fit.                                       *)
Bearable == MaxOutage + Recovery + PollInterval + AnswerTime
              <= Threshold + Credit(ProbeFailures - 1)

Wait == IF tick THEN 0 ELSE toTick

ToPoll ==
  IF loop = "handle" THEN left
  ELSE IF api = "down" THEN MaxOutage - down + Recovery
  ELSE IF loop = "select" THEN Wait + Cycle
  ELSE IF hit THEN Later(left, Wait) + Cycle
  ELSE left + PassTime

(* The next probe that can fail is the first after the last poll has       *)
(* become stale; a period lies between two.                                *)
ToKill ==
  IF Oldest - age > toProbe THEN Oldest - age + Credit(ProbeFailures - 1)
  ELSE toProbe + Credit(ProbeFailures - failures - 1)

(* Until the API goes down, and in the pass that it leaves undisturbed,    *)
(* no probe has failed.                                                    *)
Unharmed ==
  /\ api = "up" => down = 0
  /\ api = "up" \/ (loop = "handle" /\ api = "down") \/ age = Never => failures = 0
  /\ loop = "handle" /\ api = "down" /\ age # Never =>
       age + left <= PollInterval + Cycle

InTime == api # "up" /\ age # Never => ToPoll < ToKill

Ahead == loop # "hung" => ~killed /\ Unharmed /\ InTime

-----------------------------------------------------------------------------
LEMMA Times ==
  /\ PollInterval \in Nat /\ PollInterval > 0 /\ ProbePeriod \in Nat /\ ProbeFailures \in Nat
  /\ ProbeFailures > 0 /\ AnswerTime \in Nat /\ RetryGap \in Nat /\ MinSurrender \in Nat
  /\ FetchBudget \in Nat /\ PassTime \in Nat /\ InitialDelay \in Nat /\ MaxOutage \in Nat
<1>1. PollInterval \in Nat \ {0} /\ ProbePeriod \in Nat \ {0} /\ ProbeFailures \in Nat \ {0}
  BY TimesAssumption
<1>2. /\ AnswerTime \in Nat /\ RetryGap \in Nat /\ MinSurrender \in Nat
      /\ FetchBudget \in Nat /\ PassTime \in Nat /\ InitialDelay \in Nat /\ MaxOutage \in Nat
  BY TimesAssumption
<1>3. QED
  BY <1>1, <1>2

LEMMA TypeInitial == ASSUME Longest, Init PROVE TInv /\ Fresh
<1> USE Times DEF Longest, Init
<1>1. Numbers
  BY DEF Numbers, Sooner, Oldest, Threshold, Never
<1>2. Flags
  BY DEF Flags
<1>3. Bounds
  BY DEF Bounds
<1>4. Fresh
  BY DEF Fresh
<1>5. QED
  BY <1>1, <1>2, <1>3, <1>4 DEF TInv

LEMMA NumbersStep == ASSUME Longest, TInv, [Next]_vars PROVE Numbers'
<1> USE Times DEF Longest, TInv, Numbers, Bounds, Never, Oldest, Threshold, Earlier,
      loopVars, timerVars, apiVars
<1>1. CASE FetchSucceeds
  BY <1>1 DEF FetchSucceeds
<1>2. CASE FetchFails
  BY <1>2 DEF FetchFails
<1>3. CASE FinishCycle
  BY <1>3 DEF FinishCycle
<1>4. CASE TakeTick
  BY <1>4 DEF TakeTick
<1>5. CASE Hang
  BY <1>5 DEF Hang
<1>6. CASE GoesDown
  BY <1>6 DEF GoesDown
<1>7. CASE ComesBack
  BY <1>7 DEF ComesBack
<1>8. CASE Probe
  BY <1>8 DEF Probe
<1>9. CASE Pass
  BY <1>9 DEF Pass
<1>10. CASE Restarted \/ UNCHANGED vars
  BY <1>10 DEF Restarted, vars
<1>11. QED
  BY <1>1, <1>2, <1>3, <1>4, <1>5, <1>6, <1>7, <1>8, <1>9, <1>10 DEF Next, LoopStep

LEMMA FlagsStep == ASSUME TInv, [Next]_vars PROVE Flags'
<1> USE DEF TInv, Flags, loopVars, timerVars, apiVars
<1>1. CASE FetchSucceeds
  BY <1>1 DEF FetchSucceeds
<1>2. CASE FetchFails
  BY <1>2 DEF FetchFails
<1>3. CASE FinishCycle
  BY <1>3 DEF FinishCycle
<1>4. CASE TakeTick
  BY <1>4 DEF TakeTick
<1>5. CASE Hang
  BY <1>5 DEF Hang
<1>6. CASE GoesDown
  BY <1>6 DEF GoesDown
<1>7. CASE ComesBack
  BY <1>7 DEF ComesBack
<1>8. CASE Probe
  BY <1>8 DEF Probe
<1>9. CASE Pass
  BY <1>9 DEF Pass
<1>10. CASE Restarted \/ UNCHANGED vars
  BY <1>10 DEF Restarted, vars
<1>11. QED
  BY <1>1, <1>2, <1>3, <1>4, <1>5, <1>6, <1>7, <1>8, <1>9, <1>10 DEF Next, LoopStep

LEMMA BoundsStep == ASSUME Longest, TInv, [Next]_vars PROVE Bounds'
<1> USE Times DEF Longest, TInv, Numbers, Flags, Bounds, Earlier,
      loopVars, timerVars, apiVars
<1>1. CASE FetchSucceeds
  BY <1>1 DEF FetchSucceeds
<1>2. CASE FetchFails
  BY <1>2 DEF FetchFails
<1>3. CASE FinishCycle
  BY <1>3 DEF FinishCycle
<1>4. CASE TakeTick
  BY <1>4 DEF TakeTick
<1>5. CASE Hang
  BY <1>5 DEF Hang
<1>6. CASE GoesDown
  BY <1>6 DEF GoesDown
<1>7. CASE ComesBack
  BY <1>7 DEF ComesBack
<1>8. CASE Probe
  <2>1. ~killed' => failures' # ProbeFailures
    BY <1>8, Zenon DEF Probe
  <2>2. failures' \in Nat /\ failures' <= ProbeFailures
    BY <1>8 DEF Probe
  <2>3. UNCHANGED <<loopVars, apiVars>>
    BY <1>8 DEF Probe
  <2>4. QED
    BY <2>1, <2>2, <2>3
<1>9. CASE Pass
  BY <1>9 DEF Pass
<1>10. CASE Restarted \/ UNCHANGED vars
  BY <1>10 DEF Restarted, vars
<1>11. QED
  BY <1>1, <1>2, <1>3, <1>4, <1>5, <1>6, <1>7, <1>8, <1>9, <1>10 DEF Next, LoopStep

LEMMA FreshStep == ASSUME TInv, Fresh, [Next]_vars PROVE Fresh'
<1> USE Times DEF TInv, Numbers, Flags, Bounds, Fresh, Never, Oldest, Threshold, Earlier,
      loopVars, timerVars, apiVars
<1>1. CASE FetchSucceeds
  BY <1>1 DEF FetchSucceeds
<1>2. CASE FetchFails
  BY <1>2 DEF FetchFails
<1>3. CASE FinishCycle
  BY <1>3 DEF FinishCycle
<1>4. CASE TakeTick
  BY <1>4 DEF TakeTick
<1>5. CASE Hang
  BY <1>5 DEF Hang
<1>6. CASE GoesDown
  BY <1>6 DEF GoesDown
<1>7. CASE ComesBack
  BY <1>7 DEF ComesBack
<1>8. CASE Probe
  BY <1>8 DEF Probe
<1>9. CASE Pass
  BY <1>9 DEF Pass
<1>10. CASE Restarted \/ UNCHANGED vars
  BY <1>10 DEF Restarted, vars
<1>11. QED
  BY <1>1, <1>2, <1>3, <1>4, <1>5, <1>6, <1>7, <1>8, <1>9, <1>10 DEF Next, LoopStep

LEMMA Credits ==
  /\ \A n \in Nat : Credit(n) \in Nat /\ Credit(n + 1) = Credit(n) + ProbePeriod
  /\ Credit(0) = 0
<1>1. ASSUME NEW n \in Nat
      PROVE  Credit(n) \in Nat /\ Credit(n + 1) = Credit(n) + ProbePeriod
  <2>1. (n + 1) * ProbePeriod = n * ProbePeriod + ProbePeriod /\ n * ProbePeriod \in Nat
    BY Times
  <2>2. QED
    BY <2>1 DEF Credit
<1>2. Credit(0) = 0
  BY Times DEF Credit
<1>3. QED
  BY <1>1, <1>2

LEMMA UnharmedStep ==
  ASSUME TInv, Fresh, FastEnough, Ahead, [Next]_vars, loop' # "hung"
  PROVE  Unharmed'
<1> USE Times DEF TInv, Numbers, Flags, Bounds, Fresh, FastEnough, Ahead, Unharmed, Cycle,
      Never, Oldest, Threshold, Earlier, loopVars, timerVars, apiVars
<1>1. CASE FetchSucceeds
  BY <1>1 DEF FetchSucceeds
<1>2. CASE FetchFails
  BY <1>2 DEF FetchFails
<1>3. CASE FinishCycle
  BY <1>3 DEF FinishCycle
<1>4. CASE TakeTick
  BY <1>4 DEF TakeTick
<1>5. CASE Hang
  BY <1>5 DEF Hang
<1>6. CASE GoesDown
  BY <1>6 DEF GoesDown
<1>7. CASE ComesBack
  BY <1>7 DEF ComesBack
<1>8. CASE Probe
  BY <1>8 DEF Probe, Stale
<1>9. CASE Pass
  BY <1>9 DEF Pass
<1>10. CASE Restarted \/ UNCHANGED vars
  BY <1>10 DEF Restarted, vars
<1>11. QED
  BY <1>1, <1>2, <1>3, <1>4, <1>5, <1>6, <1>7, <1>8, <1>9, <1>10 DEF Next, LoopStep

LEMMA InTimeStep ==
  ASSUME TInv, Fresh, FastEnough, Bearable, Ahead, [Next]_vars, loop' # "hung"
  PROVE  InTime'
<1> DEFINE c == Credit(ProbeFailures - 1)
           f == Credit(ProbeFailures - failures - 1)
<1>1. c \in Nat
  BY Times, Credits
<1>2. ~killed => f \in Nat
  <2>1. ~killed => ProbeFailures - failures - 1 \in Nat
    BY Times DEF TInv, Numbers, Bounds
  <2>2. QED
    BY <2>1, Credits
<1> USE Times, <1>1, <1>2 DEF TInv, Numbers, Flags, Bounds, Fresh, FastEnough, Bearable,
      Ahead, Unharmed, InTime, ToPoll, ToKill, Wait, Cycle, Recovery, Later,
      Never, Oldest, Threshold, Earlier, loopVars, timerVars, apiVars
<1>3. CASE FetchSucceeds
  BY <1>3 DEF FetchSucceeds
<1>4. CASE FetchFails
  BY <1>4 DEF FetchFails
<1>5. CASE FinishCycle
  BY <1>5 DEF FinishCycle
<1>6. CASE TakeTick
  BY <1>6 DEF TakeTick
<1>7. CASE Hang
  BY <1>7 DEF Hang
<1>8. CASE GoesDown
  BY <1>8 DEF GoesDown
<1>9. CASE ComesBack
  BY <1>9 DEF ComesBack
<1>10. CASE Probe
  <2>1. CASE Stale
    <3> DEFINE m == ProbeFailures - failures - 1
    <3>1. ~killed /\ toProbe = 0 /\ toProbe' = ProbePeriod /\ failures' = failures + 1
      BY <1>10, <2>1 DEF Probe
    <3>2. age = Oldest /\ age' = age
      BY <1>10, <2>1 DEF Probe, Stale
    <3>3. SUFFICES ASSUME api # "up" PROVE ToPoll' < ToKill'
      BY <1>10, <3>2 DEF Probe
    <3>4. ToPoll' = ToPoll /\ ToPoll \in Int /\ ToPoll >= 0
      BY <1>10, <3>3 DEF Probe
    <3>5. ToPoll < Credit(m)
      BY <1>10, <3>1, <3>2, <3>3 DEF Probe
    <3>6. m \in Nat /\ m # 0
      <4>1. m \in Nat
        BY <3>1
      <4> HIDE DEF m, ToPoll, ToKill
      <4>2. QED
        BY <3>4, <3>5, <4>1, Credits
    <3>7. Credit(m) = Credit(m - 1) + ProbePeriod
      <4> HIDE DEF m
      <4>1. m - 1 \in Nat /\ m = (m - 1) + 1
        BY <3>6
      <4>2. QED
        BY <4>1, Credits
    <3>8. ToKill' = ProbePeriod + Credit(m - 1)
      <4>1. ProbeFailures - failures' - 1 = m - 1
        BY <3>1
      <4>2. QED
        BY <3>1, <3>2, <4>1
    <3>9. Credit(m - 1) \in Nat
      <4>1. m - 1 \in Nat
        BY <3>6
      <4> HIDE DEF m
      <4>2. QED
        BY <4>1, Credits
    <3>10. QED
      <4> HIDE DEF m, ToPoll, ToKill
      <4>1. QED
        BY <3>4, <3>5, <3>7, <3>8, <3>9
  <2>2. CASE ~Stale
    BY <1>10, <2>2, Credits DEF Probe, Stale
  <2>3. QED
    BY <2>1, <2>2
<1>11. CASE Pass
  <2>1. CASE loop = "handle"
    BY <1>11, <2>1 DEF Pass
  <2>2. CASE loop # "handle" /\ api = "down"
    BY <1>11, <2>2 DEF Pass
  <2>3. CASE loop = "fetch" /\ api = "back"
    <3>1. /\ age # Never /\ ToKill' >= ToKill - 1 /\ ToPoll < ToKill
          \/ age = Never
      BY <1>11, <2>3 DEF Pass
    <3>2. CASE hit
      <4>1. left > 0 /\ left' = left - 1
        BY <1>11, <2>3 DEF Pass
      <4>2. CASE tick
        <5>1. tick'
          BY <1>11, <4>2 DEF Pass
        <5>2. /\ ToPoll = left + Cycle
              /\ ToPoll' = left' + Cycle
          BY <1>11, <2>3, <3>2, <4>1, <4>2, <5>1 DEF Pass
        <5>3. ToPoll' = ToPoll - 1 /\ ToPoll \in Int
          <6> HIDE DEF ToPoll
          <6>1. Cycle \in Nat
            OBVIOUS
          <6>2. QED
            BY <4>1, <5>2, <6>1
        <5>4. age = Never => age' = Never
          BY <1>11 DEF Pass
        <5>5. ToKill \in Int /\ (age # Never => ToKill' \in Int)
          BY <1>11, <2>3 DEF Pass
        <5>6. QED
          <6> HIDE DEF ToPoll, ToKill
          <6>1. QED
            BY <3>1, <5>3, <5>4, <5>5
      <4>3. CASE ~tick /\ toTick = 1
        BY <1>11, <2>3, <3>1, <3>2, <4>1, <4>3 DEF Pass
      <4>4. CASE ~tick /\ toTick # 1
        BY <1>11, <2>3, <3>1, <3>2, <4>1, <4>4 DEF Pass
      <4>5. QED
        BY <4>2, <4>3, <4>4
    <3>3. CASE ~hit
      BY <1>11, <2>3, <3>1, <3>3 DEF Pass
    <3>4. QED
      BY <3>2, <3>3
  <2>4. CASE loop = "select" /\ api = "back"
    BY <1>11, <2>4 DEF Pass
  <2>5. CASE api = "up"
    BY <1>11, <2>5 DEF Pass
  <2>6. QED
    BY <1>11, <2>1, <2>2, <2>3, <2>4, <2>5 DEF Pass
<1>12. CASE Restarted \/ UNCHANGED vars
  BY <1>12 DEF Restarted, vars
<1>13. QED
  BY <1>3, <1>4, <1>5, <1>6, <1>7, <1>8, <1>9, <1>10, <1>11, <1>12 DEF Next, LoopStep

LEMMA AheadInitial == ASSUME Init PROVE Ahead
BY Times DEF Init, Ahead, Unharmed, InTime, Never

LEMMA AheadStep ==
  ASSUME TInv, Fresh, FastEnough, Bearable, Ahead, [Next]_vars
  PROVE  Ahead'
<1> SUFFICES ASSUME loop' # "hung" PROVE ~killed' /\ Unharmed' /\ InTime'
  BY DEF Ahead
<1>1. loop # "hung"
  BY DEF Next, LoopStep, FetchSucceeds, FetchFails, FinishCycle, TakeTick, Hang, GoesDown,
         ComesBack, Probe, Pass, Restarted, vars, loopVars
<1>2. ~killed
  BY <1>1 DEF Ahead
<1>3. ~killed'
  <2>1. CASE Probe
    <3> SUFFICES ASSUME killed' PROVE FALSE
      OBVIOUS
    <3>1. failures' = ProbeFailures /\ toProbe = 0
      BY <2>1 DEF Probe
    <3>2. Stale /\ failures = ProbeFailures - 1
      BY <2>1, <3>1, Times DEF Probe, TInv, Numbers
    <3>3. api # "up" /\ age = Oldest /\ age # Never
      <4>1. age # Never /\ age > Threshold
        BY <3>2 DEF Stale
      <4>2. api # "up"
        BY <1>1, <4>1, Times
           DEF TInv, Numbers, Flags, Fresh, FastEnough, Threshold, Never
      <4>3. QED
        BY <4>1, <4>2, Times DEF TInv, Numbers, Oldest, Threshold
    <3>4. ToKill = 0
      BY <3>1, <3>2, <3>3, Times, Credits DEF ToKill, Oldest, Threshold, TInv, Numbers
    <3>5. ToPoll >= 0
      BY <1>1, Times DEF ToPoll, Wait, Later, Cycle, Recovery, TInv, Numbers, Flags
    <3>6. ToPoll \in Int
      BY <1>1, Times DEF ToPoll, Wait, Later, Cycle, Recovery, TInv, Numbers, Flags
    <3>7. ToPoll < ToKill
      BY <1>1, <3>3 DEF Ahead, InTime
    <3>8. QED
      BY <3>4, <3>5, <3>6, <3>7
  <2>2. CASE ~Probe
    BY <1>2, <2>2 DEF Next, LoopStep, FetchSucceeds, FetchFails, FinishCycle, TakeTick,
         Hang, GoesDown, ComesBack, Pass, Restarted, vars
  <2>3. QED
    BY <2>1, <2>2
<1>4. QED
  BY <1>3, UnharmedStep, InTimeStep

LEMMA Invariance == ASSUME Longest PROVE Spec => [](TInv /\ Fresh)
<1>1. Init => TInv /\ Fresh
  BY TypeInitial
<1>2. TInv /\ Fresh /\ [Next]_vars => (TInv /\ Fresh)'
  BY NumbersStep, FlagsStep, BoundsStep, FreshStep DEF TInv
<1>3. QED
  BY <1>1, <1>2, PTL DEF Spec

-----------------------------------------------------------------------------
(* Theorems                                                                *)

(* The counters of the fetch, the timers, the probe's count of failures    *)
(* and the outage stay within their bounds.                                *)
THEOREM TypeCorrect == ASSUME Longest PROVE Spec => []TypeOK
<1>1. TInv => TypeOK
  BY Times DEF TInv, Numbers, Flags, TypeOK, Oldest, Threshold, Never
<1>2. QED
  BY <1>1, Invariance, PTL

(* With any poll interval of which a fetch that is answered and a pass     *)
(* need at most two, /healthz has no cause to complain while the API is up *)
(* and no publish is stuck: the tick that a long cycle leaves waiting or   *)
(* has made the ticker drop does not add up to more.                       *)
THEOREM NoAlarmWhileUp == ASSUME Longest, FastEnough PROVE Spec => []NoFalseAlarm
<1>1. TInv /\ Fresh => NoFalseAlarm
  BY Times DEF TInv, Numbers, Flags, Fresh, FastEnough, NoFalseAlarm, Stale, Threshold, Never
<1>2. QED
  BY <1>1, Invariance, PTL

(* The outage that the alarm is meant to sit out, for every interval,      *)
(* probe and client: an API that is down once, for no longer than the      *)
(* settings allow for (26 s by default), does not have the pod restarted,  *)
(* whatever fetches it spoils and whenever the probes come.                *)
THEOREM OutageBorne ==
  ASSUME Longest, FastEnough, Bearable PROVE Spec => []OutageTolerated
<1>1. Init => Ahead
  BY AheadInitial
<1>2. TInv /\ Fresh /\ Ahead /\ [Next]_vars => Ahead'
  BY AheadStep
<1>3. Ahead => OutageTolerated
  BY DEF Ahead, OutageTolerated
<1>4. QED
  BY <1>1, <1>2, <1>3, Invariance, PTL DEF Spec

-----------------------------------------------------------------------------
(* How long a hung loop may live.                                          *)

ProbeDue == toProbe <= Later(InitialDelay, ProbePeriod)

Hung == loop = "hung" /\ age # Never /\ ~killed

LEMMA ProbeDueInitial == ASSUME Init PROVE ProbeDue
<1>1. toProbe <= InitialDelay
  BY Times DEF Init, Sooner
<1>2. QED
  BY <1>1, Times DEF ProbeDue, Later, Init, Sooner

LEMMA ProbeDueStep == ASSUME TInv, ProbeDue, [Next]_vars PROVE ProbeDue'
<1> USE Times DEF TInv, Numbers, ProbeDue, Later
<1>1. CASE Probe
  BY <1>1 DEF Probe
<1>2. CASE Pass
  BY <1>2 DEF Pass
<1>3. CASE ~Probe /\ ~Pass
  <2>1. toProbe' = toProbe
    BY <1>3 DEF Next, LoopStep, FetchSucceeds, FetchFails, FinishCycle, TakeTick,
         Hang, GoesDown, ComesBack, Restarted, vars, timerVars
  <2>2. QED
    BY <2>1
<1>4. QED
  BY <1>1, <1>2, <1>3

(* Probes that have failed already are probes that need not fail any more. *)
LEMMA CreditsLess ==
  ASSUME NEW n \in Nat, NEW k \in 0..n
  PROVE  Credit(k) \in Nat /\ Credit(n) \in Nat /\ Credit(k) <= Credit(n)
<1>1. (n - k) * ProbePeriod \in Nat /\ n * ProbePeriod \in Nat /\ k * ProbePeriod \in Nat
  BY Times
<1>2. n * ProbePeriod = k * ProbePeriod + (n - k) * ProbePeriod
  BY Times
<1>3. QED
  BY <1>1, <1>2 DEF Credit

LEMMA RestartByBounded ==
  ASSUME TInv, ProbeDue, Hung PROVE RestartBy \in 0..RestartTime
<1> USE Times DEF TInv, Numbers, Bounds, Hung, Oldest, Never
<1>1. failures \in Nat /\ failures < ProbeFailures /\ Threshold \in Nat
  BY DEF Threshold
<1>2. /\ Credit(ProbeFailures - failures - 1) \in Nat /\ Credit(ProbeFailures - 1) \in Nat
      /\ Credit(ProbeFailures - failures - 1) <= Credit(ProbeFailures - 1)
  BY <1>1, CreditsLess
<1>3. RestartTime = (IF InitialDelay > Threshold + ProbePeriod THEN InitialDelay
                     ELSE Threshold + ProbePeriod) + Credit(ProbeFailures - 1)
  BY DEF RestartTime, Credit
<1>4. /\ Stale => RestartBy = toProbe + Credit(ProbeFailures - failures - 1)
      /\ ~Stale => RestartBy = (IF toProbe >= Oldest - age THEN toProbe
                                ELSE Oldest - age + ProbePeriod - 1) + Credit(ProbeFailures - 1)
  BY DEF RestartBy, Credit
<1>5. CASE Stale
  BY <1>1, <1>2, <1>3, <1>4, <1>5 DEF ProbeDue, Later
<1>6. CASE ~Stale
  BY <1>1, <1>2, <1>3, <1>4, <1>6 DEF ProbeDue, Later
<1>7. QED
  BY <1>5, <1>6

LEMMA DeadlineStep ==
  ASSUME TInv, Hung, [Next]_vars
  PROVE  killed' \/ RestartBy' <= RestartBy - (IF Pass THEN 1 ELSE 0)
<1> USE Times DEF TInv, Numbers, Flags, Bounds, Hung, Never
<1>1. failures \in Nat /\ failures < ProbeFailures /\ Threshold \in Nat /\ Oldest = Threshold + 1
  BY DEF Threshold, Oldest
<1> DEFINE K == Credit(ProbeFailures - 1)
           L == Credit(ProbeFailures - failures - 1)
<1>2. L \in Nat /\ K \in Nat /\ L <= K
  BY <1>1, CreditsLess
<1>3. /\ Stale => RestartBy = toProbe + L
      /\ ~Stale => RestartBy = (IF toProbe >= Oldest - age THEN toProbe
                                ELSE Oldest - age + ProbePeriod - 1) + K
  BY DEF RestartBy, Credit
<1>4. CASE Pass
  <2>1. /\ toProbe' = toProbe - 1 /\ failures' = failures
        /\ age' = IF age + 1 < Oldest THEN age + 1 ELSE Oldest
    BY <1>1, <1>4 DEF Pass, Earlier
  <2>2. /\ Stale' => RestartBy' = toProbe - 1 + L
        /\ ~Stale' => RestartBy' = (IF toProbe - 1 >= Oldest - age' THEN toProbe - 1
                                   ELSE Oldest - age' + ProbePeriod - 1) + K
    BY <2>1 DEF RestartBy, Credit
  <2>3. (Stale <=> age = Oldest) /\ (Stale' <=> age' = Oldest)
    BY <1>1, <2>1 DEF Stale
  <2> HIDE DEF K, L
  <2>4. RestartBy' <= RestartBy - 1
    BY <1>1, <1>2, <1>3, <2>1, <2>2, <2>3
  <2>5. QED
    BY <1>4, <2>4
<1>5. CASE Probe
  <2>1. ~Pass
    BY <1>5 DEF Probe, Pass
  <2>2. toProbe = 0 /\ toProbe' = ProbePeriod /\ age' = age /\ Stale' = Stale
    BY <1>5 DEF Probe, Stale
  <2>3. CASE Stale
    <3>1. failures' = failures + 1 /\ (killed' <=> failures' = ProbeFailures)
      BY <1>5, <2>3 DEF Probe
    <3>2. CASE failures + 1 = ProbeFailures
      BY <3>1, <3>2
    <3>3. CASE failures + 1 # ProbeFailures
      <4>1. ProbeFailures - failures - 2 \in Nat
        BY <1>1, <3>3
      <4>2. L = Credit(ProbeFailures - failures - 2) + ProbePeriod
        <5>1. ProbeFailures - failures - 1 = (ProbeFailures - failures - 2) + 1
          BY <1>1
        <5>2. QED
          BY <4>1, <5>1, Credits
      <4>3. RestartBy' = ProbePeriod + Credit(ProbeFailures - failures - 2)
        <5>1. ProbeFailures - failures' - 1 = ProbeFailures - failures - 2
          BY <1>1, <3>1
        <5>2. QED
          BY <2>2, <2>3, <3>1, <5>1 DEF RestartBy, Credit
      <4>4. Credit(ProbeFailures - failures - 2) \in Nat
        BY <4>1, Credits
      <4> HIDE DEF K, L
      <4>5. QED
        BY <1>2, <1>3, <2>1, <2>2, <2>3, <4>2, <4>3, <4>4
    <3>4. QED
      BY <3>2, <3>3
  <2>4. CASE ~Stale
    <3>1. age < Oldest
      BY <1>1, <2>4 DEF Stale
    <3>2. RestartBy' = (IF ProbePeriod >= Oldest - age THEN ProbePeriod
                        ELSE Oldest - age + ProbePeriod - 1) + K
      BY <2>2, <2>4 DEF RestartBy, Credit
    <3> HIDE DEF K, L
    <3>3. QED
      BY <1>1, <1>2, <1>3, <2>1, <2>2, <2>4, <3>1, <3>2
  <2>5. QED
    BY <2>3, <2>4
<1>6. CASE ~Pass /\ ~Probe
  <2>1. UNCHANGED <<toProbe, age, failures>>
    BY <1>6 DEF Next, LoopStep, FetchSucceeds, FetchFails, FinishCycle, TakeTick,
         Hang, GoesDown, ComesBack, Restarted, vars, timerVars, loopVars
  <2>2. RestartBy' = RestartBy
    BY <2>1 DEF RestartBy, Stale
  <2>3. RestartBy \in Int
    <3> HIDE DEF K, L
    <3>1. QED
      BY <1>1, <1>2, <1>3
  <2>4. QED
    BY <1>6, <2>2, <2>3
<1>7. QED
  BY <1>4, <1>5, <1>6

(* A loop that hangs once it has polled is restarted by a fixed time, for  *)
(* any interval and probe: the deadline is within RestartTime and comes    *)
(* nearer with every second. HungLoopIsRestarted follows as time passes.   *)
THEOREM HungHasDeadline == ASSUME Longest PROVE Spec => RestartDeadline
<1>1. Init => ProbeDue
  BY ProbeDueInitial
<1>2. TInv /\ ProbeDue /\ [Next]_vars => ProbeDue'
  BY ProbeDueStep
<1>3. TInv /\ ProbeDue /\ [Next]_vars =>
        [(loop = "hung" /\ age # Never /\ ~killed) =>
           /\ RestartBy \in 0..RestartTime
           /\ killed' \/ RestartBy' <= RestartBy - (IF Pass THEN 1 ELSE 0)]_vars
  BY RestartByBounded, DeadlineStep DEF Hung
<1>4. QED
  BY <1>1, <1>2, <1>3, Invariance, PTL DEF Spec, RestartDeadline
=============================================================================
