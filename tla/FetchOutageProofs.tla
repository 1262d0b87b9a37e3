------------------------- MODULE FetchOutageProofs -------------------------
(***************************************************************************)
(* Theorems about FetchOutage, for all backoff parameters and budgets: the *)
(* bounds that Watchdog works with follow from those of the client. Each   *)
(* step of the call under an outage is one of FetchRetry, so that the      *)
(* invariants of FetchRetryProofs carry over.                              *)
(***************************************************************************)
EXTENDS FetchOutage, FetchRetryProofs

LEMMA StepIsFetchRetrys == ASSUME [OutageNext]_allVars PROVE [Next]_vars
BY DEF OutageNext, AtLarge, Outage, allVars, Send, Receive, GoesDown, ComesBack, TimePasses, Returned, Next,
       Client

LEMMA InitIsFetchRetrys == OutageInit => Init
BY DEF OutageInit

LEMMA Carried == OutageSpec => [](TypeOK /\ Spent /\ Tracked /\ NoEarlySurrender)
<1>1. Init => TypeOK /\ Spent /\ Tracked /\ NoEarlySurrender
  BY TypeInit, BudgetAssumption DEF Init, Spent, Tracked, NoEarlySurrender
<1>2. TypeOK /\ Spent /\ Tracked /\ NoEarlySurrender /\ [Next]_vars
        => (TypeOK /\ Spent /\ Tracked /\ NoEarlySurrender)'
  BY TypeNext, SpentNext, TrackedNext, SurrenderNext
<1>3. [OutageNext]_allVars => [Next]_vars
  BY StepIsFetchRetrys
<1>4. QED
  BY <1>1, <1>2, <1>3, InitIsFetchRetrys, PTL DEF OutageSpec

-----------------------------------------------------------------------------
(* The wait drawn from any interval fits Watchdog's gap.                   *)
LEMMA WaitFitsGap ==
  ASSUME NEW i \in 1..MaxInterval, NEW d \in Jitter(i)
  PROVE  d \in Nat /\ d <= RetryGap - RequestTimeout
<1>1. d \in Nat /\ 100 * d <= (100 + JitterPercent) * i
  BY DEF Jitter
<1>2. i \in Nat /\ MaxInterval \in Nat /\ i <= MaxInterval /\ 100 + JitterPercent \in Nat
  BY IntervalAssumption
<1>3. (100 + JitterPercent) * i <= (100 + JitterPercent) * MaxInterval
  BY <1>2, TimesMonotone
<1>4. /\ (100 + JitterPercent) * i \in Int /\ (100 + JitterPercent) * MaxInterval \in Int
  BY <1>2
<1>5. 100 * (RetryGap - RequestTimeout) >= (100 + JitterPercent) * MaxInterval
  BY WatchdogAssumption
<1>6. 100 * d <= 100 * (RetryGap - RequestTimeout)
  BY <1>1, <1>3, <1>4, <1>5, WatchdogAssumption, BudgetAssumption
<1>7. QED
  BY <1>1, <1>6, WatchdogAssumption, BudgetAssumption

(* Where the call may be, so long after the recovery: in a request that    *)
(* was sent before it, in the wait after that, or in the next request.     *)
Recovering ==
  /\ api \in {"up", "down", "back"} /\ since \in Nat
  /\ sound \in BOOLEAN /\ (sound => pc = "request" /\ inRequest <= AnswerTime)
  /\ api # "up" => hit
  /\ ~ctxDone /\ valid /\ ~dead
  /\ api # "back" => since = 0
  /\ pc = "request" /\ api = "up" => sound
  /\ pc = "wait" => hit /\ timer <= RetryGap - RequestTimeout
  /\ api = "back" =>
       /\ pc = "call" => since = 0
       /\ pc = "request" /\ ~sound => since <= inRequest
       /\ pc = "wait" => since + timer <= RetryGap
       /\ pc = "request" /\ sound => since <= RetryGap + inRequest
  /\ pc = "done" => result \in {"ok", "error"} /\ (result = "error" => hit /\ last = "retriable")

LEMMA GapPositive == RetryGap \in Nat /\ RequestTimeout \in Nat /\ RequestTimeout <= RetryGap
<1>1. (100 + JitterPercent) * MaxInterval \in Nat
  BY IntervalAssumption
<1>2. QED
  BY <1>1, WatchdogAssumption, BudgetAssumption

LEMMA RecoveringInit == OutageInit /\ api # "any" => Recovering
<1> SUFFICES ASSUME OutageInit, api # "any" PROVE Recovering
  OBVIOUS
<1>1. /\ api \in {"up", "down"} /\ since = 0 /\ sound = FALSE /\ pc = "call" /\ dead = FALSE
      /\ valid /\ ~ctxDone /\ hit = (api = "down")
  BY DEF OutageInit, Init
<1>2. api # "up" => hit
  BY <1>1
<1>3. QED
  BY <1>1, <1>2, GapPositive, AnswerAssumption DEF Recovering

LEMMA RecoveringNext ==
  ASSUME TypeOK, Spent, Tracked, Recovering, [Outage]_allVars
  PROVE  Recovering'
<1> USE GapPositive DEF Recovering, Return
<1>0. elapsed \in Nat /\ timer \in Nat /\ inRequest \in Nat /\ interval \in 1..MaxInterval
      /\ AnswerTime \in Nat
  BY AnswerAssumption, BudgetAssumption DEF TypeOK
<1>1. CASE Send
  <2>1. /\ pc \in {"call", "wait"} /\ pc' = "request" /\ inRequest' = 0 /\ dead' = ctxDone
        /\ pc = "wait" => timer = 0
        /\ UNCHANGED <<valid, ctxDone, api, hit, since>> /\ sound' = (api # "down")
    BY <1>1 DEF Send, FirstAttempt, NextAttempt, Attempt
  <2>2. ~dead' /\ ~ctxDone' /\ valid'
    BY <2>1
  <2>3. CASE api = "down"
    <3>1. sound' = FALSE
      BY <2>1, <2>3
    <3>2. QED
      BY <1>0, <2>1, <2>2, <2>3, <3>1
  <2>4. CASE api # "down"
    <3>1. sound' = TRUE
      BY <2>1, <2>4
    <3>2. QED
      BY <1>0, <2>1, <2>2, <2>4, <3>1
  <2>5. QED
    BY <2>3, <2>4
<1>2. CASE Receive
  <2>1. PICK outcome \in {"success", "retriable", "permanent"} :
          Conclude(outcome, outcome = "retriable")
    BY <1>2, RequestEnds DEF Receive
  <2>2. /\ last' = outcome /\ pc = "request" /\ UNCHANGED <<callVars, api, hit, since>>
        /\ sound' = FALSE
    BY <1>2, <2>1 DEF Receive, Conclude
  <2>6. ~dead' /\ ~ctxDone' /\ valid' /\ inRequest' = inRequest
    BY <2>2 DEF callVars
  <2>3. CASE outcome = "retriable"
    <3>1. ~sound
      BY <1>2, <2>2, <2>3 DEF Receive
    <3>2. hit /\ inRequest <= RequestTimeout
      BY <2>2, <3>1 DEF Spent
    <3>3. PICK d \in Jitter(interval) : Backoff(d)
      BY <2>1, <2>3 DEF Conclude
    <3>4. d \in Nat /\ d <= RetryGap - RequestTimeout
      BY <1>0, WaitFitsGap
    <3>5. \/ pc' = "wait" /\ timer' = d
          \/ pc' = "done" /\ result' = "error"
      BY <3>3 DEF Backoff, BackoffUnless
    <3>6. CASE pc' = "wait" /\ timer' = d
      <4>1. api = "back" => since <= inRequest
        BY <2>2, <3>1
      <4>2. api = "back" => since + timer' <= RetryGap
        BY <1>0, <3>2, <3>4, <3>6, <4>1
      <4>3. timer' <= RetryGap - RequestTimeout
        BY <3>4, <3>6
      <4>4. QED
        BY <1>0, <2>2, <2>6, <3>1, <3>2, <3>6, <4>2, <4>3
    <3>7. CASE pc' = "done" /\ result' = "error"
      BY <1>0, <2>2, <2>3, <2>6, <3>2, <3>7
    <3>8. QED
      BY <3>5, <3>6, <3>7
  <2>4. CASE outcome = "success"
    <3>1. pc' = "done" /\ result' = "ok"
      BY <2>1, <2>4 DEF Conclude
    <3>2. QED
      BY <1>0, <2>2, <2>6, <3>1
  <2>5. outcome # "permanent"
    BY <1>2, <2>2 DEF Receive
  <2>7. QED
    BY <2>1, <2>3, <2>4, <2>5
<1>3. CASE GoesDown
  BY <1>0, <1>3 DEF GoesDown, vars, callVars, backoffVars
<1>4. CASE ComesBack
  BY <1>0, <1>4 DEF ComesBack, vars, callVars, backoffVars
<1>5. CASE TimePasses
  BY <1>0, <1>5 DEF TimePasses, Pass
<1>6. CASE Returned \/ UNCHANGED allVars
  <2>1. UNCHANGED <<api, since, sound, hit, ctxDone, valid, dead, pc, inRequest, timer,
                    result, last>>
    BY <1>6 DEF Returned, Done, allVars, vars, apiVars, callVars, backoffVars
  <2>2. QED
    BY <2>1
<1>7. QED
  BY <1>1, <1>2, <1>3, <1>4, <1>5, <1>6 DEF Outage

LEMMA RecoveringHolds == OutageSpec => [](api # "any" => Recovering)
<1>1. OutageInit => (api # "any" => Recovering)
  BY RecoveringInit
<1>2. TypeOK /\ Spent /\ Tracked /\ (api # "any" => Recovering) /\ [OutageNext]_allVars
        => (api # "any" => Recovering)'
  <2> SUFFICES ASSUME TypeOK, Spent, Tracked, api # "any" => Recovering,
                      [OutageNext]_allVars, api' # "any"
               PROVE  Recovering'
    OBVIOUS
  <2>1. api # "any" /\ [Outage]_allVars
    BY DEF OutageNext, AtLarge, apiVars, allVars
  <2>2. QED
    BY <2>1, RecoveringNext
<1>3. QED
  BY <1>1, <1>2, Carried, PTL DEF OutageSpec

-----------------------------------------------------------------------------
(* Theorems                                                                *)

(* A call across an outage, or to an API that owes nothing, is one of      *)
(* FetchRetry: what Watchdog is told of a fetch holds of the calls that    *)
(* the client makes.                                                       *)
THEOREM SafelyRefinesFetchRetry == OutageSpec => Init /\ [][Next]_vars
<1>1. [OutageNext]_allVars => [Next]_vars
  BY StepIsFetchRetrys
<1>2. QED
  BY <1>1, InitIsFetchRetrys, PTL DEF OutageSpec

(* Once the API is back, the call comes to an end within Watchdog's gap    *)
(* and an answer, whatever request the outage has swallowed and however    *)
(* far the backoff has got.                                                *)
THEOREM RecoveryInTime == OutageSpec => []RecoversInTime
<1>1. TypeOK /\ Spent /\ (api # "any" => Recovering) => RecoversInTime
  BY GapPositive, AnswerAssumption, BudgetAssumption
     DEF TypeOK, Spent, Recovering, RecoversInTime
<1>2. QED
  BY <1>1, RecoveringHolds, Carried, PTL

(* A fetch fails only because of an outage, and not before MinSurrender.   *)
THEOREM FailureIsLate == OutageSpec => []FailsLate
<1>1. TypeOK /\ Tracked /\ (api # "any" => Recovering) /\ NoEarlySurrender => FailsLate
  <2> SUFFICES ASSUME TypeOK, Tracked, Recovering, NoEarlySurrender, result = "error"
               PROVE  hit /\ elapsed >= MinSurrender
    BY DEF FailsLate
  <2>1. hit /\ last = "retriable"
    BY DEF Recovering, Tracked
  <2>2. 100 * (MaxElapsed - elapsed) < (100 + JitterPercent) * interval
    BY <2>1 DEF NoEarlySurrender
  <2>3. interval \in 1..MaxInterval /\ elapsed \in Nat
    BY DEF TypeOK
  <2>4. (100 + JitterPercent) * interval <= (100 + JitterPercent) * MaxInterval
    BY <2>3, TimesMonotone, IntervalAssumption
  <2>5. /\ (100 + JitterPercent) * interval \in Int
        /\ (100 + JitterPercent) * MaxInterval \in Int
    BY <2>3, IntervalAssumption
  <2>6. 100 * (MaxElapsed - elapsed) < 100 * (MaxElapsed - MinSurrender)
    BY <2>2, <2>3, <2>4, <2>5, WatchdogAssumption, BudgetAssumption
  <2>7. QED
    BY <2>1, <2>3, <2>6, WatchdogAssumption, BudgetAssumption
<1>2. QED
  BY <1>1, RecoveringHolds, Carried, PTL
=============================================================================
