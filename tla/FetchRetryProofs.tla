-------------------------- MODULE FetchRetryProofs --------------------------
(***************************************************************************)
(* Proofs about one call of FetchResources (FetchRetry), for all backoff   *)
(* parameters, budgets, timeouts and sets of status codes.                 *)
(***************************************************************************)
EXTENDS FetchRetry, TLAPS

-----------------------------------------------------------------------------
(* The backoff                                                             *)

LEMMA TimesMonotone ==
  ASSUME NEW a \in Nat, NEW b \in Nat, NEW c \in Nat, a <= b
  PROVE  c * a <= c * b
<1>1. c * (b - a) \in Nat
  BY SMT
<1>2. c * b = c * a + c * (b - a)
  BY SMT
<1> QED BY <1>1, <1>2, SMT

(* The interval grows, and stays within its cap.                           *)
LEMMA GrowBounds ==
  ASSUME NEW d \in 1..MaxInterval
  PROVE  Grow(d) \in d..MaxInterval
<1>1. 1 * d <= Multiplier * d
  BY IntervalAssumption, SMT
<1>2. Multiplier * d \in Nat
  BY IntervalAssumption, SMT
<1> QED BY <1>1, <1>2, IntervalAssumption DEF Grow

LEMMA JitterType == ASSUME NEW d \in Nat PROVE Jitter(d) \subseteq Nat
  BY DEF Jitter

-----------------------------------------------------------------------------
(* Type correctness                                                        *)

(* The ways a request ends, and whether it is worth a retry.               *)
LEMMA RequestEnds ==
  ASSUME Request
  PROVE  \E outcome \in {"success", "retriable", "permanent"} :
           /\ Conclude(outcome, outcome = "retriable")
           /\ dead => outcome = "retriable"
<1>1. CASE Answered
  <2>1. PICK code \in Codes, decoded \in BOOLEAN : Finish(Judge(code, decoded))
    BY <1>1 DEF Answered
  <2>2. Judge(code, decoded) \in {"success", "retriable", "permanent"}
    BY DEF Judge
  <2> QED BY <1>1, <2>1, <2>2 DEF Answered, Finish
<1>2. CASE NetworkError \/ RequestTimesOut \/ RequestAborted
  BY <1>2 DEF NetworkError, RequestTimesOut, RequestAborted, Finish
<1> QED BY <1>1, <1>2 DEF Request

LEMMA TypeInit == Init => TypeOK
<1>1. InitialInterval \in 1..MaxInterval
  BY IntervalAssumption
<1>2. Init => valid \in BOOLEAN /\ ctxDone \in BOOLEAN /\ dead \in BOOLEAN
  BY DEF Init
<1>3. Init => elapsed \in Nat /\ inRequest \in Nat /\ timer \in Nat
  BY DEF Init
<1> QED BY <1>1, <1>2, <1>3 DEF Init, TypeOK

LEMMA TypeNext == TypeOK /\ [Next]_vars => TypeOK'
<1> SUFFICES ASSUME TypeOK, [Next]_vars PROVE TypeOK'
  OBVIOUS
<1> USE DEF TypeOK, Return
<1>1. CASE RejectType
  BY <1>1 DEF RejectType, callVars, backoffVars
<1>2. CASE FirstAttempt \/ NextAttempt
  BY <1>2 DEF FirstAttempt, NextAttempt, Attempt, backoffVars
<1>3. CASE WaitCancelled
  BY <1>3 DEF WaitCancelled, callVars, backoffVars
<1>4. CASE Request
  <2>1. PICK outcome \in {"success", "retriable", "permanent"} :
          Conclude(outcome, outcome = "retriable")
    BY <1>4, RequestEnds
  <2>2. interval \in 1..MaxInterval
    BY IntervalAssumption
  <2>3. CASE outcome = "retriable"
    <3>1. PICK d \in Jitter(interval) : Backoff(d)
      BY <2>1, <2>3 DEF Conclude
    <3>2. d \in Nat /\ Grow(interval) \in 1..MaxInterval
      BY <2>2, JitterType, GrowBounds
    <3> QED BY <2>1, <3>1, <3>2 DEF Conclude, Backoff, BackoffUnless, callVars, backoffVars
  <2>4. CASE outcome # "retriable"
    BY <2>1, <2>4 DEF Conclude, callVars, backoffVars
  <2> QED BY <2>3, <2>4
<1>5. CASE Pass
  BY <1>5 DEF Pass
<1>6. CASE Cancel
  BY <1>6 DEF Cancel, backoffVars
<1>7. CASE UNCHANGED vars
  BY <1>7 DEF vars, callVars, backoffVars
<1> QED BY <1>1, <1>2, <1>3, <1>4, <1>5, <1>6, <1>7 DEF Next, Client, Done

(* The variables of the call keep their types.                             *)
THEOREM TypeCorrect == Spec => []TypeOK
  BY TypeInit, TypeNext, PTL DEF Spec

-----------------------------------------------------------------------------
(* The budget                                                              *)

(* What has been spent in each phase: a wait ends within the budget and a  *)
(* request begins within it.                                               *)
Spent ==
  /\ pc = "call" => elapsed = 0
  /\ pc = "wait" => elapsed + timer <= MaxElapsed
  /\ pc = "request" => /\ elapsed - inRequest <= MaxElapsed
                       /\ inRequest <= RequestTimeout
  /\ elapsed <= MaxElapsed + RequestTimeout

LEMMA SpentNext == TypeOK /\ Spent /\ [Next]_vars => Spent'
<1> SUFFICES ASSUME TypeOK, Spent, [Next]_vars PROVE Spent'
  OBVIOUS
<1> USE BudgetAssumption DEF Spent, Return
<1>1. elapsed \in Nat /\ timer \in Nat /\ inRequest \in Nat /\ interval \in Nat
  BY IntervalAssumption DEF TypeOK
<1>2. CASE FirstAttempt \/ NextAttempt
  BY <1>1, <1>2 DEF FirstAttempt, NextAttempt, Attempt, backoffVars
<1>3. CASE Request
  <2>1. PICK outcome : Conclude(outcome, outcome = "retriable")
    BY <1>3, RequestEnds
  <2>2. CASE outcome = "retriable"
    <3>1. PICK d \in Jitter(interval) : Backoff(d)
      BY <2>1, <2>2 DEF Conclude
    <3>2. d \in Nat
      BY <1>1, JitterType
    <3> QED BY <1>1, <2>1, <3>1, <3>2 DEF Conclude, Backoff, BackoffUnless, callVars
  <2>3. CASE outcome # "retriable"
    BY <2>1, <2>3 DEF Conclude, callVars
  <2> QED BY <2>2, <2>3
<1>4. CASE Pass
  BY <1>1, <1>4 DEF Pass
<1>5. CASE RejectType \/ WaitCancelled
  BY <1>5 DEF RejectType, WaitCancelled, callVars, backoffVars
<1>6. CASE Cancel \/ UNCHANGED vars
  BY <1>6 DEF Cancel, vars, callVars, backoffVars
<1> QED BY <1>2, <1>3, <1>4, <1>5, <1>6 DEF Next, Client, Done

(* A fetch is over after its budget and one request timeout at the latest. *)
THEOREM BudgetKept == Spec => []WithinBudget
<1>1. Init => Spent
  BY BudgetAssumption DEF Init, Spent
<1>2. Spent => WithinBudget
  BY DEF Spent, WithinBudget
<1> QED BY <1>1, <1>2, TypeCorrect, SpentNext, PTL DEF Spec

-----------------------------------------------------------------------------
(* What a request may be followed by, and what comes of a dead one         *)

(* Only a retriable outcome leads to a wait, and a request sent under a    *)
(* done context leads to nothing but a cancelled call.                     *)
Tracked ==
  /\ pc = "call" => last = "none"
  /\ pc = "wait" => last = "retriable"
  /\ pc # "done" => result = "none"
  /\ dead => /\ ctxDone
             /\ pc \in {"request", "done"}
             /\ pc = "done" => result = "cancelled"

LEMMA TrackedNext == Tracked /\ [Next]_vars => Tracked'
<1> SUFFICES ASSUME Tracked, [Next]_vars PROVE Tracked'
  OBVIOUS
<1> USE DEF Tracked, Return
<1>1. CASE FirstAttempt \/ NextAttempt
  BY <1>1 DEF FirstAttempt, NextAttempt, Attempt
<1>2. CASE Request
  <2>1. PICK outcome \in {"success", "retriable", "permanent"} :
          /\ Conclude(outcome, outcome = "retriable")
          /\ dead => outcome = "retriable"
    BY <1>2, RequestEnds
  <2>2. CASE outcome = "retriable"
    <3>1. PICK d \in Jitter(interval) : Backoff(d)
      BY <2>1, <2>2 DEF Conclude
    <3> QED BY <2>1, <2>2, <3>1 DEF Conclude, Backoff, BackoffUnless, callVars
  <2>3. CASE outcome # "retriable"
    BY <2>1, <2>3 DEF Conclude, callVars
  <2> QED BY <2>2, <2>3
<1>3. CASE Pass
  BY <1>3 DEF Pass
<1>4. CASE RejectType \/ WaitCancelled
  BY <1>4 DEF RejectType, WaitCancelled, callVars
<1>5. CASE Cancel \/ UNCHANGED vars
  BY <1>5 DEF Cancel, vars, callVars
<1> QED BY <1>1, <1>2, <1>3, <1>4, <1>5 DEF Next, Client, Done

LEMMA TrackedHolds == Spec => []Tracked
<1>1. Init => Tracked
  BY DEF Init, Tracked
<1> QED BY <1>1, TrackedNext, PTL DEF Spec

(* What was requested under a done context never yields a result.          *)
THEOREM DeadRequestsCancelled == Spec => []DeadRequestIsCancelled
<1>1. Tracked => DeadRequestIsCancelled
  BY DEF Tracked, DeadRequestIsCancelled
<1> QED BY <1>1, TrackedHolds, PTL

(* An answer that is not worth retrying is followed by no other request.   *)
THEOREM NoRetryOfPermanent == Spec => PermanentEndsCall
<1>1. Tracked /\ [Next]_vars =>
        [(pc # "request" /\ pc' = "request") => last \in {"none", "retriable"}]_vars
  BY DEF Tracked, Next, Client, Request, RejectType, WaitCancelled, FirstAttempt,
         NextAttempt, Answered, NetworkError, RequestTimesOut, RequestAborted, Finish,
         Conclude, Pass, Cancel, Done, Return
<1> QED BY <1>1, TrackedHolds, PTL DEF Spec, PermanentEndsCall

-----------------------------------------------------------------------------
(* No early surrender                                                      *)

LEMMA SurrenderNext ==
  TypeOK /\ Tracked /\ NoEarlySurrender /\ [Next]_vars => NoEarlySurrender'
<1> SUFFICES ASSUME TypeOK, Tracked, NoEarlySurrender, [Next]_vars
             PROVE  NoEarlySurrender'
  OBVIOUS
<1> USE DEF NoEarlySurrender, Return, Tracked
<1>1. elapsed \in Nat /\ interval \in 1..MaxInterval
  BY DEF TypeOK
<1>2. CASE FirstAttempt \/ NextAttempt
  BY <1>2 DEF FirstAttempt, NextAttempt, Attempt
<1>3. CASE Request
  <2>1. PICK outcome \in {"success", "retriable", "permanent"} :
          Conclude(outcome, outcome = "retriable")
    BY <1>3, RequestEnds
  <2>2. pc = "request" /\ result = "none"
    BY <2>1 DEF Conclude
  <2>3. CASE outcome = "retriable"
    <3>1. PICK d \in Jitter(interval) : Backoff(d)
      BY <2>1, <2>3 DEF Conclude
    <3>2. CASE ~ctxDone /\ elapsed + d > MaxElapsed
      <4>1. d \in Nat /\ 100 * d <= (100 + JitterPercent) * interval
        BY DEF Jitter
      <4>2. (100 + JitterPercent) * interval <= (100 + JitterPercent) * Grow(interval)
        BY <1>1, GrowBounds, TimesMonotone, IntervalAssumption
      <4>3. elapsed' = elapsed /\ interval' = Grow(interval)
        BY <2>1, <3>1, <3>2 DEF Conclude, Backoff, BackoffUnless, callVars
      <4>4. 100 * (MaxElapsed - elapsed) < 100 * d
        BY <1>1, <3>2, <4>1, BudgetAssumption
      <4>5. /\ (100 + JitterPercent) * interval \in Int
            /\ (100 + JitterPercent) * Grow(interval) \in Int
        BY <1>1, GrowBounds, IntervalAssumption
      <4>6. 100 * (MaxElapsed - elapsed) < (100 + JitterPercent) * Grow(interval)
        BY <1>1, <4>1, <4>2, <4>4, <4>5, BudgetAssumption
      <4>7. pc' = "done"
        BY <3>1, <3>2 DEF Backoff, BackoffUnless
      <4> QED BY <4>3, <4>6, <4>7
    <3>3. CASE ctxDone \/ ~(elapsed + d > MaxElapsed)
      BY <2>2, <3>1, <3>3 DEF Backoff, BackoffUnless
    <3> QED BY <3>2, <3>3
  <2>4. CASE outcome # "retriable"
    BY <2>1, <2>4 DEF Conclude
  <2> QED BY <2>3, <2>4
<1>4. CASE Pass
  BY <1>4 DEF Pass
<1>5. CASE RejectType
  BY <1>5 DEF RejectType
<1>6. CASE WaitCancelled
  BY <1>6 DEF WaitCancelled
<1>7. CASE Cancel \/ UNCHANGED vars
  BY <1>7 DEF Cancel, vars, callVars, backoffVars
<1> QED BY <1>2, <1>3, <1>4, <1>5, <1>6, <1>7 DEF Next, Client, Done

(* The client gives up on a transient failure only when the next wait,     *)
(* drawn at its longest, would not have fitted in the budget.              *)
THEOREM BudgetUsed == Spec => []NoEarlySurrender
<1>1. Init => NoEarlySurrender
  BY DEF Init, NoEarlySurrender
<1> QED BY <1>1, TypeCorrect, TrackedHolds, SurrenderNext, PTL DEF Spec

-----------------------------------------------------------------------------
(* Termination                                                             *)

(* What is left of a call: three steps for each unit of time that it may   *)
(* still take (the unit itself, a request, a wait), those from its place   *)
(* to the next unit, and one if it may still be cancelled.                 *)
Left  == MaxElapsed + RequestTimeout - elapsed
Place == IF pc = "call" THEN 2 ELSE IF pc = "request" THEN 1
         ELSE IF timer = 0 THEN 2 ELSE 0
StepsLeft ==
  IF pc = "done" THEN 0 ELSE 3 * Left + Place + (IF ctxDone THEN 1 ELSE 2)

LEMMA WaitsAreWaits == ASSUME NEW d \in Nat, NEW n \in Jitter(d) PROVE n \in Nat /\ n > 0
  BY DEF Jitter

LEMMA StepCounts ==
  ASSUME TypeOK, Spent, [Next]_vars, ~UNCHANGED vars, pc # "done"
  PROVE  StepsLeft' < StepsLeft
<1> USE BudgetAssumption DEF Return, StepsLeft, Place, Left
<1>1. /\ elapsed \in Nat /\ timer \in Nat /\ interval \in Nat
      /\ elapsed <= MaxElapsed + RequestTimeout /\ Left \in Nat
  BY IntervalAssumption DEF TypeOK, Spent
<1>2. CASE RejectType \/ WaitCancelled
  <2>1. pc' = "done"
    BY <1>2 DEF RejectType, WaitCancelled
  <2>2. QED
    BY <1>1, <2>1
<1>3. CASE FirstAttempt \/ NextAttempt
  BY <1>1, <1>3 DEF FirstAttempt, NextAttempt, Attempt
<1>4. CASE Request
  <2>1. PICK outcome : Conclude(outcome, outcome = "retriable")
    BY <1>4, RequestEnds
  <2>2. pc = "request" /\ UNCHANGED <<elapsed, ctxDone>>
    BY <2>1 DEF Conclude, callVars
  <2>3. pc' = "done" \/ (pc' = "wait" /\ timer' \in Nat /\ timer' > 0)
    <3>1. CASE outcome = "retriable"
      <4>1. PICK d \in Jitter(interval) : Backoff(d)
        BY <2>1, <3>1 DEF Conclude
      <4>2. d \in Nat /\ d > 0
        BY <1>1, WaitsAreWaits
      <4>3. QED
        BY <4>1, <4>2 DEF Backoff, BackoffUnless
    <3>2. CASE outcome # "retriable"
      BY <2>1, <3>2 DEF Conclude
    <3>3. QED
      BY <3>1, <3>2
  <2>4. QED
    BY <1>1, <2>2, <2>3
<1>5. CASE Pass
  BY <1>1, <1>5 DEF Pass
<1>6. CASE Cancel
  BY <1>1, <1>6 DEF Cancel, backoffVars
<1>7. QED
  BY <1>2, <1>3, <1>4, <1>5, <1>6 DEF Next, Client, Done

(* A call cannot go on for ever, whatever the API answers and whatever the *)
(* jitter draws: each of its steps leaves fewer to come, from a number     *)
(* that the budget and the request timeout give. Hence it returns if only  *)
(* some step is taken while it is out, which is what Returns needs the     *)
(* fairness for.                                                           *)
THEOREM CallRunsOut ==
  Spec => /\ [](StepsLeft \in 0..(3 * (MaxElapsed + RequestTimeout) + 4))
          /\ [][pc # "done" => StepsLeft' < StepsLeft]_vars
<1>1. Init => Spent
  BY BudgetAssumption DEF Init, Spent
<1>2. TypeOK /\ Spent => StepsLeft \in 0..(3 * (MaxElapsed + RequestTimeout) + 4)
  BY BudgetAssumption DEF TypeOK, Spent, StepsLeft, Left, Place
<1>3. TypeOK /\ Spent /\ [Next]_vars => [pc # "done" => StepsLeft' < StepsLeft]_vars
  BY StepCounts
<1>4. QED
  BY <1>1, <1>2, <1>3, TypeCorrect, SpentNext, PTL DEF Spec
=============================================================================
