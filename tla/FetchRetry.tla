----------------------------- MODULE FetchRetry -----------------------------
(***************************************************************************)
(* One call of HyperFleetClient.FetchResources (internal/client/client.go):*)
(* requests to the API under exponential backoff with jitter, a budget for *)
(* the whole call, a timeout per request, and a context that may be        *)
(* cancelled at any moment. backoff.Retry is a library: it is modelled     *)
(* from the options the client gives it. Time is counted in small units;   *)
(* what the process computes takes none of it.                             *)
(***************************************************************************)
EXTENDS Integers

CONSTANTS
  InitialInterval,  \* DefaultInitialInterval
  MaxInterval,      \* DefaultMaxInterval
  Multiplier,       \* DefaultMultiplier
  JitterPercent,    \* DefaultRandomizationFactor, in percent
  MaxElapsed,       \* DefaultMaxElapsedTime
  RequestTimeout,   \* clients.hyperfleet_api.timeout
  Codes             \* the HTTP status codes the API may answer with

ASSUME IntervalAssumption ==
  /\ InitialInterval \in Nat \ {0} /\ MaxInterval \in Nat \ {0}
  /\ InitialInterval <= MaxInterval
  /\ Multiplier \in Nat \ {0} /\ JitterPercent \in 0..99
ASSUME BudgetAssumption == MaxElapsed \in Nat /\ RequestTimeout \in Nat \ {0}
ASSUME CodesAssumption  == Codes \subseteq 100..599

VARIABLES
  pc,         \* "call", "request", "wait" or "done"
  valid,      \* resourceType is one the client knows
  ctxDone,    \* the caller's context has been cancelled
  dead,       \* the context was already done when the request was sent
  elapsed,    \* time since the call
  inRequest,  \* time since the request was sent
  interval,   \* the backoff's current interval
  timer,      \* time left before the next attempt
  last,       \* history: what the last attempt came to
  result      \* what FetchResources returned

backoffVars == <<interval, timer>>
callVars    == <<valid, ctxDone, dead, elapsed, inRequest>>
vars        == <<pc, callVars, backoffVars, last, result>>

IsHTTPStatusRetriable(code) == code \in 500..599 \cup {429, 408}

(* How fetchClusters and fetchNodePools judge an answer whose body did (or *)
(* did not) decode into the 200 schema.                                    *)
Judge(code, decoded) ==
  IF code >= 400
  THEN IF IsHTTPStatusRetriable(code) THEN "retriable" ELSE "permanent"
  ELSE IF code = 200 /\ decoded THEN "success" ELSE "permanent"

(* Fault: the wait is drawn from twice the interval, whatever the factor.  *)
JitterFull(d) == 1..(2 * d)

(* The backoff draws the wait around its interval, then lengthens that.    *)
Jitter(d) == {n \in 1..(2 * d) : /\ 100 * n >= (100 - JitterPercent) * d
                                 /\ 100 * n <= (100 + JitterPercent) * d}

(* Fault: the interval is not capped.                                      *)
GrowUncapped(d) == Multiplier * d

Grow(d) == IF Multiplier * d >= MaxInterval THEN MaxInterval ELSE Multiplier * d

Init ==
  /\ pc = "call" /\ valid \in BOOLEAN /\ ctxDone \in BOOLEAN
  /\ dead = FALSE /\ elapsed = 0 /\ inRequest = 0
  /\ interval = InitialInterval /\ timer = 0
  /\ last = "none" /\ result = "none"

Cancel ==
  /\ ~ctxDone /\ ctxDone' = TRUE
  /\ UNCHANGED <<pc, valid, dead, elapsed, inRequest, backoffVars, last, result>>

Return(r) == pc' = "done" /\ result' = r

RejectType ==
  pc = "call" /\ ~valid /\ Return("error") /\ UNCHANGED <<callVars, backoffVars, last>>

(* backoff.Retry runs the operation; it does not look at the context first.*)
Attempt ==
  /\ pc' = "request" /\ inRequest' = 0
  /\ dead' = ctxDone
  /\ UNCHANGED <<valid, ctxDone, elapsed, backoffVars, last, result>>

FirstAttempt == pc = "call" /\ valid /\ Attempt
NextAttempt  == pc = "wait" /\ timer = 0 /\ Attempt

(* A retriable error: the call is over if the context is done, or if the   *)
(* next wait is held to go past the budget; else it waits.                 *)
BackoffUnless(d, tooLate) ==
  IF ctxDone THEN Return("cancelled") /\ UNCHANGED backoffVars
  ELSE /\ interval' = Grow(interval)
       /\ IF tooLate THEN Return("error") /\ UNCHANGED timer
          ELSE pc' = "wait" /\ timer' = d /\ UNCHANGED result

(* Faults: the wait is not held against the budget; it is held twice.      *)
BackoffPastBudget(d)  == BackoffUnless(d, elapsed > MaxElapsed)
BackoffTooCautious(d) == BackoffUnless(d, elapsed + d + RequestTimeout > MaxElapsed)

Backoff(d) == BackoffUnless(d, elapsed + d > MaxElapsed)

(* The operation came to an outcome, which is or is not worth a retry.     *)
Conclude(outcome, retry) ==
  /\ pc = "request" /\ last' = outcome
  /\ IF retry THEN \E d \in Jitter(interval) : Backoff(d)
     ELSE /\ Return(IF outcome = "success" THEN "ok" ELSE "error")
          /\ UNCHANGED backoffVars
  /\ UNCHANGED callVars

(* Fault: backoff.Permanent is forgotten.                                  *)
RetryAll(outcome) == Conclude(outcome, outcome # "success")

Finish(outcome) == Conclude(outcome, outcome = "retriable")

(* Fault: the request is built without the context.                        *)
AnsweredAnyway ==
  \E code \in Codes, decoded \in BOOLEAN : Finish(Judge(code, decoded))

(* The API answers; under a context that was done when the request was     *)
(* sent the transport has refused before anything can be answered.         *)
Answered ==
  ~dead /\ \E code \in Codes, decoded \in BOOLEAN : Finish(Judge(code, decoded))

(* Connection errors and bodies that do not parse as JSON are both taken   *)
(* for network errors.                                                     *)
NetworkError == ~dead /\ Finish("retriable")

(* Fault: the HTTP client has no timeout.                                  *)
NoTimeout == inRequest > RequestTimeout /\ Finish("retriable")

RequestTimesOut == inRequest = RequestTimeout /\ Finish("retriable")
RequestAborted  == ctxDone /\ Finish("retriable")

WaitCancelled ==
  /\ pc = "wait" /\ ctxDone
  /\ Return("cancelled")
  /\ UNCHANGED <<callVars, backoffVars, last>>

(* Time passes while a request is out or a timer runs; a timer that is due *)
(* and a cancelled context are acted upon before it does.                  *)
Pass ==
  /\ ~ctxDone
  /\ \/ pc = "request" /\ inRequest < RequestTimeout
        /\ inRequest' = inRequest + 1 /\ UNCHANGED timer
     \/ pc = "wait" /\ timer > 0
        /\ timer' = timer - 1 /\ UNCHANGED inRequest
  /\ elapsed' = elapsed + 1
  /\ UNCHANGED <<pc, valid, ctxDone, dead, interval, last, result>>

Done == pc = "done" /\ UNCHANGED vars

Client  == RejectType \/ FirstAttempt \/ NextAttempt \/ WaitCancelled
Request == Answered \/ NetworkError \/ RequestTimesOut \/ RequestAborted

Next == Client \/ Request \/ Pass \/ Cancel \/ Done

(* The call's goroutine runs, time passes, and a request that has timed    *)
(* out or whose context is done ends; the API owes no answer.              *)
Fairness ==
  /\ WF_vars(Client) /\ WF_vars(Pass)
  /\ WF_vars(RequestTimesOut) /\ WF_vars(RequestAborted)

Spec == Init /\ [][Next]_vars /\ Fairness

-----------------------------------------------------------------------------
(* Properties                                                              *)

TypeOK ==
  /\ pc \in {"call", "request", "wait", "done"}
  /\ valid \in BOOLEAN /\ ctxDone \in BOOLEAN /\ dead \in BOOLEAN
  /\ elapsed \in Nat /\ inRequest \in Nat /\ timer \in Nat
  /\ interval \in 1..MaxInterval
  /\ last \in {"none", "success", "retriable", "permanent"}
  /\ result \in {"none", "ok", "error", "cancelled"}

(* The poll cycle is not held up for ever by a failing API: the budget     *)
(* covers the waits, and only a request already begun may run past it, by  *)
(* no more than its own timeout.                                           *)
WithinBudget == elapsed <= MaxElapsed + RequestTimeout

(* The client does not give up on a transient failure while its budget     *)
(* would have let it try again, even after the longest wait it could draw. *)
NoEarlySurrender ==
  (result = "error" /\ last = "retriable") =>
    100 * (MaxElapsed - elapsed) < (100 + JitterPercent) * interval

(* An answer that is not worth retrying (4xx but 408 and 429, or a success *)
(* without the expected body) is never followed by another request.        *)
PermanentEndsCall ==
  [][(pc # "request" /\ pc' = "request") => last \in {"none", "retriable"}]_vars

(* A request sent under a done context never yields a result: what was     *)
(* begun after a shutdown request comes back as cancelled.                 *)
DeadRequestIsCancelled == dead => result \in {"none", "cancelled"}

(* FetchResources returns, whatever the API does.                          *)
Returns == <>(pc = "done")

(* docs/runbook.md: "Max elapsed time: 30 seconds total".                  *)
TotalWithinMaxElapsed == elapsed <= MaxElapsed
=============================================================================
