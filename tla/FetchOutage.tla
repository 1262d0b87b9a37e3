---------------------------- MODULE FetchOutage ----------------------------
(***************************************************************************)
(* A call of FetchRetry to an API that is down once, from before the call  *)
(* or from some time in it: then every request is lost or answered with an *)
(* error that is worth a retry. What Watchdog takes for granted of a fetch *)
(* is stated here, over the client's backoff. A call to an API that owes   *)
(* nothing, under a context that may be cancelled, is FetchRetry as it is. *)
(***************************************************************************)
EXTENDS FetchRetry

CONSTANTS
  AnswerTime,    \* what an API that is up needs to answer, at most
  RetryGap,      \* Watchdog's bounds: to an attempt after a recovery,
  MinSurrender   \* and of a call that fails

ASSUME AnswerAssumption   == AnswerTime \in 0..RequestTimeout
ASSUME WatchdogAssumption ==
  /\ RetryGap \in Nat /\ MinSurrender \in Nat
  /\ 100 * (RetryGap - RequestTimeout) >= (100 + JitterPercent) * MaxInterval
  /\ 100 * (MaxElapsed - MinSurrender) >= (100 + JitterPercent) * MaxInterval

VARIABLES
  api,    \* "up", "down" or, after the outage, "back"; "any" if it owes nothing
  sound,  \* the request that is out was sent to an API that has been up since
  hit,    \* the API was down during this call
  since   \* time since it came back

apiVars == <<api, sound, hit, since>>

OutageInit ==
  /\ Init /\ api \in {"any", "up", "down"}
  /\ api # "any" => valid /\ ~ctxDone
  /\ hit = (api = "down")
  /\ sound = FALSE /\ since = 0

Send ==
  /\ FirstAttempt \/ NextAttempt
  /\ sound' = (api # "down")
  /\ UNCHANGED <<api, hit, since>>

(* A request that an outage has met may also be answered late.             *)
Receive ==
  /\ Request
  /\ IF sound THEN last' = "success"
     ELSE last' = "retriable" \/ (last' = "success" /\ api # "down")
  /\ sound' = FALSE
  /\ UNCHANGED <<api, hit, since>>

GoesDown ==
  /\ pc # "done" /\ api = "up" /\ api' = "down"
  /\ hit' = TRUE /\ sound' = FALSE
  /\ UNCHANGED <<vars, since>>

ComesBack ==
  /\ pc # "done" /\ api = "down" /\ api' = "back"
  /\ UNCHANGED <<vars, sound, hit, since>>

TimePasses ==
  /\ Pass /\ (sound => inRequest < AnswerTime)
  /\ since' = IF api = "back" THEN since + 1 ELSE since
  /\ UNCHANGED <<api, sound, hit>>

Returned == Done /\ UNCHANGED apiVars

Outage  == Send \/ Receive \/ GoesDown \/ ComesBack \/ TimePasses \/ Returned
AtLarge(A) == api = "any" /\ A /\ UNCHANGED apiVars

OutageNext == AtLarge(Next) \/ (api # "any" /\ Outage)

allVars == <<vars, apiVars>>

(* The fairness of FetchRetry.                                             *)
OutageFairness ==
  /\ WF_allVars(AtLarge(Client)) /\ WF_allVars(AtLarge(Pass))
  /\ WF_allVars(AtLarge(RequestTimesOut)) /\ WF_allVars(AtLarge(RequestAborted))
  /\ WF_allVars(api # "any" /\ Send) /\ WF_allVars(api # "any" /\ TimePasses)
  /\ WF_allVars(sound /\ inRequest = AnswerTime /\ Receive)
  /\ WF_allVars(api # "any" /\ RequestTimesOut /\ Receive)

OutageSpec == OutageInit /\ [][OutageNext]_allVars /\ OutageFairness

-----------------------------------------------------------------------------
(* Properties                                                              *)

(* An API that has come back is asked again soon: neither a request it has *)
(* lost nor the longest wait the backoff may have drawn, nor both, hold    *)
(* the call up for longer than Watchdog allows for.                        *)
RecoversInTime ==
  api = "back" /\ pc # "done" => since <= RetryGap + AnswerTime

(* Only an outage makes a fetch fail, and not before the retries have used *)
(* their time: the cycles spoiled by an outage are few.                    *)
FailsLate == api # "any" /\ result = "error" => hit /\ elapsed >= MinSurrender
=============================================================================
