--------------------------- MODULE SentinelProofs ---------------------------
(***************************************************************************)
(* Proofs about the polling loop (Sentinel), for every set of IDs and all  *)
(* bounds on the length of a response and on the number of ticks.          *)
(***************************************************************************)
EXTENDS Sentinel, TLAPS, FiniteSetTheorems

-----------------------------------------------------------------------------
(* The helpers                                                             *)

(* One more entry adds one to a count if it is one of those counted.       *)
LEMMA CountAppend ==
  ASSUME NEW T, NEW s \in Seq(T), NEW o, NEW S
  PROVE  Count(Append(s, o), S) = Count(s, S) + (IF o \in S THEN 1 ELSE 0)
<1> DEFINE n == Len(s)
           A == {k \in 1..n : s[k] \in S}
           B == {k \in 1..(n + 1) : Append(s, o)[k] \in S}
<1>1. n \in Nat /\ Len(Append(s, o)) = n + 1
  OBVIOUS
<1>2. \A k \in 1..n : Append(s, o)[k] = s[k]
  OBVIOUS
<1>3. Append(s, o)[n + 1] = o
  OBVIOUS
<1>4. IsFiniteSet(A)
  <2>1. IsFiniteSet(1..n)
    BY <1>1, FS_Interval
  <2> QED BY <2>1, FS_Subset
<1>5. n + 1 \notin A
  BY <1>1
<1>6. CASE o \in S
  <2>1. B = A \cup {n + 1}
    BY <1>1, <1>2, <1>3, <1>6
  <2>2. Cardinality(B) = Cardinality(A) + 1
    BY <1>4, <1>5, <2>1, FS_AddElement
  <2> QED BY <1>1, <1>6, <2>2 DEF Count
<1>7. CASE o \notin S
  <2>1. B = A
    BY <1>1, <1>2, <1>3, <1>7
  <2>2. Cardinality(A) \in Nat
    BY <1>4, FS_CardinalityType
  <2>3. Count(Append(s, o), S) = Count(s, S)
    BY <1>1, <2>1 DEF Count
  <2>4. Count(s, S) \in Nat
    BY <2>2 DEF Count
  <2> QED BY <1>7, <2>3, <2>4
<1> QED BY <1>6, <1>7

(* An empty sequence has nothing to count.                                 *)
LEMMA CountEmpty == \A S : Count(<<>>, S) = 0
<1> TAKE S
<1>1. {k \in 1..Len(<<>>) : <<>>[k] \in S} = {}
  OBVIOUS
<1> QED BY <1>1, FS_EmptySet DEF Count

LEMMA CountType ==
  ASSUME NEW T, NEW s \in Seq(T), NEW S
  PROVE  Count(s, S) \in Nat
<1>1. IsFiniteSet(1..Len(s))
  BY FS_Interval
<1>2. IsFiniteSet({k \in 1..Len(s) : s[k] \in S})
  BY <1>1, FS_Subset
<1> QED BY <1>2, FS_CardinalityType DEF Count

-----------------------------------------------------------------------------
(* Type correctness                                                        *)

(* Every step that is not one of the environment's or of the goroutine's   *)
(* end starts a cycle, ends a fetch, ends an iteration or is one of the    *)
(* steps on the way to an event.                                           *)
LEMMA Steps ==
  ASSUME Next
  PROVE  \/ TickerFires \/ Cancel
         \/ InitialTrigger \/ TakeTick
         \/ FetchSucceeds \/ APIFails \/ FetchCancelled
         \/ StartEvaluate \/ SkipEmptyId \/ SkipNotDue \/ DecideToPublish
         \/ BuildFails \/ StartPublish \/ BrokerTakes
         \/ PublishReturnsNil \/ PublishReturnsError
         \/ FinishCycle \/ Stop \/ Stopped
  BY DEF Next, Progress, Iterate

(* Adding one to a counter leaves the metrics a record of counters.        *)
LEMMA IncType ==
  ASSUME TypeOK, NEW m \in {"apiErrors", "brokerErrors", "eventsPublished",
                            "resourcesSkipped", "polls"}
  PROVE  /\ Inc(m) \in Metrics
         /\ Inc(m)[m] = metrics[m] + 1
         /\ \A x \in {"apiErrors", "brokerErrors", "eventsPublished",
                      "resourcesSkipped", "polls"} : x # m => Inc(m)[x] = metrics[x]
<1>1. metrics \in Metrics
  BY DEF TypeOK
<1> QED BY <1>1 DEF Inc, Metrics

LEMMA PagesAreSequences == Pages \subseteq Seq(Item)
  BY BoundAssumption DEF Pages

LEMMA EmptyType == \A T : <<>> \in Seq(T)
  OBVIOUS

LEMMA EndIterationType ==
  ASSUME TypeOK, NEW o \in Outcomes, NEW m \in Metrics, NEW ended,
         EndIteration(o, m, ended)
  PROVE  TypeOK'
<1>1. outcome' \in Seq(Outcomes)
  BY DEF EndIteration, TypeOK
<1> QED BY <1>1 DEF EndIteration, TypeOK, envVars, histVars

LEMMA BeginCycleType ==
  ASSUME TypeOK, BeginCycle, tick' \in BOOLEAN
  PROVE  TypeOK'
<1>1. page' \in Seq(Item) /\ outcome' \in Seq(Outcomes)
  BY EmptyType DEF BeginCycle
<1> QED BY <1>1 DEF BeginCycle, TypeOK

LEMMA TypeInit == Init => TypeOK
<1> SUFFICES ASSUME Init PROVE TypeOK
  OBVIOUS
<1>1. page \in Seq(Item) /\ outcome \in Seq(Outcomes)
  BY EmptyType DEF Init
<1>2. delivered \subseteq Nat \X Nat /\ spans \subseteq {"poll", "evaluate", "publish"}
  BY DEF Init
<1>3. metrics \in Metrics
  BY DEF Init, Metrics
<1> QED BY <1>1, <1>2, <1>3 DEF Init, TypeOK

LEMMA TypeNext == TypeOK /\ [Next]_vars => TypeOK'
<1> SUFFICES ASSUME TypeOK, [Next]_vars PROVE TypeOK'
  OBVIOUS
<1> USE DEF TypeOK
<1>1. CASE TickerFires
  BY <1>1 DEF TickerFires, loopVars, histVars
<1>2. CASE Cancel
  BY <1>2 DEF Cancel, loopVars, histVars
<1>3. CASE InitialTrigger \/ TakeTick
  <2>1. tick' \in BOOLEAN /\ BeginCycle
    BY <1>3 DEF InitialTrigger, TakeTick
  <2> QED BY <2>1, BeginCycleType
<1>4. CASE FetchSucceeds
  BY <1>4, PagesAreSequences DEF FetchSucceeds, FetchAnswered, envVars, histVars
<1>5. CASE APIFails \/ FetchCancelled
  BY <1>5, IncType DEF APIFails, FetchCancelled, FetchFails, FetchReturns,
                       envVars, loopVars
<1>6. CASE SkipEmptyId \/ SkipNotDue
  BY <1>6, IncType, EndIterationType DEF SkipEmptyId, SkipNotDue, Outcomes
<1>7. CASE DecideToPublish
  BY <1>7 DEF DecideToPublish, CountPending, envVars, histVars
<1>8. CASE BuildFails
  BY <1>8, EndIterationType DEF BuildFails, Outcomes
<1>9. CASE StartEvaluate \/ StartPublish
  BY <1>9 DEF StartEvaluate, StartPublish, envVars, loopVars, histVars
<1>10. CASE BrokerTakes
  BY <1>10 DEF BrokerTakes, Index, envVars, loopVars
<1>11. CASE PublishReturnsNil \/ PublishReturnsError
  BY <1>11, IncType, EndIterationType DEF PublishReturnsNil, PublishReturnsError, Outcomes
<1>12. CASE FinishCycle
  <2>1. [Inc("polls") EXCEPT !.pendingGauge = pending] \in Metrics
    BY IncType DEF Metrics
  <2> QED BY <1>12, <2>1 DEF FinishCycle, EndCycle, envVars, loopVars
<1>13. CASE Stop
  BY <1>13 DEF Stop, envVars, loopVars, histVars
<1>14. CASE UNCHANGED vars
  BY <1>14 DEF vars, envVars, loopVars, histVars
<1> QED
  BY <1>1, <1>2, <1>3, <1>4, <1>5, <1>6, <1>7, <1>8, <1>9, <1>10, <1>11,
     <1>12, <1>13, <1>14, Steps DEF Stopped

(* The variables of the loop keep their types.                             *)
THEOREM TypeCorrect == Spec => []TypeOK
  BY TypeInit, TypeNext, PTL DEF Spec

-----------------------------------------------------------------------------
(* Every cycle is accounted for                                            *)

LEMMA AccountedNext == TypeOK /\ CyclesAccounted /\ [Next]_vars => CyclesAccounted'
<1> SUFFICES ASSUME TypeOK, CyclesAccounted, [Next]_vars PROVE CyclesAccounted'
  OBVIOUS
<1> USE DEF CyclesAccounted, InCycle
<1>1. cycle \in Nat /\ metrics \in Metrics
  BY DEF TypeOK
<1>2. CASE InitialTrigger \/ TakeTick
  BY <1>1, <1>2 DEF InitialTrigger, TakeTick, BeginCycle, Metrics
<1>3. CASE APIFails \/ FetchCancelled
  BY <1>1, <1>3, IncType DEF APIFails, FetchCancelled, FetchFails, FetchReturns, Metrics
<1>4. CASE SkipEmptyId \/ SkipNotDue \/ BuildFails \/ PublishReturnsNil \/ PublishReturnsError
  <2>1. /\ cycle' = cycle /\ InCycle /\ pc' = "evaluate"
        /\ metrics' \in {metrics, Inc("resourcesSkipped"), Inc("eventsPublished"),
                         Inc("brokerErrors")}
    BY <1>4 DEF SkipEmptyId, SkipNotDue, BuildFails, PublishReturnsNil,
                PublishReturnsError, EndIteration, histVars
  <2>2. metrics'.polls = metrics.polls /\ metrics'.apiErrors = metrics.apiErrors
    BY <2>1, IncType
  <2> QED BY <2>1, <2>2
<1>5. CASE FinishCycle
  <2>1. metrics'.polls = metrics.polls + 1 /\ metrics'.apiErrors = metrics.apiErrors
    BY <1>5, IncType DEF FinishCycle, EndCycle, Metrics
  <2> QED BY <1>1, <1>5, <2>1 DEF FinishCycle, EndCycle, Metrics
<1>6. CASE \/ TickerFires \/ Cancel \/ FetchSucceeds \/ DecideToPublish
           \/ StartEvaluate \/ StartPublish \/ BrokerTakes \/ Stop \/ UNCHANGED vars
  BY <1>6 DEF TickerFires, Cancel, FetchSucceeds, FetchAnswered, DecideToPublish,
              CountPending, StartEvaluate, StartPublish, BrokerTakes, Stop, vars, histVars
<1> QED BY <1>2, <1>3, <1>4, <1>5, <1>6, Steps DEF Stopped

(* Each cycle is counted once, as a completed poll or as an API error.     *)
THEOREM Accounted == Spec => []CyclesAccounted
<1>1. Init => CyclesAccounted
  BY DEF Init, CyclesAccounted, InCycle
<1> QED BY <1>1, TypeCorrect, AccountedNext, PTL DEF Spec

-----------------------------------------------------------------------------
(* No span is left open                                                    *)

LEMMA SpansNext == SpansMatchPhase /\ [Next]_vars => SpansMatchPhase'
<1> SUFFICES ASSUME SpansMatchPhase, [Next]_vars PROVE SpansMatchPhase'
  OBVIOUS
<1> USE DEF SpansMatchPhase
<1>1. CASE InitialTrigger \/ TakeTick
  BY <1>1 DEF InitialTrigger, TakeTick, BeginCycle
<1>2. CASE APIFails \/ FetchCancelled
  BY <1>2 DEF APIFails, FetchCancelled, FetchFails, FetchReturns
<1>3. CASE FinishCycle
  BY <1>3 DEF FinishCycle, EndCycle
<1>4. CASE FetchSucceeds
  BY <1>4 DEF FetchSucceeds, FetchAnswered
<1>5. CASE SkipEmptyId \/ SkipNotDue
  BY <1>5 DEF SkipEmptyId, SkipNotDue, EndIteration
<1>6. CASE DecideToPublish \/ StartEvaluate \/ StartPublish
  BY <1>6 DEF DecideToPublish, CountPending, StartEvaluate, StartPublish
<1>7. CASE BuildFails
  BY <1>7 DEF BuildFails, EndIteration
<1>8. CASE PublishReturnsNil \/ PublishReturnsError
  BY <1>8 DEF PublishReturnsNil, PublishReturnsError, EndIteration
<1>9. CASE TickerFires \/ Cancel \/ BrokerTakes \/ Stop \/ UNCHANGED vars
  BY <1>9 DEF TickerFires, Cancel, BrokerTakes, Stop, vars
<1> QED BY <1>1, <1>2, <1>3, <1>4, <1>5, <1>6, <1>7, <1>8, <1>9, Steps DEF Stopped

(* The spans open are those of the phase the loop is in, on every path.    *)
THEOREM SpansEnded == Spec => []SpansMatchPhase
<1>1. Init => SpansMatchPhase
  BY DEF Init, SpansMatchPhase
<1> QED BY <1>1, SpansNext, PTL DEF Spec

-----------------------------------------------------------------------------
(* Where the loop over the resources is                                    *)

(* The index stays within the page, and what is on its way to the broker   *)
(* is a resource with an ID that is due.                                   *)
Position ==
  /\ Len(outcome) <= Len(page)
  /\ pc \in {"init", "fetch"} => page = <<>> /\ outcome = <<>> /\ pending = 0
  /\ pc \in {"decide", "build", "publish", "broker"} => Index <= Len(page)
  /\ pc \in {"build", "publish", "broker"} => Here.id # NoId /\ Here.due

LEMMA EndIterationPosition ==
  ASSUME TypeOK, Position, NEW o, NEW m, NEW ended, EndIteration(o, m, ended),
         Index <= Len(page)
  PROVE  Position'
<1>1. Len(outcome') = Len(outcome) + 1 /\ Len(outcome) \in Nat /\ Len(page) \in Nat
  BY DEF EndIteration, TypeOK
<1> QED BY <1>1 DEF EndIteration, Position, Index

LEMMA PositionNext == TypeOK /\ Position /\ [Next]_vars => Position'
<1> SUFFICES ASSUME TypeOK, Position, [Next]_vars PROVE Position'
  OBVIOUS
<1> USE DEF Position, Index, Here, loopVars
<1>1. CASE InitialTrigger \/ TakeTick
  BY <1>1 DEF InitialTrigger, TakeTick, BeginCycle
<1>2. CASE FetchSucceeds
  <2>1. Len(page') \in Nat /\ Len(outcome) = 0
    BY <1>2, TypeNext DEF FetchSucceeds, FetchAnswered, TypeOK
  <2> QED BY <1>2, <2>1 DEF FetchSucceeds, FetchAnswered
<1>3. CASE SkipEmptyId \/ SkipNotDue \/ BuildFails \/ PublishReturnsNil \/ PublishReturnsError
  BY <1>3, EndIterationPosition
     DEF SkipEmptyId, SkipNotDue, BuildFails, PublishReturnsNil, PublishReturnsError
<1>4. CASE DecideToPublish
  BY <1>4 DEF DecideToPublish, CountPending
<1>5. CASE StartEvaluate \/ StartPublish \/ BrokerTakes
  BY <1>5 DEF StartEvaluate, StartPublish, BrokerTakes
<1>6. CASE APIFails \/ FetchCancelled
  BY <1>6 DEF APIFails, FetchCancelled, FetchFails, FetchReturns
<1>7. CASE FinishCycle
  BY <1>7 DEF FinishCycle, EndCycle
<1>8. CASE TickerFires \/ Cancel \/ Stop \/ UNCHANGED vars
  BY <1>8 DEF TickerFires, Cancel, Stop, vars
<1> QED BY <1>1, <1>2, <1>3, <1>4, <1>5, <1>6, <1>7, <1>8, Steps DEF Stopped

LEMMA InPosition == Spec => []Position
<1>1. Init => Position
  BY DEF Init, Position
<1> QED BY <1>1, TypeCorrect, PositionNext, PTL DEF Spec

-----------------------------------------------------------------------------
(* The metrics of a cycle add up                                           *)

(* How many of the first n elements of s are in S.                         *)
UpTo(s, n, S) == Cardinality({k \in 1..n : s[k] \in S})

(* One resource more to look at.                                           *)
LEMMA UpToOneMore ==
  ASSUME NEW s, NEW n \in Nat, NEW S
  PROVE  /\ UpTo(s, n, S) \in Nat
         /\ UpTo(s, n + 1, S) = UpTo(s, n, S) + (IF s[n + 1] \in S THEN 1 ELSE 0)
<1> DEFINE A == {k \in 1..n : s[k] \in S}
           B == {k \in 1..(n + 1) : s[k] \in S}
<1>1. IsFiniteSet(A)
  <2>1. IsFiniteSet(1..n)
    BY FS_Interval
  <2> QED BY <2>1, FS_Subset
<1>2. Cardinality(A) \in Nat
  BY <1>1, FS_CardinalityType
<1>3. UpTo(s, n, S) = Cardinality(A) /\ UpTo(s, n + 1, S) = Cardinality(B)
  BY DEF UpTo
<1>4. CASE s[n + 1] \in S
  <2>1. B = A \cup {n + 1} /\ n + 1 \notin A
    BY <1>4
  <2>2. Cardinality(B) = Cardinality(A) + 1
    BY <1>1, <2>1, FS_AddElement
  <2> QED BY <1>2, <1>3, <1>4, <2>2
<1>5. CASE s[n + 1] \notin S
  <2>1. B = A
    BY <1>5
  <2>2. Cardinality(B) = Cardinality(A)
    BY <2>1
  <2> QED BY <1>2, <1>3, <1>5, <2>2
<1> QED BY <1>4, <1>5

LEMMA DecidedIsUpTo == \A S : Decided(S) = UpTo(page, Len(outcome) + InFlight, S)
BY DEF Decided, UpTo

LEMMA DecidedType == ASSUME TypeOK, NEW S PROVE Decided(S) \in Nat
<1>1. Len(outcome) + InFlight \in Nat
  BY DEF TypeOK, InFlight
<1> QED BY <1>1, UpToOneMore, DecidedIsUpTo

(* A resource that is decided on counts for the set it is in, once.        *)
LEMMA DecidedOneMore ==
  ASSUME TypeOK, NEW S, page' = page,
         Len(outcome') + InFlight' = Len(outcome) + 1, InFlight = 0
  PROVE  Decided(S)' = Decided(S) + (IF Here \in S THEN 1 ELSE 0)
<1>1. Len(outcome) \in Nat /\ Len(outcome) + InFlight = Len(outcome)
  BY DEF TypeOK
<1>2. Decided(S) = UpTo(page, Len(outcome), S)
  BY <1>1, DecidedIsUpTo
<1>3. Decided(S)' = UpTo(page, Len(outcome) + 1, S)
  BY DEF Decided, UpTo
<1>4. Here = page[Len(outcome) + 1]
  BY DEF Here, Index
<1> QED BY <1>1, <1>2, <1>3, <1>4, UpToOneMore

LEMMA DecidedNone == ASSUME NEW S, Len(outcome) + InFlight = 0 PROVE Decided(S) = 0
<1>1. {k \in 1..0 : page[k] \in S} = {}
  OBVIOUS
<1> QED BY <1>1, FS_EmptySet DEF Decided

Unbuilt == {"encode_error"}
Counters == {"eventsPublished", "brokerErrors", "resourcesSkipped"}

(* The numbers that the accounts relate.                                   *)
LEMMA AccountTypes ==
  ASSUME TypeOK
  PROVE  /\ Count(outcome, Unbuilt) \in Nat
         /\ \A m \in Counters \cup {"pendingGauge"} : metrics[m] \in Nat /\ before[m] \in Nat
         /\ Decided(DueItems) \in Nat /\ Decided(QuietItems) \in Nat /\ pending \in Nat
<1>1. metrics \in Metrics /\ before \in Metrics /\ outcome \in Seq(Outcomes) /\ pending \in Nat
  BY DEF TypeOK
<1>2. \A m \in Counters \cup {"pendingGauge"} : metrics[m] \in Nat /\ before[m] \in Nat
  BY <1>1 DEF Metrics, Counters
<1> QED BY <1>1, <1>2, CountType, DecidedType

(* The four equations of MetricsAddUp, a metric or a count at a time.      *)
LEMMA AccountsNext ==
  ASSUME TypeOK, MetricsAddUp, before' = before,
         NEW due \in Nat, NEW quiet \in Nat, NEW done \in Nat, NEW failed \in Nat,
         NEW unbuilt \in Nat,
         pending' = pending + due,
         Decided(DueItems)' = Decided(DueItems) + due,
         Decided(QuietItems)' = Decided(QuietItems) + quiet,
         metrics'.resourcesSkipped = metrics.resourcesSkipped + quiet,
         metrics'.eventsPublished = metrics.eventsPublished + done,
         metrics'.brokerErrors = metrics.brokerErrors + failed,
         Count(outcome, Unbuilt)' = Count(outcome, Unbuilt) + unbuilt,
         InFlight \in 0..1, InFlight' \in 0..1,
         due + InFlight = done + failed + unbuilt + InFlight',
         metrics'.pendingGauge =
           IF ~InCycle' /\ ending' = "complete" THEN pending' ELSE before.pendingGauge
  PROVE  MetricsAddUp'
<1> DEFINE enc == Count(outcome, {"encode_error"})
<1>1. /\ enc \in Nat /\ enc' = enc + unbuilt
      /\ pending \in Nat /\ metrics.eventsPublished \in Nat /\ metrics.brokerErrors \in Nat
      /\ metrics.resourcesSkipped \in Nat
      /\ before.eventsPublished \in Nat /\ before.brokerErrors \in Nat
      /\ before.resourcesSkipped \in Nat
      /\ Decided(QuietItems) \in Nat
  BY AccountTypes DEF Unbuilt, Counters
<1> HIDE DEF enc
<1>2. /\ pending = Decided(DueItems)
      /\ metrics.resourcesSkipped - before.resourcesSkipped = Decided(QuietItems)
      /\ pending = (metrics.eventsPublished - before.eventsPublished)
                    + (metrics.brokerErrors - before.brokerErrors) + enc + InFlight
  BY DEF MetricsAddUp, Since, enc
<1>3. pending' = Decided(DueItems)'
  BY <1>2
<1>4. metrics'.resourcesSkipped - before'.resourcesSkipped = Decided(QuietItems)'
  BY <1>1, <1>2
<1>5. pending' = (metrics'.eventsPublished - before'.eventsPublished)
                 + (metrics'.brokerErrors - before'.brokerErrors) + enc' + InFlight'
  <2>1. PICK e \in Nat, b \in Nat, e0 \in Nat, b0 \in Nat, c \in Nat, f \in 0..1, g \in 0..1 :
          /\ e = metrics.eventsPublished /\ b = metrics.brokerErrors
          /\ e0 = before.eventsPublished /\ b0 = before.brokerErrors
          /\ c = enc /\ f = InFlight /\ g = InFlight'
    BY <1>1
  <2>2. pending = (e - e0) + (b - b0) + c + f
    BY <1>2, <2>1
  <2>3. due + f = done + failed + unbuilt + g
    BY <2>1
  <2>4. pending + due = ((e + done) - e0) + ((b + failed) - b0) + (c + unbuilt) + g
    BY <1>1, <2>2, <2>3
  <2>5. /\ metrics'.eventsPublished = e + done /\ metrics'.brokerErrors = b + failed
        /\ before'.eventsPublished = e0 /\ before'.brokerErrors = b0 /\ enc' = c + unbuilt
    BY <1>1, <2>1
  <2> QED BY <2>1, <2>4, <2>5
<1>6. metrics'.pendingGauge = IF ~InCycle' /\ ending' = "complete" THEN pending'
                              ELSE before'.pendingGauge
  OBVIOUS
<1> QED BY <1>3, <1>4, <1>5, <1>6 DEF MetricsAddUp, Since, enc

(* A cycle starts its accounts from nothing, and keeps the gauge.          *)
LEMMA BeginCycleAddsUp ==
  ASSUME TypeOK, BeginCycle, pc \in {"init", "select"} PROVE MetricsAddUp'
<1>1. /\ pc' = "fetch" /\ outcome' = <<>> /\ pending' = 0 /\ before' = metrics
      /\ metrics' = metrics
  BY DEF BeginCycle
<1>2. metrics \in Metrics
  BY DEF TypeOK
<1>3. Len(outcome') + InFlight' = 0 /\ InFlight' = 0 /\ InCycle'
  BY <1>1 DEF InFlight, InCycle
<1>4. Decided(DueItems)' = 0 /\ Decided(QuietItems)' = 0
  <2>1. \A S : {k \in 1..0 : page'[k] \in S} = {}
    OBVIOUS
  <2> QED BY <1>3, <2>1, FS_EmptySet DEF Decided, DueItems, QuietItems
<1>5. Count(outcome', Unbuilt) = 0
  BY <1>1, CountEmpty
<1>6. \A m \in Counters : (metrics[m] - before[m])' = 0
  BY <1>1, <1>2 DEF Metrics, Counters
<1> QED BY <1>1, <1>3, <1>4, <1>5, <1>6 DEF MetricsAddUp, Since, Unbuilt, Counters

(* The end of an iteration that has not been counted as pending.           *)
LEMMA SkipAddsUp ==
  ASSUME TypeOK, Position, MetricsAddUp, SkipEmptyId \/ SkipNotDue PROVE MetricsAddUp'
<1> DEFINE quiet == IF SkipNotDue THEN 1 ELSE 0
<1>1. /\ page' = page /\ pending' = pending /\ before' = before /\ ending' = ending
      /\ pc = "decide" /\ pc' = "evaluate" /\ Here \notin DueItems
      /\ outcome' = Append(outcome, IF SkipNotDue THEN "skipped" ELSE "no_id")
      /\ metrics' = IF SkipNotDue THEN Inc("resourcesSkipped") ELSE metrics
      /\ SkipNotDue => Here.id # NoId /\ ~Here.due
      /\ ~SkipNotDue => Here.id = NoId
  BY DEF SkipEmptyId, SkipNotDue, EndIteration, histVars, DueItems
<1>2. InFlight = 0 /\ InFlight' = 0 /\ InCycle /\ InCycle'
  BY <1>1 DEF InFlight, InCycle
<1>3. /\ Len(outcome') = Len(outcome) + 1 /\ Len(outcome) \in Nat /\ Len(page) \in Nat
      /\ outcome \in Seq(Outcomes)
  BY <1>1 DEF TypeOK
<1>4. Here \in Item
  <2>1. page \in Seq(Item) /\ Index \in 1..Len(page)
    BY <1>1, <1>3 DEF TypeOK, Position, Index
  <2> QED BY <2>1 DEF Here
<1>5. Here \in QuietItems <=> SkipNotDue
  BY <1>1, <1>4 DEF QuietItems
<1>6. Len(outcome') + InFlight' = Len(outcome) + 1
  BY <1>2, <1>3
<1>7. Decided(DueItems)' = Decided(DueItems) + 0
  <2>1. Decided(DueItems)' = Decided(DueItems) + (IF Here \in DueItems THEN 1 ELSE 0)
    BY <1>1, <1>2, <1>6, DecidedOneMore DEF DueItems
  <2> QED BY <1>1, <2>1
<1>8. Decided(QuietItems)' = Decided(QuietItems) + quiet
  <2>1. Decided(QuietItems)' = Decided(QuietItems) + (IF Here \in QuietItems THEN 1 ELSE 0)
    BY <1>1, <1>2, <1>6, DecidedOneMore DEF QuietItems
  <2> QED BY <1>5, <2>1
<1>9. Count(outcome, Unbuilt)' = Count(outcome, Unbuilt) + 0
  <2>1. Count(outcome', Unbuilt) = Count(outcome, Unbuilt) + 0
    BY <1>1, <1>3, CountAppend DEF Unbuilt
  <2> QED BY <2>1 DEF Unbuilt, Count
<1>10. /\ metrics'.resourcesSkipped = metrics.resourcesSkipped + quiet
       /\ metrics'.eventsPublished = metrics.eventsPublished + 0
       /\ metrics'.brokerErrors = metrics.brokerErrors + 0
       /\ metrics'.pendingGauge = metrics.pendingGauge
  <2>1. metrics \in Metrics
    BY DEF TypeOK
  <2> HIDE DEF SkipNotDue
  <2> QED BY <1>1, <2>1 DEF Inc, Metrics
<1>11. metrics.pendingGauge = before.pendingGauge
  BY <1>2 DEF MetricsAddUp
<1>12. quiet \in Nat /\ 0 \in Nat
  OBVIOUS
<1>13. /\ pending' = pending + 0 /\ 0 + InFlight = 0 + 0 + 0 + InFlight'
       /\ InFlight \in 0..1 /\ InFlight' \in 0..1
  BY <1>1, <1>2 DEF TypeOK
<1> HIDE DEF quiet
<1> QED BY <1>1, <1>2, <1>7, <1>8, <1>9, <1>10, <1>11, <1>12, <1>13, AccountsNext

(* The end of one that has: it shows in one counter or as not built.       *)
LEMMA PendingEndAddsUp ==
  ASSUME TypeOK, Position, MetricsAddUp,
         BuildFails \/ PublishReturnsNil \/ PublishReturnsError
  PROVE  MetricsAddUp'
<1>1. PICK o \in {"encode_error", "published", "broker_error"} :
        /\ outcome' = Append(outcome, o)
        /\ metrics' = CASE o = "encode_error" -> metrics
                        [] o = "published"    -> Inc("eventsPublished")
                        [] o = "broker_error" -> Inc("brokerErrors")
  BY DEF BuildFails, PublishReturnsNil, PublishReturnsError, EndIteration
<1> DEFINE done    == IF o = "published" THEN 1 ELSE 0
           failed  == IF o = "broker_error" THEN 1 ELSE 0
           unbuilt == IF o = "encode_error" THEN 1 ELSE 0
<1>2. /\ page' = page /\ pending' = pending /\ before' = before /\ ending' = ending
      /\ pc \in {"build", "publish", "broker"} /\ pc' = "evaluate"
  BY DEF BuildFails, PublishReturnsNil, PublishReturnsError, EndIteration, histVars
<1>3. InFlight = 1 /\ InFlight' = 0 /\ InCycle /\ InCycle'
  BY <1>2 DEF InFlight, InCycle
<1>4. Len(outcome') = Len(outcome) + 1 /\ Len(outcome) \in Nat /\ outcome \in Seq(Outcomes)
  BY <1>1 DEF TypeOK
<1>5. Len(outcome') + InFlight' = Len(outcome) + InFlight
  BY <1>3, <1>4
<1>6. /\ Decided(DueItems)' = Decided(DueItems) + 0
      /\ Decided(QuietItems)' = Decided(QuietItems) + 0
  <2>1. Decided(DueItems)' = Decided(DueItems) /\ Decided(QuietItems)' = Decided(QuietItems)
    BY <1>2, <1>5 DEF Decided, DueItems, QuietItems
  <2> QED BY <2>1, DecidedType
<1>7. Count(outcome, Unbuilt)' = Count(outcome, Unbuilt) + unbuilt
  <2>1. Count(outcome', Unbuilt)
          = Count(outcome, Unbuilt) + (IF o \in Unbuilt THEN 1 ELSE 0)
    BY <1>1, <1>4, CountAppend
  <2>2. o \in Unbuilt <=> o = "encode_error"
    BY DEF Unbuilt
  <2>3. Count(outcome, Unbuilt)' = Count(outcome', Unbuilt)
    BY DEF Unbuilt, Count
  <2> QED BY <2>1, <2>2, <2>3
<1>8. /\ metrics'.resourcesSkipped = metrics.resourcesSkipped + 0
      /\ metrics'.eventsPublished = metrics.eventsPublished + done
      /\ metrics'.brokerErrors = metrics.brokerErrors + failed
      /\ metrics'.pendingGauge = metrics.pendingGauge
  <2>1. metrics \in Metrics
    BY DEF TypeOK
  <2> QED BY <1>1, <2>1 DEF Inc, Metrics
<1>9. metrics.pendingGauge = before.pendingGauge
  BY <1>3 DEF MetricsAddUp
<1>10. pending' = pending + 0
  BY <1>2 DEF TypeOK
<1>11. /\ done \in Nat /\ failed \in Nat /\ unbuilt \in Nat /\ 0 \in Nat
       /\ 0 + InFlight = done + failed + unbuilt + InFlight'
       /\ InFlight \in 0..1 /\ InFlight' \in 0..1
  BY <1>3
<1> HIDE DEF done, failed, unbuilt
<1> QED BY <1>2, <1>3, <1>6, <1>7, <1>8, <1>9, <1>10, <1>11, AccountsNext

(* A due resource is counted as pending.                                   *)
LEMMA CountPendingAddsUp ==
  ASSUME TypeOK, Position, MetricsAddUp, DecideToPublish PROVE MetricsAddUp'
<1>1. /\ pc = "decide" /\ pc' = "build" /\ Here.id # NoId /\ Here.due
      /\ page' = page /\ pending' = pending + 1 /\ before' = before /\ ending' = ending
      /\ outcome' = outcome /\ metrics' = metrics
  BY DEF DecideToPublish, CountPending, histVars
<1>2. InFlight = 0 /\ InFlight' = 1 /\ InCycle /\ InCycle'
  BY <1>1 DEF InFlight, InCycle
<1>3. Len(outcome) \in Nat /\ Len(page) \in Nat
  BY DEF TypeOK
<1>4. Here \in DueItems /\ Here \notin QuietItems
  <2>1. page \in Seq(Item) /\ Index \in 1..Len(page)
    BY <1>1, <1>3 DEF TypeOK, Position, Index
  <2>2. Here \in Item
    BY <2>1 DEF Here
  <2> QED BY <1>1, <2>2 DEF DueItems, QuietItems
<1>5. Len(outcome') + InFlight' = Len(outcome) + 1
  BY <1>1, <1>2, <1>3
<1>6. Decided(DueItems)' = Decided(DueItems) + 1
  <2>1. Decided(DueItems)' = Decided(DueItems) + (IF Here \in DueItems THEN 1 ELSE 0)
    BY <1>1, <1>2, <1>5, DecidedOneMore DEF DueItems
  <2> QED BY <1>4, <2>1
<1>7. Decided(QuietItems)' = Decided(QuietItems) + 0
  <2>1. Decided(QuietItems)' = Decided(QuietItems) + (IF Here \in QuietItems THEN 1 ELSE 0)
    BY <1>1, <1>2, <1>5, DecidedOneMore DEF QuietItems
  <2> QED BY <1>4, <2>1
<1>8. Count(outcome, Unbuilt)' = Count(outcome, Unbuilt) + 0
  <2>1. Count(outcome, Unbuilt)' = Count(outcome, Unbuilt)
    BY <1>1 DEF Count, Unbuilt
  <2> QED BY <2>1, AccountTypes
<1>9. /\ metrics'.resourcesSkipped = metrics.resourcesSkipped + 0
      /\ metrics'.eventsPublished = metrics.eventsPublished + 0
      /\ metrics'.brokerErrors = metrics.brokerErrors + 0
      /\ metrics'.pendingGauge = before.pendingGauge
  BY <1>1, <1>2, AccountTypes DEF MetricsAddUp, Counters
<1> QED BY <1>1, <1>2, <1>6, <1>7, <1>8, <1>9, AccountsNext

LEMMA AddsUpNext ==
  TypeOK /\ Position /\ MetricsAddUp /\ [Next]_vars => MetricsAddUp'
<1> SUFFICES ASSUME TypeOK, Position, MetricsAddUp, [Next]_vars PROVE MetricsAddUp'
  OBVIOUS
<1>1. CASE InitialTrigger \/ TakeTick
  BY <1>1, BeginCycleAddsUp DEF InitialTrigger, TakeTick
<1>2. CASE SkipEmptyId \/ SkipNotDue
  BY <1>2, SkipAddsUp
<1>3. CASE BuildFails \/ PublishReturnsNil \/ PublishReturnsError
  BY <1>3, PendingEndAddsUp
<1>4. CASE DecideToPublish
  BY <1>4, CountPendingAddsUp
<1>5. CASE FetchSucceeds
  <2>1. /\ pc = "fetch" /\ pc' = "evaluate" /\ outcome' = outcome /\ outcome = <<>>
        /\ UNCHANGED <<pending, metrics, before, ending>>
    BY <1>5 DEF FetchSucceeds, FetchAnswered, histVars, Position
  <2>2. /\ InFlight = 0 /\ InFlight' = 0 /\ Len(outcome) = 0 /\ InCycle /\ InCycle'
    BY <2>1 DEF InFlight, InCycle
  <2>3. Decided(DueItems)' = Decided(DueItems) /\ Decided(QuietItems)' = Decided(QuietItems)
    <3>1. \A S : {k \in 1..0 : page[k] \in S} = {} /\ {k \in 1..0 : page'[k] \in S} = {}
      OBVIOUS
    <3> QED BY <2>1, <2>2, <3>1 DEF Decided, DueItems, QuietItems
  <2> QED BY <2>1, <2>2, <2>3 DEF MetricsAddUp, Since
<1>6. CASE APIFails \/ FetchCancelled
  <2>1. /\ pc = "fetch" /\ pc' = "select" /\ ending' # "complete" /\ metrics' = Inc("apiErrors")
        /\ UNCHANGED <<page, outcome, pending, before>>
    BY <1>6 DEF APIFails, FetchCancelled, FetchFails, FetchReturns, loopVars
  <2>2. \A m \in Counters \cup {"pendingGauge"} : metrics'[m] = metrics[m]
    BY <2>1 DEF TypeOK, Inc, Metrics, Counters
  <2>3. InFlight = 0 /\ InFlight' = 0 /\ InCycle
    BY <2>1 DEF InFlight, InCycle
  <2> QED
    BY <2>1, <2>2, <2>3 DEF MetricsAddUp, Since, Counters, Decided, DueItems, QuietItems
<1>7. CASE FinishCycle
  <2>1. /\ pc = "evaluate" /\ pc' = "select" /\ ending' = "complete"
        /\ UNCHANGED <<page, outcome, pending, before>>
    BY <1>7 DEF FinishCycle, EndCycle, loopVars
  <2>2. metrics'.pendingGauge = pending /\ \A m \in Counters : metrics'[m] = metrics[m]
    BY <1>7 DEF FinishCycle, EndCycle, TypeOK, Inc, Metrics, Counters
  <2>3. InFlight = 0 /\ InFlight' = 0 /\ ~InCycle'
    BY <2>1 DEF InFlight, InCycle
  <2> QED
    BY <2>1, <2>2, <2>3 DEF MetricsAddUp, Since, Counters, Decided, DueItems, QuietItems
<1>8. CASE \/ TickerFires \/ Cancel \/ StartEvaluate \/ StartPublish \/ BrokerTakes
           \/ Stop \/ UNCHANGED vars
  <2>1. UNCHANGED <<page, outcome, pending, metrics, before, ending>>
    BY <1>8 DEF TickerFires, Cancel, StartEvaluate, StartPublish, BrokerTakes, Stop,
                vars, loopVars, histVars
  <2>2. InFlight' = InFlight /\ InCycle' = InCycle
    BY <1>8 DEF TickerFires, Cancel, StartEvaluate, StartPublish, BrokerTakes, Stop,
                vars, InFlight, InCycle
  <2> QED BY <2>1, <2>2 DEF MetricsAddUp, Since, Decided, DueItems, QuietItems
<1> QED BY <1>1, <1>2, <1>3, <1>4, <1>5, <1>6, <1>7, <1>8, Steps DEF Stopped

(* In every cycle the gauge and the counters account for all resources of  *)
(* the page that have been decided on.                                     *)
THEOREM MetricsAccount == Spec => []MetricsAddUp
<1>1. Init => MetricsAddUp
  <2> SUFFICES ASSUME Init PROVE MetricsAddUp
    OBVIOUS
  <2>1. outcome = <<>> /\ InFlight = 0 /\ ~InCycle /\ ending # "complete"
    BY DEF Init, InFlight, InCycle
  <2>2. \A S : Decided(S) = 0
    BY <2>1, DecidedNone
  <2>3. Count(outcome, {"encode_error"}) = 0
    BY <2>1, CountEmpty
  <2> QED BY <2>1, <2>2, <2>3 DEF Init, MetricsAddUp, Since
<1> QED BY <1>1, TypeCorrect, InPosition, AddsUpNext, PTL DEF Spec

-----------------------------------------------------------------------------
(* lastSuccessfulPoll                                                      *)

(* It lags behind while a cycle runs, and for good behind a dead cycle,    *)
(* which never gets past its fetch.                                        *)
LastPollBehind ==
  /\ lastPoll <= cycle
  /\ InCycle \/ born = "dead" => lastPoll < cycle
  /\ born = "dead" => pc \in {"fetch", "select", "stopped"} /\ page = <<>>

LEMMA LastPollNext == TypeOK /\ LastPollBehind /\ [Next]_vars => LastPollBehind'
<1> SUFFICES ASSUME TypeOK, LastPollBehind, [Next]_vars PROVE LastPollBehind'
  OBVIOUS
<1> USE DEF LastPollBehind, InCycle
<1>1. lastPoll \in Nat /\ cycle \in Nat
  BY DEF TypeOK
<1>2. CASE InitialTrigger \/ TakeTick
  BY <1>1, <1>2 DEF InitialTrigger, TakeTick, BeginCycle
<1>3. CASE FetchSucceeds
  BY <1>1, <1>3 DEF FetchSucceeds, FetchAnswered, histVars
<1>4. CASE APIFails \/ FetchCancelled
  BY <1>1, <1>4 DEF APIFails, FetchCancelled, FetchFails, FetchReturns, loopVars
<1>5. CASE FinishCycle
  BY <1>1, <1>5 DEF FinishCycle, EndCycle, loopVars
<1>6. CASE SkipEmptyId \/ SkipNotDue \/ BuildFails \/ PublishReturnsNil \/ PublishReturnsError
  BY <1>1, <1>6 DEF SkipEmptyId, SkipNotDue, BuildFails, PublishReturnsNil,
                    PublishReturnsError, EndIteration, histVars
<1>7. CASE DecideToPublish \/ StartEvaluate \/ StartPublish \/ BrokerTakes
  BY <1>1, <1>7 DEF DecideToPublish, CountPending, StartEvaluate, StartPublish, BrokerTakes,
                    loopVars, histVars
<1>8. CASE TickerFires \/ Cancel \/ Stop \/ UNCHANGED vars
  BY <1>1, <1>8 DEF TickerFires, Cancel, Stop, vars, loopVars, histVars
<1> QED BY <1>2, <1>3, <1>4, <1>5, <1>6, <1>7, <1>8, Steps DEF Stopped

LEMMA LastPollLags == Spec => []LastPollBehind
<1>1. Init => LastPollBehind
  BY DEF Init, LastPollBehind, InCycle
<1> QED BY <1>1, TypeCorrect, LastPollNext, PTL DEF Spec

(* Only FinishCycle moves lastSuccessfulPoll, at the end of a full pass.   *)
LEMMA LastPollMoves ==
  ASSUME TypeOK, Position, LastPollBehind, [Next]_vars, lastPoll' # lastPoll
  PROVE  /\ pc # "fetch" /\ Len(outcome) = Len(page)
         /\ lastPoll < lastPoll' /\ lastPoll' = cycle
<1>1. CASE FinishCycle
  <2>1. Len(outcome) \in Nat /\ Len(page) \in Nat
    BY DEF TypeOK
  <2> QED BY <1>1, <2>1 DEF FinishCycle, EndCycle, Index, Position, LastPollBehind, InCycle
<1>2. CASE InitialTrigger \/ TakeTick \/ FetchSucceeds \/ APIFails \/ FetchCancelled
  BY <1>2 DEF InitialTrigger, TakeTick, BeginCycle, FetchSucceeds, FetchAnswered,
              APIFails, FetchCancelled, FetchFails, FetchReturns
<1>3. CASE SkipEmptyId \/ SkipNotDue \/ BuildFails \/ PublishReturnsNil \/ PublishReturnsError
  BY <1>3 DEF SkipEmptyId, SkipNotDue, BuildFails, PublishReturnsNil,
              PublishReturnsError, EndIteration
<1>4. CASE \/ TickerFires \/ Cancel \/ DecideToPublish \/ StartEvaluate \/ StartPublish \/ BrokerTakes
           \/ Stop \/ UNCHANGED vars
  BY <1>4 DEF TickerFires, Cancel, DecideToPublish, CountPending, StartEvaluate, StartPublish,
              BrokerTakes, Stop, vars
<1> QED BY <1>1, <1>2, <1>3, <1>4, Steps DEF Stopped

(* The probes' lastSuccessfulPoll moves only at the end of a full pass.    *)
THEOREM LastPollIsFullPass == Spec => LastPollOnlyAfterFullPass
<1>1. TypeOK /\ Position /\ LastPollBehind /\ [Next]_vars =>
        [lastPoll' # lastPoll =>
           /\ pc # "fetch" /\ Len(outcome) = Len(page)
           /\ lastPoll < lastPoll' /\ lastPoll' = cycle]_vars
  BY LastPollMoves
<1> QED
  BY <1>1, TypeCorrect, InPosition, LastPollLags, PTL DEF Spec, LastPollOnlyAfterFullPass

-----------------------------------------------------------------------------
(* What the broker is given                                                *)

InBroker == IF pc = "broker" THEN 1 ELSE 0

(* The events taken in this cycle are for due resources the loop has       *)
(* passed, or is at, and each event counted as published is one of them.   *)
Deliveries ==
  /\ IsFiniteSet(delivered)
  /\ metrics.eventsPublished + InBroker <= Cardinality(delivered)
  /\ \A d \in delivered :
       /\ d[1] <= cycle
       /\ d[1] = cycle => /\ d[2] \in 1..Len(page)
                          /\ d[2] <= Len(outcome) + InBroker
                          /\ page[d[2]].id # NoId
                          /\ page[d[2]].due

LEMMA EndIterationDeliveries ==
  ASSUME TypeOK, Deliveries, NEW o, NEW m \in Metrics, NEW ended,
         EndIteration(o, m, ended),
         m.eventsPublished <= metrics.eventsPublished + InBroker
  PROVE  Deliveries'
<1>1. Len(outcome') = Len(outcome) + 1 /\ Len(outcome) \in Nat
  BY DEF EndIteration, TypeOK
<1>2. InBroker' = 0 /\ InBroker \in 0..1
  BY DEF InBroker, EndIteration
<1>3. Cardinality(delivered) \in Nat
  BY FS_CardinalityType DEF Deliveries
<1>4. m.eventsPublished \in Nat /\ metrics.eventsPublished \in Nat
  BY DEF TypeOK, Metrics
<1>5. \A d \in delivered : d[1] \in Nat /\ d[2] \in Nat
  BY DEF TypeOK
<1> QED
  BY <1>1, <1>2, <1>3, <1>4, <1>5 DEF Deliveries, EndIteration, histVars

LEMMA DeliveriesNext ==
  TypeOK /\ Position /\ Deliveries /\ [Next]_vars => Deliveries'
<1> SUFFICES ASSUME TypeOK, Position, Deliveries, [Next]_vars PROVE Deliveries'
  OBVIOUS
<1>1. /\ cycle \in Nat /\ Len(outcome) \in Nat /\ Len(page) \in Nat
      /\ metrics.eventsPublished \in Nat /\ metrics \in Metrics
      /\ \A d \in delivered : d[1] \in Nat /\ d[2] \in Nat
  BY DEF TypeOK, Metrics
<1>2. Cardinality(delivered) \in Nat
  BY FS_CardinalityType DEF Deliveries
<1>3. CASE InitialTrigger \/ TakeTick
  <2>1. pc # "broker" /\ InBroker' = 0 /\ cycle' = cycle + 1
    BY <1>3 DEF InitialTrigger, TakeTick, BeginCycle, InBroker
  <2> QED BY <1>1, <1>2, <1>3, <2>1 DEF InitialTrigger, TakeTick, BeginCycle, Deliveries, InBroker
<1>4. CASE FetchSucceeds
  <2>1. InBroker = 0 /\ InBroker' = 0 /\ Len(outcome) = 0
    BY <1>4 DEF FetchSucceeds, FetchAnswered, Position, InBroker
  <2>2. \A d \in delivered : d[1] # cycle
    BY <1>1, <2>1 DEF Deliveries
  <2> QED BY <1>4, <2>1, <2>2 DEF FetchSucceeds, FetchAnswered, Deliveries, histVars
<1>5. CASE APIFails \/ FetchCancelled
  <2>1. metrics'.eventsPublished = metrics.eventsPublished
    BY <1>5, IncType DEF APIFails, FetchCancelled, FetchFails, FetchReturns
  <2> QED BY <1>5, <2>1 DEF APIFails, FetchCancelled, FetchFails, FetchReturns,
                            Deliveries, InBroker, loopVars
<1>6. CASE SkipEmptyId \/ SkipNotDue \/ BuildFails
  BY <1>1, <1>6, IncType, EndIterationDeliveries
     DEF SkipEmptyId, SkipNotDue, BuildFails, InBroker
<1>7. CASE PublishReturnsNil \/ PublishReturnsError
  BY <1>1, <1>7, IncType, EndIterationDeliveries
     DEF PublishReturnsNil, PublishReturnsError, InBroker
<1>8. CASE BrokerTakes
  <2> DEFINE e == <<cycle, Index>>
  <2>1. InBroker = 0 /\ InBroker' = 1
    BY <1>8 DEF BrokerTakes, InBroker
  <2>2. e \notin delivered
    BY <1>1, <2>1 DEF Deliveries, Index
  <2>3. Index \in 1..Len(page) /\ page[Index].id # NoId /\ page[Index].due
    BY <1>1, <1>8 DEF BrokerTakes, Position, Index, Here
  <2>4. IsFiniteSet(delivered') /\ Cardinality(delivered') = Cardinality(delivered) + 1
    BY <1>8, <2>2, FS_AddElement DEF BrokerTakes, Deliveries
  <2>5. metrics'.eventsPublished + InBroker' <= Cardinality(delivered')
    BY <1>1, <1>2, <1>8, <2>1, <2>4 DEF BrokerTakes, Deliveries
  <2>6. \A d \in delivered' :
          /\ d[1] <= cycle
          /\ d[1] = cycle => /\ d[2] \in 1..Len(page)
                             /\ d[2] <= Len(outcome) + 1
                             /\ page[d[2]].id # NoId
                             /\ page[d[2]].due
    <3>1. \A d \in delivered' : d \in delivered \/ d = e
      BY <1>8 DEF BrokerTakes
    <3> QED BY <1>1, <2>1, <2>3, <3>1 DEF Deliveries, Index
  <2> QED BY <1>8, <2>1, <2>4, <2>5, <2>6 DEF BrokerTakes, Deliveries, loopVars
<1>9. CASE FinishCycle
  <2>1. metrics'.eventsPublished = metrics.eventsPublished
    BY <1>9, IncType DEF FinishCycle, EndCycle, Metrics
  <2> QED BY <1>9, <2>1 DEF FinishCycle, EndCycle, Deliveries, InBroker, loopVars
<1>10. CASE DecideToPublish \/ StartEvaluate \/ StartPublish
  BY <1>10 DEF DecideToPublish, CountPending, StartEvaluate, StartPublish, Deliveries,
               InBroker, loopVars, histVars
<1>11. CASE TickerFires \/ Cancel \/ Stop \/ UNCHANGED vars
  BY <1>11 DEF TickerFires, Cancel, Stop, Deliveries, InBroker, vars, loopVars, histVars
<1> QED
  BY <1>3, <1>4, <1>5, <1>6, <1>7, <1>8, <1>9, <1>10, <1>11, Steps DEF Stopped

LEMMA DeliveriesHold == Spec => []Deliveries
<1>1. Init => Deliveries
  BY FS_EmptySet DEF Init, Deliveries, InBroker
<1> QED BY <1>1, TypeCorrect, InPosition, DeliveriesNext, PTL DEF Spec

(* The broker is given only what has an ID and is due; an event counted as *)
(* published was taken by it.                                              *)
THEOREM OnlyDueIsPublished == Spec => []PublishesOnlyDue
<1>1. TypeOK /\ Deliveries => PublishesOnlyDue
  <2> SUFFICES ASSUME TypeOK, Deliveries PROVE PublishesOnlyDue
    OBVIOUS
  <2>1. Cardinality(delivered) \in Nat /\ metrics.eventsPublished \in Nat
    BY FS_CardinalityType DEF Deliveries, TypeOK, Metrics
  <2> QED BY <2>1 DEF Deliveries, PublishesOnlyDue, InBroker
<1> QED BY <1>1, TypeCorrect, DeliveriesHold, PTL

(* A cycle that began after the cancellation fetches nothing, publishes    *)
(* nothing and is not counted as successful.                               *)
THEOREM DeadCycleIsIdle == Spec => []DeadCycleDoesNothing
<1>1. TypeOK /\ LastPollBehind /\ Deliveries => DeadCycleDoesNothing
  BY DEF TypeOK, LastPollBehind, Deliveries, DeadCycleDoesNothing
<1> QED BY <1>1, TypeCorrect, LastPollLags, DeliveriesHold, PTL

-----------------------------------------------------------------------------
(* The loop is a PollLoop                                                  *)

(* Every step of the loop is a step of PollLoop or leaves what PollLoop    *)
(* sees as it is.                                                          *)
LEMMA StepRefines ==
  ASSUME TypeOK, LastPollBehind, [Next]_vars
  PROVE  [Loop!Next]_(Loop!vars)
<1> USE DEF Loop!Next, Loop!vars
<1>1. CASE TickerFires
  BY <1>1 DEF TickerFires, Loop!Tick, histVars
<1>2. CASE Cancel
  BY <1>2 DEF Cancel, Loop!Cancel, histVars
<1>3. CASE InitialTrigger \/ TakeTick
  BY <1>3 DEF InitialTrigger, TakeTick, BeginCycle, Loop!Begin
<1>4. CASE APIFails \/ FetchCancelled
  BY <1>4 DEF APIFails, FetchCancelled, FetchFails, FetchReturns, Loop!End, envVars
<1>5. CASE FinishCycle
  BY <1>5 DEF FinishCycle, EndCycle, LastPollBehind, TypeOK, Loop!End, envVars
<1>6. CASE Stop
  BY <1>6 DEF Stop, Loop!Stop, envVars, histVars
<1>7. CASE FetchSucceeds
  BY <1>7 DEF FetchSucceeds, FetchAnswered, envVars, histVars
<1>8. CASE SkipEmptyId \/ SkipNotDue \/ BuildFails \/ PublishReturnsNil \/ PublishReturnsError
  BY <1>8 DEF SkipEmptyId, SkipNotDue, BuildFails, PublishReturnsNil,
              PublishReturnsError, EndIteration, envVars, histVars
<1>9. CASE DecideToPublish \/ StartEvaluate \/ StartPublish \/ BrokerTakes
  BY <1>9 DEF DecideToPublish, CountPending, StartEvaluate, StartPublish, BrokerTakes,
              envVars, histVars
<1>10. CASE UNCHANGED vars
  BY <1>10 DEF vars, envVars, histVars
<1> QED
  BY <1>1, <1>2, <1>3, <1>4, <1>5, <1>6, <1>7, <1>8, <1>9, <1>10, Steps DEF Stopped

(* The poll loop implements PollLoop, its fairness left aside: cycles      *)
(* begin only at start or on a tick and one at a time, and one begun after *)
(* the cancellation never counts as successful.                            *)
THEOREM SafelyRefinesPollLoop == Spec => Loop!Init /\ [][Loop!Next]_(Loop!vars)
<1>1. Init => Loop!Init
  BY DEF Init, Loop!Init
<1>2. TypeOK /\ LastPollBehind /\ [Next]_vars => [Loop!Next]_(Loop!vars)
  BY StepRefines
<1> QED BY <1>1, <1>2, TypeCorrect, LastPollLags, PTL DEF Spec

-----------------------------------------------------------------------------
(* A cycle comes to an end                                                 *)

(* What a cycle may still take: five steps for each resource that has no   *)
(* outcome yet, less those taken for the one in progress.                  *)
CycleLeft ==
  IF ~InCycle THEN 0
  ELSE IF pc = "fetch" THEN 5 * MaxItems + 2
  ELSE 5 * (Len(page) - Len(outcome))
         + (CASE pc = "evaluate" -> 1 [] pc = "decide" -> 0 [] pc = "build" -> -1
              [] pc = "publish" -> -2 [] pc = "broker" -> -3)

PageBounded == Len(page) <= MaxItems

LEMMA PageBoundedNext == TypeOK /\ PageBounded /\ [Next]_vars => PageBounded'
<1> SUFFICES ASSUME TypeOK, PageBounded, [Next]_vars PROVE PageBounded'
  OBVIOUS
<1> USE BoundAssumption DEF PageBounded
<1>1. CASE InitialTrigger \/ TakeTick
  BY <1>1 DEF InitialTrigger, TakeTick, BeginCycle
<1>2. CASE FetchSucceeds
  <2>1. PICK p \in Pages : page' = p
    BY <1>2 DEF FetchSucceeds, FetchAnswered
  <2>2. PICK n \in 0..MaxItems : p \in [1..n -> Item]
    BY <2>1 DEF Pages
  <2>3. Len(p) = n
    BY <2>2
  <2> QED BY <2>1, <2>3
<1>3. CASE ~(InitialTrigger \/ TakeTick \/ FetchSucceeds)
  <2>1. page' = page
    BY <1>3, Steps DEF vars, loopVars, TickerFires, Cancel, APIFails, FetchCancelled, FetchFails,
       FetchReturns, SkipEmptyId, SkipNotDue, DecideToPublish, CountPending, BuildFails,
       EndIteration, StartEvaluate, StartPublish, BrokerTakes, PublishReturnsNil, PublishReturnsError,
       FinishCycle, EndCycle, Stop, Stopped
  <2> QED BY <2>1
<1> QED BY <1>1, <1>2, <1>3

LEMMA LengthsTyped ==
  ASSUME TypeOK, Position
  PROVE  Len(page) \in Nat /\ Len(outcome) \in Nat /\ Len(outcome) <= Len(page)
  BY DEF TypeOK, Position

LEMMA EndIterationCounts ==
  ASSUME TypeOK, Position, NEW o, NEW m, NEW ended, EndIteration(o, m, ended),
         pc \in {"decide", "build", "publish", "broker"}
  PROVE  CycleLeft' < CycleLeft
<1>1. Len(outcome') = Len(outcome) + 1 /\ pc' = "evaluate" /\ page' = page
  BY DEF EndIteration, TypeOK
<1> QED BY <1>1, LengthsTyped DEF CycleLeft, InCycle

LEMMA CycleStep ==
  ASSUME TypeOK, Position, PageBounded, [Next]_vars, InCycle
  PROVE  CycleLeft' < CycleLeft \/ UNCHANGED <<pc, loopVars>>
<1>1. Len(page) \in Nat /\ Len(outcome) \in Nat /\ Len(outcome) <= Len(page)
  BY LengthsTyped
<1>2. CASE FetchSucceeds
  <2>1. PageBounded' /\ Len(page') \in Nat
    BY PageBoundedNext, TypeNext DEF TypeOK
  <2>2. pc = "fetch" /\ pc' = "evaluate" /\ outcome' = outcome /\ Len(outcome) = 0
    BY <1>2 DEF FetchSucceeds, FetchAnswered, Position
  <2> QED BY <2>1, <2>2, BoundAssumption DEF CycleLeft, InCycle, PageBounded
<1>3. CASE APIFails \/ FetchCancelled
  BY <1>3, BoundAssumption
     DEF APIFails, FetchCancelled, FetchFails, FetchReturns, CycleLeft, InCycle
<1>4. CASE SkipEmptyId \/ SkipNotDue \/ BuildFails \/ PublishReturnsNil \/ PublishReturnsError
  BY <1>4, EndIterationCounts
     DEF SkipEmptyId, SkipNotDue, BuildFails, PublishReturnsNil, PublishReturnsError
<1>5. CASE DecideToPublish
  BY <1>1, <1>5 DEF DecideToPublish, CountPending, CycleLeft, InCycle
<1>6. CASE StartEvaluate \/ StartPublish \/ BrokerTakes
  BY <1>1, <1>6 DEF StartEvaluate, StartPublish, BrokerTakes, loopVars, CycleLeft, InCycle
<1>7. CASE FinishCycle
  BY <1>1, <1>7 DEF FinishCycle, EndCycle, CycleLeft, InCycle
<1>8. CASE TickerFires \/ Cancel \/ UNCHANGED vars
  BY <1>8 DEF TickerFires, Cancel, vars
<1>9. CASE InitialTrigger \/ TakeTick \/ Stop \/ Stopped
  BY <1>9 DEF InitialTrigger, TakeTick, Stop, Stopped, InCycle
<1> QED BY <1>2, <1>3, <1>4, <1>5, <1>6, <1>7, <1>8, <1>9, Steps

(* No cycle goes on for ever, however its resources fare: every step that  *)
(* the loop takes in it brings its end nearer, from a number that the page *)
(* gives, and the ticker and the cancellation do not set it back. With the *)
(* fairness of Progress this is why EveryResourceHandled holds.            *)
THEOREM CycleRunsOut ==
  Spec => /\ [](CycleLeft \in 0..(5 * MaxItems + 2) /\ (InCycle => CycleLeft > 0))
          /\ [][InCycle => CycleLeft' < CycleLeft \/ UNCHANGED <<pc, loopVars>>]_vars
<1>1. Init => PageBounded
  BY BoundAssumption DEF Init, PageBounded
<1>2. TypeOK /\ Position /\ PageBounded
        => CycleLeft \in 0..(5 * MaxItems + 2) /\ (InCycle => CycleLeft > 0)
  BY LengthsTyped, BoundAssumption DEF PageBounded, Position, CycleLeft, InCycle, Index
<1>3. TypeOK /\ Position /\ PageBounded /\ [Next]_vars
        => [InCycle => CycleLeft' < CycleLeft \/ UNCHANGED <<pc, loopVars>>]_vars
  BY CycleStep
<1> QED BY <1>1, <1>2, <1>3, TypeCorrect, InPosition, PageBoundedNext, PTL DEF Spec
=============================================================================
