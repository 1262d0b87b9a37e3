------------------------------- MODULE Fleet -------------------------------
(***************************************************************************)
(* Several sentinels over one HyperFleet API and one topic: each fetches   *)
(* the resources its resource_selector selects (ToMap of internal/config,  *)
(* the search string and the conversion of internal/client), decides on    *)
(* the page it holds and publishes; adapters take the events and bring the *)
(* status of a resource up to date. A sentinel keeps nothing over a crash, *)
(* events get lost, labels and specs change while a page is being worked   *)
(* through. The cycle is that of Sentinel, the decision the four triggers  *)
(* that DecisionEngine shows Evaluate to come to, the retries of a fetch   *)
(* are left to FetchRetry.                                                 *)
(***************************************************************************)
EXTENDS Integers, Sequences, FiniteSets

CONSTANTS
  Sentinels,      \* the running deployments
  Ids,            \* the resources of the API
  Labels, Values, \* labels of resources and their values
  NoLabel,        \* the empty string, as a selector's label or a label's value
  Selectors,      \* each sentinel's resource_selector, a list
  MaxGeneration,  \* bound: generation of a resource
  MaxRelabels,    \* bound: changes of labels
  MaxFaults       \* bound: crashes, failed fetches, lost events and half-done work

Selector == [label : Labels \cup {NoLabel}, value : Values]

ASSUME SelectorAssumption == Selectors \in [Sentinels -> Seq(Selector)]
ASSUME LabelAssumption    == NoLabel \notin Labels /\ NoLabel \notin Values
ASSUME BoundAssumption    ==
  MaxGeneration \in Nat \ {0} /\ MaxRelabels \in Nat /\ MaxFaults \in Nat

(* A resource of the API: its Reconciled condition, if it has a status, and *)
(* the class of that condition's age: up to 10 s, up to 30 min, above.      *)
Item == [labels : [Labels -> Values \cup {NoLabel}], generation : 1..MaxGeneration,
         observed : 0..MaxGeneration, status : {"none", "False", "True"},
         age : {"young", "settling", "old"}]

VARIABLES
  api,      \* the resources as the API has them
  loop,     \* each sentinel: "down", "idle" or "pass"
  page,     \* the resources it has fetched and not come to: those due and not
  bus,      \* resources for which an event waits for the adapters
  late,     \* history: events sent since the resource last gave no cause for one
  relabels, \* changes of labels so far (only the bound reads it)
  faults    \* faults so far (only the bound reads it)

vars == <<api, loop, page, bus, late, relabels, faults>>

-----------------------------------------------------------------------------
(* From resource_selector to the resources a sentinel sees.                *)

(* A map filled in list order: the last selector with a label counts, and  *)
(* one without a label does not.                                           *)
ToMap(ls) ==
  [l \in {ls[i].label : i \in DOMAIN ls} \ {NoLabel} |->
     ls[CHOOSE i \in DOMAIN ls : /\ ls[i].label = l
                                 /\ \A j \in (i + 1)..Len(ls) : ls[j].label # l].value]

(* The search string is a conjunction, one term labels.l='v' per entry of  *)
(* the map; trigger adds no further filter. Terms are sorted and quoted,   *)
(* so that it says no more and no less than this set.                      *)
Search(s) == LET m == ToMap(Selectors[s]) IN {<<l, m[l]>> : l \in DOMAIN m}

(* What the API answers to a search; an empty one selects everything.      *)
Selected(s, r) == \A t \in Search(s) : r.labels[t[1]] = t[2]

ZeroCondition == [status |-> "", observed |-> 0, age |-> "none"]

(* An item becomes a resource whether it has conditions or not; a missing  *)
(* Reconciled condition is what condition() makes of it.                   *)
Convert(r) ==
  [generation |-> r.generation,
   reconciled |-> IF r.status = "none" THEN ZeroCondition
                  ELSE [status |-> r.status, observed |-> r.observed, age |-> r.age]]

(* Fault: items without status are skipped, as the comment has it.         *)
FetchedWithStatus(s) == {i \in Ids : Selected(s, api[i]) /\ api[i].status # "none"}

Fetched(s) == {i \in Ids : Selected(s, api[i])}

(* The default message_decision.                                           *)
Due(r) ==
  \/ r.reconciled.status # "True" /\ r.generation = 1
  \/ r.generation > r.reconciled.observed
  \/ r.reconciled.status = "True" /\ r.reconciled.age = "old"
  \/ r.reconciled.status # "True" /\ r.reconciled.age \in {"settling", "old"}

-----------------------------------------------------------------------------
Init ==
  /\ api \in [Ids -> {r \in Item : /\ r.generation = 1 /\ r.observed = 0
                                   /\ r.status = "none" /\ r.age = "young"}]
  /\ loop = [s \in Sentinels |-> "idle"]
  /\ page = [s \in Sentinels |-> [due |-> {}, other |-> {}]]
  /\ bus = {}
  /\ late = [s \in Sentinels |-> [i \in Ids |-> 0]]
  /\ relabels = 0 /\ faults = 0

Fault == faults < MaxFaults /\ faults' = faults + 1

(* Resource r of the API gives sentinel s no cause for an event.           *)
Quiet(s, r) == ~Selected(s, r) \/ ~Due(Convert(r))

-----------------------------------------------------------------------------
(* The sentinels.                                                          *)

(* FetchResources has come back, and `now` is taken: what the pass will    *)
(* decide is decided by this page and this time.                           *)
Fetch(s) ==
  /\ loop[s] = "idle" /\ loop' = [loop EXCEPT ![s] = "pass"]
  /\ LET f == Fetched(s)
         d == {i \in f : Due(Convert(api[i]))}
     IN page' = [page EXCEPT ![s] = [due |-> d, other |-> f \ d]]
  /\ UNCHANGED <<api, bus, late, relabels, faults>>

(* The error return of trigger: the next tick tries again.                 *)
FetchFails(s) ==
  /\ loop[s] = "idle" /\ Fault
  /\ UNCHANGED <<api, loop, page, bus, late, relabels>>

Skip(s, i) ==
  /\ loop[s] = "pass" /\ i \in page[s].other
  /\ page' = [page EXCEPT ![s].other = @ \ {i}]
  /\ UNCHANGED <<api, loop, bus, late, relabels, faults>>

(* The broker takes an event of s for i.                                   *)
Sent(s, i) ==
  /\ bus' = bus \cup {i}
  /\ late' = [late EXCEPT ![s][i] = IF Quiet(s, api[i]) THEN @ + 1 ELSE 0]

Publish(s, i) ==
  /\ loop[s] = "pass" /\ i \in page[s].due
  /\ page' = [page EXCEPT ![s].due = @ \ {i}]
  /\ Sent(s, i)
  /\ UNCHANGED <<api, loop, relabels, faults>>

(* Fault: an event whose publication has failed is sent again.             *)
PublishFailsAndRetries(s, i) ==
  /\ loop[s] = "pass" /\ i \in page[s].due /\ Fault
  /\ Sent(s, i) \/ UNCHANGED <<bus, late>>
  /\ UNCHANGED <<api, loop, page, relabels>>

(* Fault: the error ends the pass, what is left of the page stays.         *)
PublishFailsEndsPass(s, i) ==
  /\ loop[s] = "pass" /\ i \in page[s].due /\ Fault
  /\ loop' = [loop EXCEPT ![s] = "idle"]
  /\ Sent(s, i) \/ UNCHANGED <<bus, late>>
  /\ UNCHANGED <<api, page, relabels>>

(* Publish returns an error, for an event that the broker may have taken,  *)
(* and the loop goes on to the next resource.                              *)
PublishFails(s, i) ==
  /\ loop[s] = "pass" /\ i \in page[s].due /\ Fault
  /\ page' = [page EXCEPT ![s].due = @ \ {i}]
  /\ Sent(s, i) \/ UNCHANGED <<bus, late>>
  /\ UNCHANGED <<api, loop, relabels>>

FinishPass(s) ==
  /\ loop[s] = "pass" /\ page[s].due = {} /\ page[s].other = {}
  /\ loop' = [loop EXCEPT ![s] = "idle"]
  /\ UNCHANGED <<api, page, bus, late, relabels, faults>>

Crash(s) ==
  /\ loop[s] # "down" /\ Fault
  /\ loop' = [loop EXCEPT ![s] = "down"]
  /\ page' = [page EXCEPT ![s] = [due |-> {}, other |-> {}]]
  /\ UNCHANGED <<api, bus, late, relabels>>

Restart(s) ==
  /\ loop[s] = "down" /\ loop' = [loop EXCEPT ![s] = "idle"]
  /\ UNCHANGED <<api, page, bus, late, relabels, faults>>

Cycle(s) ==
  \/ Restart(s) \/ Fetch(s) \/ FinishPass(s)
  \/ \E i \in Ids : Skip(s, i) \/ Publish(s, i)

-----------------------------------------------------------------------------
(* The API, the broker and the adapters.                                   *)

Becomes(i, r) ==
  /\ api' = [api EXCEPT ![i] = r]
  /\ late' = [s \in Sentinels |->
                [late[s] EXCEPT ![i] = IF Quiet(s, r) THEN @ ELSE 0]]
  /\ UNCHANGED <<loop, page>>

SpecChange(i) ==
  /\ api[i].generation < MaxGeneration
  /\ Becomes(i, [api[i] EXCEPT !.generation = @ + 1])
  /\ UNCHANGED <<bus, relabels, faults>>

Relabel(i) ==
  /\ relabels < MaxRelabels /\ relabels' = relabels + 1
  /\ \E l \in Labels, v \in Values \cup {NoLabel} :
       Becomes(i, [api[i] EXCEPT !.labels[l] = v])
  /\ UNCHANGED <<bus, faults>>

Grow(i) ==
  /\ api[i].status # "none" /\ api[i].age # "old"
  /\ Becomes(i, [api[i] EXCEPT !.age = IF @ = "young" THEN "settling" ELSE "old"])
  /\ UNCHANGED <<bus, relabels, faults>>

(* The adapters do all that the event asks for.                            *)
Handle(i) ==
  /\ i \in bus /\ bus' = bus \ {i}
  /\ Becomes(i, [api[i] EXCEPT !.observed = api[i].generation,
                               !.status = "True", !.age = "young"])
  /\ UNCHANGED <<relabels, faults>>

(* Some of them have not finished, or report on an older generation.       *)
HandlePartly(i) ==
  /\ i \in bus /\ bus' = bus \ {i} /\ Fault
  /\ \E o \in api[i].observed..api[i].generation :
       Becomes(i, [api[i] EXCEPT !.observed = o, !.status = "False", !.age = "young"])
  /\ UNCHANGED relabels

Lose(i) ==
  /\ i \in bus /\ bus' = bus \ {i} /\ Fault
  /\ UNCHANGED <<api, loop, page, late, relabels>>

-----------------------------------------------------------------------------
Next ==
  \/ \E s \in Sentinels :
       \/ Cycle(s) \/ FetchFails(s) \/ Crash(s)
       \/ \E i \in Ids : PublishFails(s, i)
  \/ \E i \in Ids :
       \/ SpecChange(i) \/ Relabel(i) \/ Grow(i)
       \/ Handle(i) \/ HandlePartly(i) \/ Lose(i)

(* A sentinel polls and is restarted, time passes, the adapters work.      *)
Fairness ==
  /\ \A s \in Sentinels : WF_vars(Cycle(s))
  /\ \A i \in Ids : WF_vars(Grow(i)) /\ WF_vars(Handle(i))

Spec == Init /\ [][Next]_vars /\ Fairness

-----------------------------------------------------------------------------
(* Properties                                                              *)

TypeOK ==
  /\ api \in [Ids -> Item] /\ \A i \in Ids : api[i].observed <= api[i].generation
  /\ loop \in [Sentinels -> {"down", "idle", "pass"}]
  /\ page \in [Sentinels -> [due : SUBSET Ids, other : SUBSET Ids]]
  /\ \A s \in Sentinels : loop[s] # "pass" => page[s].due = {} /\ page[s].other = {}
  /\ bus \subseteq Ids
  /\ late \in [Sentinels -> [Ids -> Nat]]
  /\ relabels \in 0..MaxRelabels /\ faults \in 0..MaxFaults

(* A page is a snapshot, so a sentinel may publish for a resource that has *)
(* been reconciled or has moved to another shard in the meantime: once at  *)
(* the most until the resource gives cause for an event again, whatever    *)
(* crashes, fails or is answered with an error.                            *)
AtMostOneLateEvent == \A s \in Sentinels, i \in Ids : late[s][i] <= 1

Settled(i) == api[i].status = "True" /\ api[i].observed = api[i].generation

(* Of a list the entries with a label count, the last one for each label.  *)
Counts(s, k) ==
  LET ls == Selectors[s]
  IN ls[k].label # NoLabel /\ \A j \in (k + 1)..Len(ls) : ls[j].label # ls[k].label

Covered(i) == \E s \in Sentinels : \A k \in DOMAIN Selectors[s] :
  Counts(s, k) => api[i].labels[Selectors[s][k].label] = Selectors[s][k].value

(* Nothing is remembered and nothing is acknowledged, and still every      *)
(* resource that is selected by a sentinel gets reconciled, new ones       *)
(* without a status and half-done ones included: what a crash, an error or *)
(* a lost event has dropped is found again by a later poll.                *)
Reconciles == \A i \in Ids : (Covered(i) /\ ~Settled(i)) ~> (Settled(i) \/ ~Covered(i))
=============================================================================
