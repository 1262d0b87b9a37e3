---------------------------- MODULE FleetProofs ----------------------------
(***************************************************************************)
(* Theorems about Fleet, for any sentinels, selectors, resources and       *)
(* bounds: the types, and that a settled or moved resource gets one late   *)
(* event per sentinel at the most. The argument: an event can be late only *)
(* because the page is older than the change, a resource is in a page only *)
(* if it gave cause when the page was fetched, and while it gives cause    *)
(* the count is zero.                                                      *)
(***************************************************************************)
EXTENDS Fleet, WellFoundedInduction, TLAPS

Page == [due : SUBSET Ids, other : SUBSET Ids]

Types ==
  /\ api \in [Ids -> Item]
  /\ loop \in [Sentinels -> {"down", "idle", "pass"}]
  /\ page \in [Sentinels -> Page]
  /\ bus \subseteq Ids
  /\ late \in [Sentinels -> [Ids -> Nat]]
  /\ relabels \in 0..MaxRelabels /\ faults \in 0..MaxFaults

Observed  == \A i \in Ids : api[i].observed <= api[i].generation
EmptyPages == \A s \in Sentinels :
  loop[s] # "pass" => page[s].due = {} /\ page[s].other = {}

(* The strengthening: no late event is on record for a resource that gives *)
(* cause for one, nor for one that a page holds as due.                    *)
NoneWhileDue == \A s \in Sentinels, i \in Ids :
  ~Quiet(s, api[i]) \/ i \in page[s].due => late[s][i] = 0

IInv == Types /\ Observed /\ EmptyPages /\ NoneWhileDue /\ AtMostOneLateEvent

-----------------------------------------------------------------------------
(* What a change of one resource preserves.                                *)

LEMMA BecomesKeeps ==
  ASSUME IInv, NEW i \in Ids, NEW r \in Item, r.observed <= r.generation, Becomes(i, r)
  PROVE  /\ api' \in [Ids -> Item] /\ loop' = loop /\ page' = page
         /\ late' \in [Sentinels -> [Ids -> Nat]]
         /\ Observed' /\ EmptyPages' /\ NoneWhileDue' /\ AtMostOneLateEvent'
<1>1. api' \in [Ids -> Item]
  BY DEF IInv, Types, Becomes
<1>2. late' \in [Sentinels -> [Ids -> Nat]]
  BY DEF IInv, Types, Becomes
<1>3. Observed'
  BY DEF IInv, Types, Observed, Becomes
<1>4. EmptyPages'
  BY DEF IInv, EmptyPages, Becomes
<1>5. ASSUME NEW s \in Sentinels, NEW j \in Ids
      PROVE  /\ ~Quiet(s, api'[j]) \/ j \in page'[s].due => late'[s][j] = 0
             /\ late'[s][j] <= 1
  <2>1. late[s][j] <= 1 /\ late[s][j] \in Nat
    BY <1>5 DEF IInv, Types, AtMostOneLateEvent
  <2>2. ~Quiet(s, api[j]) \/ j \in page[s].due => late[s][j] = 0
    BY <1>5 DEF IInv, NoneWhileDue
  <2>3. CASE j = i
    <3>1. api'[j] = r /\ late'[s][j] = IF Quiet(s, r) THEN late[s][j] ELSE 0
      BY <2>3, <1>5 DEF IInv, Types, Becomes
    <3>2. QED
      BY <3>1, <2>1, <2>2 DEF Becomes
  <2>4. CASE j # i
    <3>1. api'[j] = api[j] /\ late'[s][j] = late[s][j]
      BY <2>4, <1>5 DEF IInv, Types, Becomes
    <3>2. QED
      BY <3>1, <2>1, <2>2 DEF Becomes
  <2>5. QED
    BY <2>3, <2>4
<1>6. NoneWhileDue' /\ AtMostOneLateEvent'
  BY <1>5 DEF NoneWhileDue, AtMostOneLateEvent
<1>7. QED
  BY <1>1, <1>2, <1>3, <1>4, <1>6 DEF Becomes

(* What an event of one sentinel for a resource of its page preserves,     *)
(* once the resource has left the page.                                    *)
LEMMA SentKeeps ==
  ASSUME IInv, NEW s \in Sentinels, NEW i \in page[s].due,
         page' = [page EXCEPT ![s].due = @ \ {i}],
         Sent(s, i) \/ UNCHANGED <<bus, late>>,
         loop[s] = "pass", UNCHANGED <<api, loop>>
  PROVE  /\ page' \in [Sentinels -> Page] /\ bus' \subseteq Ids
         /\ late' \in [Sentinels -> [Ids -> Nat]]
         /\ EmptyPages' /\ NoneWhileDue' /\ AtMostOneLateEvent'
<1>1. i \in Ids /\ late[s][i] = 0
  BY DEF IInv, Types, Page, NoneWhileDue
<1>2. page' \in [Sentinels -> Page] /\ bus' \subseteq Ids
  BY <1>1 DEF IInv, Types, Page, Sent
<1>3. late' \in [Sentinels -> [Ids -> Nat]]
  <2>1. CASE Sent(s, i)
    BY <1>1, <2>1 DEF IInv, Types, Sent
  <2>2. CASE UNCHANGED <<bus, late>>
    BY <2>2 DEF IInv, Types
  <2>3. QED
    BY <2>1, <2>2
<1>4. EmptyPages'
  BY DEF IInv, Types, Page, EmptyPages
<1>5. ASSUME NEW t \in Sentinels, NEW j \in Ids
      PROVE  /\ ~Quiet(t, api[j]) \/ j \in page'[t].due => late'[t][j] = 0
             /\ late'[t][j] <= 1
  <2>1. late[t][j] \in Nat /\ late[t][j] <= 1
    BY <1>5 DEF IInv, Types, AtMostOneLateEvent
  <2>2. ~Quiet(t, api[j]) \/ j \in page[t].due => late[t][j] = 0
    BY <1>5 DEF IInv, NoneWhileDue
  <2>3. j \in page'[t].due => j \in page[t].due /\ <<t, j>> # <<s, i>>
    BY <1>5 DEF IInv, Types, Page
  <2>4. CASE late'[t][j] = late[t][j]
    BY <2>1, <2>2, <2>3, <2>4
  <2>5. CASE t = s /\ j = i /\ Sent(s, i)
    <3>1. late'[s][i] = IF Quiet(s, api[i]) THEN 1 ELSE 0
      BY <1>1, <2>5 DEF IInv, Types, Sent
    <3>2. QED
      BY <3>1, <2>5, <2>3
  <2>6. ~(t = s /\ j = i /\ Sent(s, i)) => late'[t][j] = late[t][j]
    BY <1>1, <1>5 DEF IInv, Types, Sent
  <2>7. QED
    BY <2>4, <2>5, <2>6
<1>6. NoneWhileDue' /\ AtMostOneLateEvent'
  BY <1>5 DEF NoneWhileDue, AtMostOneLateEvent
<1>7. QED
  BY <1>2, <1>3, <1>4, <1>6

-----------------------------------------------------------------------------
LEMMA Initial == Init => IInv
<1> SUFFICES ASSUME Init PROVE IInv
  OBVIOUS
<1>1. Types
  BY BoundAssumption DEF Init, Types, Page
<1>2. Observed /\ EmptyPages
  BY BoundAssumption DEF Init, Observed, EmptyPages, Item
<1>3. NoneWhileDue /\ AtMostOneLateEvent
  BY DEF Init, NoneWhileDue, AtMostOneLateEvent
<1>4. QED
  BY <1>1, <1>2, <1>3 DEF IInv

LEMMA FaultCounts == ASSUME faults \in 0..MaxFaults, Fault PROVE faults' \in 0..MaxFaults
BY BoundAssumption DEF Fault

(* A status that an adapter may report.                                    *)
LEMMA Reported ==
  ASSUME NEW r \in Item, NEW o \in 0..r.generation, NEW st \in {"False", "True"}
  PROVE  LET q == [r EXCEPT !.observed = o, !.status = st, !.age = "young"]
         IN q \in Item /\ q.observed <= q.generation
<1> DEFINE q == [r EXCEPT !.observed = o, !.status = st, !.age = "young"]
<1>1. o \in 0..MaxGeneration
  BY BoundAssumption DEF Item
<1>2. [r EXCEPT !.observed = o] \in Item
  BY <1>1 DEF Item
<1>3. \A x \in Item : [x EXCEPT !.status = st] \in Item
  BY DEF Item
<1>4. \A x \in Item : [x EXCEPT !.age = "young"] \in Item
  BY DEF Item
<1>5. q = [[[r EXCEPT !.observed = o] EXCEPT !.status = st] EXCEPT !.age = "young"]
  OBVIOUS
<1>6. q \in Item
  BY <1>2, <1>3, <1>4, <1>5
<1>7. q.observed = o /\ q.generation = r.generation
  BY DEF Item
<1>8. QED
  BY <1>6, <1>7

LEMMA Inductive == IInv /\ [Next]_vars => IInv'
<1> SUFFICES ASSUME IInv, [Next]_vars PROVE IInv'
  OBVIOUS
<1> USE BoundAssumption
<1>u. ASSUME UNCHANGED <<api, loop, page, late>>, bus' \subseteq Ids,
             relabels' \in 0..MaxRelabels, faults' \in 0..MaxFaults
      PROVE  IInv'
  <2>1. Types' /\ Observed' /\ EmptyPages' /\ AtMostOneLateEvent'
    BY <1>u DEF IInv, Types, Observed, EmptyPages, AtMostOneLateEvent
  <2>2. NoneWhileDue'
    BY <1>u DEF IInv, NoneWhileDue
  <2>3. QED
    BY <2>1, <2>2 DEF IInv
<1>1. CASE UNCHANGED vars
  BY <1>1, <1>u DEF vars, IInv, Types
<1>2. ASSUME NEW s \in Sentinels, Fetch(s) PROVE IInv'
  <2> DEFINE d == {i \in Fetched(s) : Due(Convert(api[i]))}
  <2>1. page' = [page EXCEPT ![s] = [due |-> d, other |-> Fetched(s) \ d]]
    BY <1>2 DEF Fetch
  <2>2. d \in SUBSET Ids /\ Fetched(s) \ d \in SUBSET Ids
    BY DEF Fetched
  <2>3. \A i \in d : ~Quiet(s, api[i])
    BY DEF Fetched, Quiet
  <2> HIDE DEF d
  <2>4. page' \in [Sentinels -> Page]
    BY <2>1, <2>2 DEF IInv, Types, Page
  <2>5. Types' /\ Observed' /\ AtMostOneLateEvent'
    BY <1>2, <2>4 DEF Fetch, IInv, Types, Observed, AtMostOneLateEvent
  <2>6. EmptyPages'
    BY <1>2, <2>1 DEF Fetch, IInv, Types, EmptyPages
  <2>7. \A t \in Sentinels, i \in Ids :
          ~Quiet(t, api[i]) \/ i \in page'[t].due => late[t][i] = 0
    BY <2>1, <2>3 DEF IInv, Types, NoneWhileDue
  <2>8. NoneWhileDue'
    BY <1>2, <2>7 DEF Fetch, NoneWhileDue
  <2>9. QED
    BY <2>5, <2>6, <2>8 DEF IInv
<1>3. ASSUME NEW s \in Sentinels, FetchFails(s) PROVE IInv'
  BY <1>3, <1>u, FaultCounts DEF FetchFails, IInv, Types
<1>4. ASSUME NEW s \in Sentinels, NEW i \in Ids, Skip(s, i) PROVE IInv'
  <2>1. page' = [page EXCEPT ![s].other = @ \ {i}] /\ loop[s] = "pass"
    BY <1>4 DEF Skip
  <2>2. Types' /\ Observed' /\ AtMostOneLateEvent' /\ EmptyPages'
    BY <1>4, <2>1 DEF Skip, IInv, Types, Page, Observed, AtMostOneLateEvent, EmptyPages
  <2>3. \A t \in Sentinels : page'[t].due = page[t].due
    BY <2>1 DEF IInv, Types, Page
  <2>4. NoneWhileDue'
    BY <1>4, <2>3 DEF Skip, IInv, NoneWhileDue
  <2>5. QED
    BY <2>2, <2>4 DEF IInv
<1>5. ASSUME NEW s \in Sentinels, NEW i \in Ids, Publish(s, i) \/ PublishFails(s, i)
      PROVE  IInv'
  <2>1. /\ page' \in [Sentinels -> Page] /\ bus' \subseteq Ids
        /\ late' \in [Sentinels -> [Ids -> Nat]]
        /\ EmptyPages' /\ NoneWhileDue' /\ AtMostOneLateEvent'
    BY <1>5, SentKeeps DEF Publish, PublishFails
  <2>2. UNCHANGED <<api, loop, relabels>> /\ faults' \in 0..MaxFaults
    BY <1>5, FaultCounts DEF Publish, PublishFails, IInv, Types
  <2>3. Types' /\ Observed'
    BY <2>1, <2>2 DEF IInv, Types, Observed
  <2>4. QED
    BY <2>1, <2>3 DEF IInv
<1>6. ASSUME NEW s \in Sentinels, FinishPass(s) \/ Restart(s) PROVE IInv'
  <2>1. /\ UNCHANGED <<api, page, bus, late, relabels, faults>>
        /\ loop' = [loop EXCEPT ![s] = "idle"]
        /\ page[s].due = {} /\ page[s].other = {}
    BY <1>6 DEF FinishPass, Restart, IInv, EmptyPages
  <2>2. Types' /\ Observed' /\ AtMostOneLateEvent' /\ EmptyPages'
    BY <2>1 DEF IInv, Types, Observed, AtMostOneLateEvent, EmptyPages
  <2>3. NoneWhileDue'
    BY <2>1 DEF IInv, NoneWhileDue
  <2>4. QED
    BY <2>2, <2>3 DEF IInv
<1>7. ASSUME NEW s \in Sentinels, Crash(s) PROVE IInv'
  <2>1. /\ page' = [page EXCEPT ![s] = [due |-> {}, other |-> {}]]
        /\ UNCHANGED <<api, bus, late, relabels>>
        /\ loop' = [loop EXCEPT ![s] = "down"] /\ faults' \in 0..MaxFaults
    BY <1>7, FaultCounts DEF Crash, IInv, Types
  <2>2. Types' /\ Observed' /\ AtMostOneLateEvent' /\ EmptyPages'
    BY <2>1 DEF IInv, Types, Page, Observed, AtMostOneLateEvent, EmptyPages
  <2>3. \A t \in Sentinels : page'[t].due \subseteq page[t].due
    BY <2>1 DEF IInv, Types, Page
  <2>4. NoneWhileDue'
    BY <2>1, <2>3 DEF IInv, NoneWhileDue
  <2>5. QED
    BY <2>2, <2>4 DEF IInv
<1>8. ASSUME NEW i \in Ids, NEW r \in Item, r.observed <= r.generation, Becomes(i, r),
             bus' \subseteq Ids, relabels' \in 0..MaxRelabels, faults' \in 0..MaxFaults
      PROVE  IInv'
  BY <1>8, BecomesKeeps DEF IInv, Types
<1>9. ASSUME NEW i \in Ids PROVE api[i] \in Item /\ api[i].observed <= api[i].generation
  BY <1>9 DEF IInv, Types, Observed
<1>10. ASSUME NEW i \in Ids, SpecChange(i) PROVE IInv'
  <2> DEFINE r == [api[i] EXCEPT !.generation = @ + 1]
  <2>1. r \in Item /\ r.observed <= r.generation
    BY <1>9, <1>10 DEF SpecChange, Item
  <2>2. Becomes(i, r) /\ UNCHANGED <<bus, relabels, faults>>
    BY <1>10 DEF SpecChange
  <2>3. QED
    BY <2>1, <2>2, <1>8 DEF IInv, Types
<1>11. ASSUME NEW i \in Ids, Relabel(i) PROVE IInv'
  <2>1. PICK l \in Labels, v \in Values \cup {NoLabel} :
          Becomes(i, [api[i] EXCEPT !.labels[l] = v])
    BY <1>11 DEF Relabel
  <2> DEFINE r == [api[i] EXCEPT !.labels[l] = v]
  <2>2. r \in Item /\ r.observed <= r.generation
    BY <1>9 DEF Item
  <2>3. relabels' \in 0..MaxRelabels /\ UNCHANGED <<bus, faults>>
    BY <1>11 DEF Relabel, IInv, Types
  <2>4. QED
    BY <2>1, <2>2, <2>3, <1>8 DEF IInv, Types
<1>12. ASSUME NEW i \in Ids, Grow(i) PROVE IInv'
  <2> DEFINE r == [api[i] EXCEPT !.age = IF @ = "young" THEN "settling" ELSE "old"]
  <2>1. r \in Item /\ r.observed <= r.generation
    BY <1>9 DEF Item
  <2>2. Becomes(i, r) /\ UNCHANGED <<bus, relabels, faults>>
    BY <1>12 DEF Grow
  <2>3. QED
    BY <2>1, <2>2, <1>8 DEF IInv, Types
<1>13. ASSUME NEW i \in Ids, Handle(i) PROVE IInv'
  <2> DEFINE r == [api[i] EXCEPT !.observed = api[i].generation,
                                 !.status = "True", !.age = "young"]
  <2>0. api[i] \in Item /\ api[i].generation \in 0..api[i].generation
    BY <1>9 DEF Item
  <2>1. r \in Item /\ r.observed <= r.generation
    BY <2>0, Reported
  <2>2. Becomes(i, r) /\ bus' \subseteq Ids /\ UNCHANGED <<relabels, faults>>
    BY <1>13 DEF Handle, IInv, Types
  <2>3. QED
    BY <2>1, <2>2, <1>8 DEF IInv, Types
<1>14. ASSUME NEW i \in Ids, HandlePartly(i) PROVE IInv'
  <2>1. PICK o \in api[i].observed..api[i].generation :
          Becomes(i, [api[i] EXCEPT !.observed = o, !.status = "False", !.age = "young"])
    BY <1>14 DEF HandlePartly
  <2> DEFINE r == [api[i] EXCEPT !.observed = o, !.status = "False", !.age = "young"]
  <2>0. api[i] \in Item /\ o \in 0..api[i].generation
    BY <1>9 DEF Item
  <2>2. r \in Item /\ r.observed <= r.generation
    BY <2>0, Reported
  <2>3. bus' \subseteq Ids /\ UNCHANGED relabels /\ faults' \in 0..MaxFaults
    BY <1>14, FaultCounts DEF HandlePartly, IInv, Types
  <2>4. QED
    BY <2>1, <2>2, <2>3, <1>8 DEF IInv, Types
<1>15. ASSUME NEW i \in Ids, Lose(i) PROVE IInv'
  BY <1>15, <1>u, FaultCounts DEF Lose, IInv, Types
<1>16. CASE Next
  BY <1>16, <1>2, <1>3, <1>4, <1>5, <1>6, <1>7, <1>10, <1>11, <1>12, <1>13, <1>14, <1>15
     DEF Next, Cycle
<1>17. QED
  BY <1>1, <1>16

-----------------------------------------------------------------------------
LEMMA Invariance == Spec => []IInv
BY Initial, Inductive, PTL DEF Spec

(* The variables keep their types: no resource has observed a generation   *)
(* it has not reached, and a page does not outlive its pass, in particular *)
(* not the crash of its sentinel (Crash, Restart, FinishPass).             *)
THEOREM TypeCorrect == Spec => []TypeOK
<1>1. IInv => TypeOK
  BY DEF IInv, Types, Page, Observed, EmptyPages, TypeOK
<1>2. QED
  BY Invariance, <1>1, PTL

(* However many sentinels share the resources and whatever fails: a        *)
(* resource that gives no cause for an event any more gets one of each at  *)
(* the most (Publish and PublishFails, whose page is older than the change). *)
THEOREM LateEventsBounded == Spec => []AtMostOneLateEvent
<1>1. IInv => AtMostOneLateEvent
  BY DEF IInv
<1>2. QED
  BY Invariance, <1>1, PTL

-----------------------------------------------------------------------------
(* From resource_selector to what a sentinel sees.                         *)

(* A label of the map has a last entry in the list.                        *)
LEMMA LastEntry ==
  ASSUME NEW ls, ls \in Seq(Selector), NEW l, \E i \in DOMAIN ls : ls[i].label = l
  PROVE  \E i \in DOMAIN ls : ls[i].label = l /\ \A j \in (i + 1)..Len(ls) : ls[j].label # l
<1> DEFINE n == Len(ls)
           T == {i \in 1..n : ls[i].label = l}
           R == OpToRel(<, Nat)
           U == {n - i : i \in T}
<1>1. n \in Nat /\ DOMAIN ls = 1..n
  OBVIOUS
<1>2. U \subseteq Nat /\ U # {}
  BY <1>1
<1>3. \E x \in U : \A y \in U : ~(<<y, x>> \in R)
  <2> HIDE DEF R, U
  <2>1. IsWellFoundedOn(R, Nat)
    BY NatLessThanWellFounded DEF R
  <2>2. QED
    BY <1>2, <2>1, WFMin
<1>4. \A x, y \in Nat : y < x => <<y, x>> \in R
  BY DEF OpToRel
<1>5. PICK i \in T : \A y \in U : ~(<<y, n - i>> \in R)
  BY <1>3
<1>6. ASSUME NEW k \in T, k > i PROVE FALSE
  <2>1. n - k \in U /\ n - k \in Nat /\ n - i \in Nat /\ n - k < n - i
    BY <1>1, <1>6
  <2>2. QED
    BY <1>4, <1>5, <2>1
<1>7. ASSUME NEW j \in (i + 1)..n PROVE ls[j].label # l
  <2>1. i \in 1..n
    OBVIOUS
  <2>2. j \in 1..n /\ j > i
    <3> HIDE DEF n, T
    <3>1. QED
      BY <1>1, <1>7, <2>1
  <2>3. QED
    BY <1>6, <2>2
<1>8. QED
  BY <1>1, <1>5, <1>7

(* The map that ToMap fills and the search string made of it select what   *)
(* the list says: all of its entries that have a label and are not         *)
(* overridden by a later one.                                              *)
LEMMA SelectedIsCounted ==
  ASSUME NEW s \in Sentinels, NEW r
  PROVE  Selected(s, r) <=> \A k \in DOMAIN Selectors[s] :
           Counts(s, k) => r.labels[Selectors[s][k].label] = Selectors[s][k].value
<1> DEFINE ls == Selectors[s]
           m  == ToMap(ls)
           Last(l, i) == ls[i].label = l /\ \A j \in (i + 1)..Len(ls) : ls[j].label # l
<1>1. ls \in Seq(Selector) /\ Len(ls) \in Nat /\ DOMAIN ls = 1..Len(ls)
  BY SelectorAssumption
<1>2. DOMAIN m = {ls[i].label : i \in DOMAIN ls} \ {NoLabel}
  BY DEF ToMap
<1>3. ASSUME NEW l \in DOMAIN m
      PROVE  \E i \in DOMAIN ls : Last(l, i) /\ m[l] = ls[i].value
  <2>1. \E i \in DOMAIN ls : ls[i].label = l
    BY <1>2
  <2>2. \E i \in DOMAIN ls : Last(l, i)
    <3> HIDE DEF ls
    <3>1. QED
      BY <1>1, <2>1, LastEntry
  <2>3. m[l] = ls[CHOOSE i \in DOMAIN ls : Last(l, i)].value
    BY <1>2 DEF ToMap
  <2>4. QED
    BY <2>2, <2>3
<1>4. ASSUME NEW k \in DOMAIN ls, NEW i \in DOMAIN ls, NEW l, Last(l, k), Last(l, i)
      PROVE  k = i
  <2>1. k \in Nat /\ i \in Nat /\ k <= Len(ls) /\ i <= Len(ls)
    BY <1>1
  <2>2. ~(k < i) /\ ~(i < k)
    BY <1>1, <1>4, <2>1
  <2>3. QED
    BY <2>1, <2>2
<1>5. \A k \in DOMAIN ls : Counts(s, k) <=> ls[k].label # NoLabel /\ Last(ls[k].label, k)
  BY DEF Counts
<1>6. Selected(s, r) <=> \A l \in DOMAIN m : r.labels[l] = m[l]
  <2>1. Search(s) = {<<l, m[l]>> : l \in DOMAIN m}
    BY DEF Search
  <2> HIDE DEF m
  <2>2. ASSUME Selected(s, r), NEW l \in DOMAIN m PROVE r.labels[l] = m[l]
    <3> DEFINE t == <<l, m[l]>>
    <3>1. t \in Search(s) /\ t[1] = l /\ t[2] = m[l]
      BY <2>1
    <3> HIDE DEF t
    <3>2. QED
      BY <2>2, <3>1 DEF Selected
  <2>3. ASSUME \A l \in DOMAIN m : r.labels[l] = m[l], NEW t \in Search(s)
        PROVE  r.labels[t[1]] = t[2]
    <3>1. PICK l \in DOMAIN m : t = <<l, m[l]>>
      BY <2>1
    <3>2. t[1] = l /\ t[2] = m[l]
      BY <3>1
    <3>3. QED
      BY <2>3, <3>2
  <2>4. QED
    BY <2>2, <2>3 DEF Selected
<1> HIDE DEF m, ls, Last
<1>7. ASSUME NEW k \in DOMAIN ls, Counts(s, k)
      PROVE  ls[k].label \in DOMAIN m /\ m[ls[k].label] = ls[k].value
  <2>1. ls[k].label \in DOMAIN m /\ Last(ls[k].label, k)
    BY <1>2, <1>5, <1>7
  <2>2. QED
    BY <1>3, <1>4, <2>1
<1>8. ASSUME NEW l \in DOMAIN m
      PROVE  \E k \in DOMAIN ls : Counts(s, k) /\ ls[k].label = l /\ ls[k].value = m[l]
  <2>1. PICK k \in DOMAIN ls : Last(l, k) /\ m[l] = ls[k].value
    BY <1>3
  <2>2. l # NoLabel /\ ls[k].label = l
    BY <1>2, <2>1 DEF Last
  <2>3. QED
    BY <1>5, <2>1, <2>2
<1>9. QED
  BY <1>6, <1>7, <1>8 DEF ls

(* Whatever the labels become, a resource is covered (Reconciles promises  *)
(* that such a resource is reconciled) exactly while some sentinel's       *)
(* search finds it: neither an entry of the list without a label nor one   *)
(* that is overridden makes a difference, and no other is lost on the way  *)
(* through ToMap and the search string.                                    *)
THEOREM CoveredIsFound ==
  Spec => [](\A i \in Ids : Covered(i) <=> \E s \in Sentinels : Selected(s, api[i]))
<1>1. \A i \in Ids : Covered(i) <=> \E s \in Sentinels : Selected(s, api[i])
  BY SelectedIsCounted DEF Covered
<1>2. QED
  BY <1>1, PTL

-----------------------------------------------------------------------------
(* The decision is the engine's.                                           *)

LongestDuration == 9223372036
NoDate == CHOOSE v : v \notin Int

LEMMA NoDateIsNoTime == NoDate \notin Int
  BY NoSetContainsEverything DEF NoDate

(* The engine under the thresholds that the classes of an age stand for;   *)
(* of its behaviour nothing is used here but what it decides.              *)
Engine == INSTANCE DecisionEngine WITH
  Generations <- 0..MaxGeneration, Statuses <- {"True", "False"}, Times <- Int, Nows <- Int,
  MaxConditions <- 1, Stale <- 1800, Debounce <- 10, MaxDuration <- LongestDuration,
  NoTime <- NoDate, ZeroTime <- "zero", Nil <- "nil", Err <- "error",
  pc <- "idle", resource <- "nil", now <- "zero", lookup <- <<>>, env <- <<>>, decision <- <<>>

Class(age) == IF age > 1800 THEN "old" ELSE IF age > 10 THEN "settling" ELSE "young"

(* Item r of Fleet is resource x of the engine at time t: the same         *)
(* generation, and a Reconciled condition of the same content and of an    *)
(* age of r's class that CEL can compute, or none.                         *)
Stands(r, x, t) ==
  LET c == Engine!Reconciled(x)
  IN /\ x.generation = r.generation
     /\ IF r.status = "none" THEN c = Engine!ZeroCondition
        ELSE /\ c.status = r.status /\ c.observed = r.observed
             /\ c.updated \in Int /\ r.age = Class(t - c.updated)
             /\ Engine!Measurable(t, c.updated)

(* What both modules make of a missing condition.                          *)
LEMMA NoConditionIsNotReconciled ==
  /\ ZeroCondition.status # "True" /\ ZeroCondition.observed = 0
  /\ ZeroCondition.age = "none"
  /\ Engine!ZeroCondition.status # "True" /\ Engine!ZeroCondition.observed = 0
  /\ Engine!ZeroCondition.updated = NoDate
<1>1. ZeroCondition.status # "True" /\ Engine!ZeroCondition.status # "True"
  BY Zenon DEF ZeroCondition, Engine!ZeroCondition
<1>2. ZeroCondition.observed = 0 /\ ZeroCondition.age = "none"
  BY Zenon DEF ZeroCondition
<1>3. Engine!ZeroCondition.observed = 0 /\ Engine!ZeroCondition.updated = NoDate
  BY Zenon DEF Engine!ZeroCondition
<1>4. QED
  BY <1>1, <1>2, <1>3

(* The four triggers over the content of a condition.                      *)
LEMMA EngineTriggers ==
  ASSUME NEW x, NEW t, NEW c, c = Engine!Reconciled(x)
  PROVE  /\ Engine!Due(x, t) <=> \/ c.status # "True" /\ x.generation = 1
                                \/ x.generation > c.observed
                                \/ /\ c.updated # NoDate
                                   /\ t - c.updated > (IF c.status = "True" THEN 1800 ELSE 10)
         /\ Engine!Dateable(x, t) <=> (c.updated # NoDate => Engine!Measurable(t, c.updated))
  BY DEF Engine!Due, Engine!Dateable

LEMMA ClassThresholds ==
  ASSUME NEW d \in Int
  PROVE  (Class(d) = "old" <=> d > 1800) /\ (Class(d) \in {"settling", "old"} <=> d > 10)
  BY DEF Class

(* The default message_decision of Fleet, over classes of ages, is the one *)
(* that Evaluate comes to (Decides of DecisionEngineProofs) for the        *)
(* resource converted from the item, whatever its time and conditions are. *)
THEOREM DecisionIsEngines ==
  ASSUME NEW r \in Item, NEW x, NEW t \in Int, Stands(r, x, t)
  PROVE  Due(Convert(r)) <=> Engine!Dateable(x, t) /\ Engine!Due(x, t)
<1>1. PICK c : c = Engine!Reconciled(x)
  OBVIOUS
<1>2. /\ Engine!Due(x, t) <=> \/ c.status # "True" /\ x.generation = 1
                             \/ x.generation > c.observed
                             \/ /\ c.updated # NoDate
                                /\ t - c.updated > (IF c.status = "True" THEN 1800 ELSE 10)
      /\ Engine!Dateable(x, t) <=> (c.updated # NoDate => Engine!Measurable(t, c.updated))
  BY <1>1, EngineTriggers
<1>3. /\ x.generation = r.generation
      /\ r.status = "none" => c = Engine!ZeroCondition
      /\ r.status # "none" => /\ c.status = r.status /\ c.observed = r.observed
                              /\ c.updated \in Int /\ c.updated # NoDate
                              /\ r.age = Class(t - c.updated)
                              /\ Engine!Measurable(t, c.updated)
  BY <1>1, NoDateIsNoTime DEF Stands
<1>4. CASE r.status = "none"
  <2>1. c.status # "True" /\ c.observed = 0 /\ c.updated = NoDate
    BY <1>3, <1>4, NoConditionIsNotReconciled
  <2>2. /\ Convert(r).generation = r.generation
        /\ Convert(r).reconciled = ZeroCondition
    BY <1>4 DEF Convert
  <2>3. Due(Convert(r)) <=> r.generation = 1 \/ r.generation > 0
    BY <2>2, NoConditionIsNotReconciled DEF Due
  <2>4. QED
    BY <1>2, <1>3, <2>1, <2>3
<1>5. CASE r.status # "none"
  <2>1. /\ Convert(r).generation = r.generation
        /\ Convert(r).reconciled.status = r.status
        /\ Convert(r).reconciled.observed = r.observed
        /\ Convert(r).reconciled.age = r.age
    BY <1>5 DEF Convert
  <2>2. Due(Convert(r)) <=> \/ r.status # "True" /\ r.generation = 1
                            \/ r.generation > r.observed
                            \/ r.status = "True" /\ r.age = "old"
                            \/ r.status # "True" /\ r.age \in {"settling", "old"}
    BY <2>1 DEF Due
  <2>3. PICK d \in Int : d = t - c.updated
    BY <1>3, <1>5
  <2>4. (r.age = "old" <=> d > 1800) /\ (r.age \in {"settling", "old"} <=> d > 10)
    BY <1>3, <1>5, <2>3, ClassThresholds
  <2>5. QED
    BY <1>2, <1>3, <1>5, <2>2, <2>3, <2>4
<1>6. QED
  BY <1>4, <1>5

(* Every item stands for a resource at some time, so that the theorem says *)
(* something of each.                                                      *)
LEMMA EveryItemStands ==
  ASSUME NEW r \in Item
  PROVE  \E x : \E t \in Int : Stands(r, x, t)
<1> DEFINE c == [type |-> "Reconciled", status |-> r.status, observed |-> r.observed,
                 updated |-> 0]
           x == [generation |-> r.generation,
                 conditions |-> IF r.status = "none" THEN <<>> ELSE <<c>>]
           at == {i \in DOMAIN x.conditions : x.conditions[i].type = "Reconciled"}
<1>1. CASE r.status = "none"
  <2>1. at = {}
    BY <1>1
  <2>2. Engine!Reconciled(x) = Engine!ZeroCondition
    BY <2>1 DEF Engine!Reconciled
  <2>3. x.generation = r.generation
    OBVIOUS
  <2> HIDE DEF x
  <2>4. Stands(r, x, 0)
    BY <1>1, <2>2, <2>3 DEF Stands
  <2>5. QED
    BY <2>4
<1>2. CASE r.status # "none"
  <2>1. PICK t \in Int : t \in 0..1801 /\ r.age = Class(t)
    <3>1. Class(0) = "young" /\ Class(11) = "settling" /\ Class(1801) = "old"
      BY DEF Class
    <3>2. r.age \in {"young", "settling", "old"}
      BY DEF Item
    <3>3. QED
      BY <3>1, <3>2
  <2>2. DOMAIN x.conditions = {1} /\ x.conditions[1] = c
    BY <1>2
  <2>3. at = {1}
    <3>1. c.type = "Reconciled"
      OBVIOUS
    <3> HIDE DEF c, x
    <3>2. QED
      BY <2>2, <3>1
  <2>4. x.generation = r.generation
    OBVIOUS
  <2>5. c.status = r.status /\ c.observed = r.observed /\ c.updated = 0
    OBVIOUS
  <2> HIDE DEF x, c
  <2>6. Engine!Reconciled(x) = c
    <3>1. Engine!Reconciled(x) = x.conditions[CHOOSE i \in at : \A j \in at : j <= i]
      BY <2>3, Zenon DEF Engine!Reconciled
    <3> HIDE DEF at
    <3>2. (CHOOSE i \in at : \A j \in at : j <= i) = 1
      BY <2>3
    <3>3. QED
      BY <2>2, <3>1, <3>2
  <2>7. t - c.updated = t /\ c.updated \in Int
    BY <2>5
  <2>8. Engine!Measurable(t, c.updated)
    <3>1. 0 <= t /\ t <= 1801
      BY <2>1
    <3>2. LongestDuration \in Int /\ 1801 <= LongestDuration
      BY SMT DEF LongestDuration
    <3>3. QED
      BY <2>7, <3>1, <3>2, SMT DEF Engine!Measurable
  <2>9. Stands(r, x, t)
    BY <1>2, <2>1, <2>4, <2>5, <2>6, <2>7, <2>8 DEF Stands
  <2>10. QED
    BY <2>9
<1>3. QED
  BY <1>1, <1>2
=============================================================================
