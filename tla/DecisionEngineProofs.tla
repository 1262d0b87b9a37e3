------------------------ MODULE DecisionEngineProofs ------------------------
(***************************************************************************)
(* Theorems about DecisionEngine, for any generations, statuses, times,    *)
(* thresholds and numbers of conditions: Evaluate decides the triggers.    *)
(* The argument: the table a call builds answers condition() as the        *)
(* resource itself would, so that each param bound has the value its       *)
(* trigger has over the resource; only the two time-based params can fail, *)
(* and they do when the age of the status cannot be computed.              *)
(***************************************************************************)
EXTENDS DecisionEngine, FiniteSetTheorems, WellFoundedInduction, TLAPS

-----------------------------------------------------------------------------
(* The lookup table.                                                       *)

LEMMA LastOf ==
  ASSUME NEW n \in Nat, NEW T \in SUBSET (1..n), T # {}
  PROVE  \E m \in T : \A k \in T : k <= m
<1> DEFINE R == OpToRel(<, Nat)
           U == {n - i : i \in T}
<1>1. \A i \in T : i \in 1..n /\ n - i \in Nat
  OBVIOUS
<1>2. U \subseteq Nat /\ U # {}
  BY <1>1
<1>3. \E x \in U : \A y \in U : ~(<<y, x>> \in R)
  <2> HIDE DEF R, U
  <2>1. IsWellFoundedOn(R, Nat)
    BY NatLessThanWellFounded DEF R
  <2>2. QED
    BY <1>2, <2>1, WFMin
<1>4. \A x, y \in Nat : y < x => <<y, x>> \in R
  BY DEF OpToRel
<1>5. PICK i \in T : \A y \in U : ~(<<y, n - i>> \in R)
  BY <1>3
<1>6. ASSUME NEW k \in T, k > i PROVE FALSE
  <2>1. n - k \in U /\ n - k \in Nat /\ n - i \in Nat /\ n - k < n - i
    BY <1>1, <1>6
  <2>2. QED
    BY <1>4, <1>5, <2>1
<1>7. QED
  BY <1>1, <1>6

(* What condition("Reconciled") reads in a table.                          *)
Read(table) ==
  IF "Reconciled" \in DOMAIN table THEN table["Reconciled"] ELSE ZeroCondition

LEMMA ConditionsTyped ==
  ASSUME NEW r \in Resource
  PROVE  \E n \in Nat : r.conditions \in [1..n -> Condition]
<1>1. PICK n \in 0..MaxConditions : r.conditions \in [1..n -> Condition]
  BY DEF Resource
<1>2. QED
  BY <1>1

LEMMA TableTyped ==
  ASSUME NEW r \in Resource
  PROVE  \A t \in DOMAIN BuildConditionsLookup(r.conditions) :
           BuildConditionsLookup(r.conditions)[t] \in Condition
<1> DEFINE conds == r.conditions
<1>1. PICK n \in Nat : conds \in [1..n -> Condition]
  BY ConditionsTyped
<1>2. DOMAIN conds = 1..n /\ Len(conds) = n
  BY <1>1
<1> HIDE DEF conds
<1>3. SUFFICES ASSUME NEW t \in {conds[i].type : i \in DOMAIN conds}
               PROVE  BuildConditionsLookup(conds)[t] \in Condition
  BY DEF BuildConditionsLookup, conds
<1> DEFINE Is(i) == conds[i].type = t /\ \A j \in (i + 1)..Len(conds) : conds[j].type # t
           T     == {i \in 1..n : conds[i].type = t}
<1>4. \E m \in DOMAIN conds : Is(m)
  <2>1. PICK m \in T : \A k \in T : k <= m
    <3>1. T # {} /\ T \in SUBSET (1..n)
      BY <1>2
    <3>2. QED
      BY <3>1, LastOf
  <2>2. QED
    BY <1>2, <2>1
<1>5. (CHOOSE i \in DOMAIN conds : Is(i)) \in DOMAIN conds
  BY <1>4
<1>6. conds[CHOOSE i \in DOMAIN conds : Is(i)] \in Condition
  BY <1>1, <1>2, <1>5
<1>7. QED
  BY <1>6 DEF BuildConditionsLookup

(* Both say "the last one": by position in the code's map, by the largest  *)
(* index in the guide's reading.                                           *)
LEMMA TableReadsResource ==
  ASSUME NEW r \in Resource
  PROVE  Read(BuildConditionsLookup(r.conditions)) = Reconciled(r)
<1> DEFINE conds == r.conditions
           at == {i \in DOMAIN conds : conds[i].type = "Reconciled"}
           Is(i) == /\ conds[i].type = "Reconciled"
                    /\ \A j \in (i + 1)..Len(conds) : conds[j].type # "Reconciled"
           Top(i) == \A j \in at : j <= i
<1>1. PICK n \in Nat : conds \in [1..n -> Condition]
  BY ConditionsTyped
<1>2. DOMAIN conds = 1..n /\ Len(conds) = n
  BY <1>1
<1>3. Reconciled(r) = IF at = {} THEN ZeroCondition ELSE conds[CHOOSE i \in at : Top(i)]
  BY DEF Reconciled
<1>4. Read(BuildConditionsLookup(conds)) =
        IF "Reconciled" \in {conds[i].type : i \in DOMAIN conds}
        THEN conds[CHOOSE i \in DOMAIN conds : Is(i)] ELSE ZeroCondition
  BY DEF Read, BuildConditionsLookup
<1>5. at = {} <=> "Reconciled" \notin {conds[i].type : i \in DOMAIN conds}
  OBVIOUS
<1>6. \A i : (i \in DOMAIN conds /\ Is(i)) <=> (i \in at /\ Top(i))
  <2> HIDE DEF conds
  <2>1. QED
    BY <1>2
<1>7. (CHOOSE i \in DOMAIN conds : Is(i)) = (CHOOSE i \in at : Top(i))
  <2> HIDE DEF conds, at, Is, Top
  <2>1. QED
    BY <1>6, Zenon
<1>8. QED
  BY <1>3, <1>4, <1>5, <1>7

LEMMA ReconciledTyped ==
  ASSUME NEW r \in Resource
  PROVE  Reconciled(r).updated \in Times \cup {NoTime}
<1>1. Reconciled(r) = ZeroCondition \/ Reconciled(r) \in Condition
  BY TableTyped, TableReadsResource DEF Read
<1>2. ZeroCondition.updated = NoTime
  BY DEF ZeroCondition
<1>3. \A c \in Condition : c.updated \in Times
  BY DEF Condition
<1>4. QED
  BY <1>1, <1>2, <1>3

-----------------------------------------------------------------------------
(* The params.                                                             *)

Prefix(n) == {Params[i] : i \in 1..n}

LEMMA Prefixes ==
  /\ Prefix(0) = {}
  /\ Prefix(1) = Prefix(0) \cup {"ref_time"} /\ "ref_time" \notin Prefix(0)
  /\ Prefix(2) = Prefix(1) \cup {"is_reconciled"} /\ "is_reconciled" \notin Prefix(1)
  /\ Prefix(3) = Prefix(2) \cup {"has_ref_time"} /\ "has_ref_time" \notin Prefix(2)
  /\ Prefix(4) = Prefix(3) \cup {"is_new_resource"} /\ "is_new_resource" \notin Prefix(3)
  /\ Prefix(5) = Prefix(4) \cup {"generation_mismatch"} /\ "generation_mismatch" \notin Prefix(4)
  /\ Prefix(6) = Prefix(5) \cup {"reconciled_and_stale"} /\ "reconciled_and_stale" \notin Prefix(5)
  /\ Prefix(7) = Prefix(6) \cup {"not_reconciled_and_debounced"} /\ "not_reconciled_and_debounced" \notin Prefix(6)
BY DEF Prefix, Params

LEMMA OneMore ==
  ASSUME NEW S, NEW x, IsFiniteSet(S), x \notin S, NEW n \in Nat, Cardinality(S) = n
  PROVE  IsFiniteSet(S \cup {x}) /\ Cardinality(S \cup {x}) = n + 1
BY FS_AddElement

LEMMA PrefixSizes ==
  \A n \in 0..7 : IsFiniteSet(Prefix(n)) /\ Cardinality(Prefix(n)) = n
<1>0. IsFiniteSet(Prefix(0)) /\ Cardinality(Prefix(0)) = 0
  BY Prefixes, FS_EmptySet
<1>1. IsFiniteSet(Prefix(1)) /\ Cardinality(Prefix(1)) = 1
  <2>1. Prefix(1) = Prefix(0) \cup {"ref_time"} /\ "ref_time" \notin Prefix(0)
    BY Prefixes
  <2>2. QED
    BY <1>0, <2>1, OneMore
<1>2. IsFiniteSet(Prefix(2)) /\ Cardinality(Prefix(2)) = 2
  <2>1. Prefix(2) = Prefix(1) \cup {"is_reconciled"} /\ "is_reconciled" \notin Prefix(1)
    BY Prefixes
  <2>2. QED
    BY <1>1, <2>1, OneMore
<1>3. IsFiniteSet(Prefix(3)) /\ Cardinality(Prefix(3)) = 3
  <2>1. Prefix(3) = Prefix(2) \cup {"has_ref_time"} /\ "has_ref_time" \notin Prefix(2)
    BY Prefixes
  <2>2. QED
    BY <1>2, <2>1, OneMore
<1>4. IsFiniteSet(Prefix(4)) /\ Cardinality(Prefix(4)) = 4
  <2>1. Prefix(4) = Prefix(3) \cup {"is_new_resource"} /\ "is_new_resource" \notin Prefix(3)
    BY Prefixes
  <2>2. QED
    BY <1>3, <2>1, OneMore
<1>5. IsFiniteSet(Prefix(5)) /\ Cardinality(Prefix(5)) = 5
  <2>1. Prefix(5) = Prefix(4) \cup {"generation_mismatch"} /\ "generation_mismatch" \notin Prefix(4)
    BY Prefixes
  <2>2. QED
    BY <1>4, <2>1, OneMore
<1>6. IsFiniteSet(Prefix(6)) /\ Cardinality(Prefix(6)) = 6
  <2>1. Prefix(6) = Prefix(5) \cup {"reconciled_and_stale"} /\ "reconciled_and_stale" \notin Prefix(5)
    BY Prefixes
  <2>2. QED
    BY <1>5, <2>1, OneMore
<1>7. IsFiniteSet(Prefix(7)) /\ Cardinality(Prefix(7)) = 7
  <2>1. Prefix(7) = Prefix(6) \cup {"not_reconciled_and_debounced"} /\ "not_reconciled_and_debounced" \notin Prefix(6)
    BY Prefixes
  <2>2. QED
    BY <1>6, <2>1, OneMore
<1>8. \A n \in 0..7 : n \in {0, 1, 2, 3, 4, 5, 6, 7}
  OBVIOUS
<1>9. QED
  BY <1>0, <1>1, <1>2, <1>3, <1>4, <1>5, <1>6, <1>7, <1>8

(* The value of each param, over the resource.                             *)
IsRec(r) == Reconciled(r).status = "True"
HasTime(r) == Reconciled(r).updated # NoTime
Aged(r, t, d) == HasTime(r) /\ t - Reconciled(r).updated > d

(* A param that comes to a value comes to the one of its trigger, and the  *)
(* time-based ones come to a value only if the age can be computed.        *)
Bound(p, r, t, v) ==
  /\ p = "ref_time" => v = Reconciled(r).updated
  /\ p = "is_reconciled" => v = IsRec(r)
  /\ p = "has_ref_time" => v = HasTime(r)
  /\ p = "is_new_resource" => v = (~IsRec(r) /\ r.generation = 1)
  /\ p = "generation_mismatch" => v = (r.generation > Reconciled(r).observed)
  /\ p = "reconciled_and_stale" =>
       /\ v = (IsRec(r) /\ Aged(r, t, Stale))
       /\ IsRec(r) => Dateable(r, t)
  /\ p = "not_reconciled_and_debounced" =>
       /\ v = (~IsRec(r) /\ Aged(r, t, Debounce))
       /\ ~IsRec(r) => Dateable(r, t)

AllBound(n, r, t, e) ==
  DOMAIN e = Prefix(n) /\ \A p \in Prefix(n) : Bound(p, r, t, e[p])

LEMMA Param1 ==
  ASSUME NEW r \in Resource, NEW t \in Nows, NEW e, AllBound(0, r, t, e)
  PROVE  LET v == Expr("ref_time", r, t, BuildConditionsLookup(r.conditions), e)
         IN v # Err /\ Bound("ref_time", r, t, v)
<1> DEFINE v == Expr("ref_time", r, t, BuildConditionsLookup(r.conditions), e)
<1>1. v = Reconciled(r).updated
  BY Prefixes, TableReadsResource, ReconciledTyped, MarkAssumption, TimeAssumption
     DEF Expr, Read, AllBound, Bound, IsRec, HasTime, CelAnd, CelNot
<1>2. v # Err
  BY <1>1, ReconciledTyped, MarkAssumption, TimeAssumption
<1>3. QED
  BY <1>1, <1>2 DEF Bound

LEMMA Param2 ==
  ASSUME NEW r \in Resource, NEW t \in Nows, NEW e, AllBound(1, r, t, e)
  PROVE  LET v == Expr("is_reconciled", r, t, BuildConditionsLookup(r.conditions), e)
         IN v # Err /\ Bound("is_reconciled", r, t, v)
<1> DEFINE v == Expr("is_reconciled", r, t, BuildConditionsLookup(r.conditions), e)
<1>1. v = IsRec(r)
  BY Prefixes, TableReadsResource, ReconciledTyped, MarkAssumption, TimeAssumption
     DEF Expr, Read, AllBound, Bound, IsRec, HasTime, CelAnd, CelNot
<1>2. v # Err
  <2>1. v \in BOOLEAN
    BY <1>1 DEF IsRec, HasTime
  <2>2. QED
    BY <2>1, MarkAssumption
<1>3. QED
  BY <1>1, <1>2 DEF Bound

LEMMA Param3 ==
  ASSUME NEW r \in Resource, NEW t \in Nows, NEW e, AllBound(2, r, t, e)
  PROVE  LET v == Expr("has_ref_time", r, t, BuildConditionsLookup(r.conditions), e)
         IN v # Err /\ Bound("has_ref_time", r, t, v)
<1> DEFINE v == Expr("has_ref_time", r, t, BuildConditionsLookup(r.conditions), e)
<1>1. v = HasTime(r)
  BY Prefixes, TableReadsResource, ReconciledTyped, MarkAssumption, TimeAssumption
     DEF Expr, Read, AllBound, Bound, IsRec, HasTime, CelAnd, CelNot
<1>2. v # Err
  <2>1. v \in BOOLEAN
    BY <1>1 DEF IsRec, HasTime
  <2>2. QED
    BY <2>1, MarkAssumption
<1>3. QED
  BY <1>1, <1>2 DEF Bound

LEMMA Param4 ==
  ASSUME NEW r \in Resource, NEW t \in Nows, NEW e, AllBound(3, r, t, e)
  PROVE  LET v == Expr("is_new_resource", r, t, BuildConditionsLookup(r.conditions), e)
         IN v # Err /\ Bound("is_new_resource", r, t, v)
<1> DEFINE v == Expr("is_new_resource", r, t, BuildConditionsLookup(r.conditions), e)
<1>1. v = (~IsRec(r) /\ r.generation = 1)
  BY Prefixes, TableReadsResource, ReconciledTyped, MarkAssumption, TimeAssumption
     DEF Expr, Read, AllBound, Bound, IsRec, HasTime, CelAnd, CelNot
<1>2. v # Err
  <2>1. v \in BOOLEAN
    BY <1>1 DEF IsRec, HasTime
  <2>2. QED
    BY <2>1, MarkAssumption
<1>3. QED
  BY <1>1, <1>2 DEF Bound

LEMMA GenerationsTyped ==
  ASSUME NEW r \in Resource
  PROVE  r.generation \in Nat /\ Reconciled(r).observed \in Int
<1>1. Reconciled(r) = ZeroCondition \/ Reconciled(r) \in Condition
  BY TableTyped, TableReadsResource DEF Read
<1>2. ZeroCondition.observed = 0
  BY DEF ZeroCondition
<1>3. \A c \in Condition : c.observed \in Generations
  BY DEF Condition
<1>4. r.generation \in Generations
  BY DEF Resource
<1>5. r.generation \in Nat
  BY <1>4, TimeAssumption
<1>6. CASE Reconciled(r) = ZeroCondition
  BY <1>2, <1>5, <1>6
<1>7. CASE Reconciled(r) \in Condition
  <2>1. Reconciled(r).observed \in Generations
    BY <1>3, <1>7
  <2>2. \A g \in Generations : g \in Int
    BY TimeAssumption
  <2> DEFINE o == Reconciled(r).observed
  <2>3. o \in Int
    <3> HIDE DEF o
    <3>1. QED
      BY <2>1, <2>2 DEF o
  <2>4. QED
    BY <1>5, <2>3
<1>8. QED
  BY <1>1, <1>6, <1>7

LEMMA Param5 ==
  ASSUME NEW r \in Resource, NEW t \in Nows, NEW e, AllBound(4, r, t, e)
  PROVE  LET v == Expr("generation_mismatch", r, t, BuildConditionsLookup(r.conditions), e)
         IN v # Err /\ Bound("generation_mismatch", r, t, v)
<1> DEFINE v == Expr("generation_mismatch", r, t, BuildConditionsLookup(r.conditions), e)
           later == r.generation > Reconciled(r).observed
<1>1. v = later
  BY TableReadsResource DEF Expr, Read
<1>2. later \in BOOLEAN
  BY GenerationsTyped
<1>3. v # Err
  <2> HIDE DEF later, v
  <2>1. v \in BOOLEAN
    BY <1>1, <1>2
  <2>2. QED
    BY <2>1, MarkAssumption
<1>4. QED
  BY <1>1, <1>3 DEF Bound

(* The age of the status, as the two time-based params compute it.         *)
LEMMA AgeTyped ==
  ASSUME NEW r \in Resource, NEW t \in Nows, NEW d \in Nat, HasTime(r)
  PROVE  LET o == OlderThan(t, Reconciled(r).updated, d)
         IN IF Dateable(r, t) THEN o = Aged(r, t, d) /\ o # Err ELSE o = Err
<1> DEFINE u == Reconciled(r).updated
<1>1. u \in Times /\ u \in Int /\ t \in Int /\ u # NoTime /\ u # Err
  BY ReconciledTyped, TimeAssumption, MarkAssumption DEF HasTime
<1>2. Dateable(r, t) <=> Measurable(t, u)
  BY <1>1 DEF Dateable
<1>3. Aged(r, t, d) <=> t - u > d
  BY DEF Aged
<1>4. OlderThan(t, u, d) = IF Measurable(t, u) THEN t - u > d ELSE Err
  BY <1>1 DEF OlderThan
<1>5. (t - u > d) \in BOOLEAN
  BY <1>1
<1>6. (t - u > d) # Err
  <2> DEFINE b == t - u > d
  <2> HIDE DEF b
  <2>1. b \in BOOLEAN
    BY <1>5 DEF b
  <2>2. b # Err
    BY <2>1, MarkAssumption
  <2>3. QED
    BY <2>2 DEF b
<1>7. CASE Measurable(t, u)
  <2>1. OlderThan(t, u, d) = (t - u > d)
    BY <1>4, <1>7
  <2>2. OlderThan(t, u, d) = Aged(r, t, d)
    BY <2>1, <1>3, <1>1 DEF Aged, HasTime
  <2>3. QED
    BY <1>2, <1>6, <1>7, <2>1, <2>2
<1>8. CASE ~Measurable(t, u)
  BY <1>2, <1>4, <1>8
<1>9. QED
  BY <1>7, <1>8

LEMMA CelTables ==
  /\ \A a, b \in BOOLEAN : CelAnd(a, b) = (a /\ b) /\ CelOr(a, b) = (a \/ b)
  /\ \A a : CelAnd(FALSE, a) = FALSE
  /\ CelAnd(TRUE, Err) = Err
  /\ \A a \in BOOLEAN : CelNot(a) = ~a
<1>1. \A a \in BOOLEAN : a # Err
  BY MarkAssumption
<1>2. Err # TRUE /\ Err # FALSE
  BY <1>1
<1>3. \A a : CelAnd(FALSE, a) = FALSE
  BY DEF CelAnd
<1>4. CelAnd(TRUE, Err) = Err
  BY <1>2 DEF CelAnd
<1>5. \A a \in BOOLEAN : CelNot(a) = ~a
  BY <1>1 DEF CelNot
<1>6. ASSUME NEW a \in BOOLEAN, NEW b \in BOOLEAN
      PROVE  CelAnd(a, b) = (a /\ b) /\ CelOr(a, b) = (a \/ b)
  <2>1. (a = TRUE \/ a = FALSE) /\ (b = TRUE \/ b = FALSE)
    OBVIOUS
  <2>2. QED
    BY <1>2, <2>1 DEF CelAnd, CelOr
<1>7. QED
  BY <1>3, <1>4, <1>5, <1>6

LEMMA AgedValue ==
  ASSUME NEW r \in Resource, NEW t \in Nows, NEW d \in Nat
  PROVE  LET a == CelAnd(HasTime(r), OlderThan(t, Reconciled(r).updated, d))
         IN IF Dateable(r, t) THEN a = Aged(r, t, d) ELSE a = Err
<1> DEFINE o == OlderThan(t, Reconciled(r).updated, d)
<1>1. CASE ~HasTime(r)
  <2>1. HasTime(r) = FALSE
    BY <1>1 DEF HasTime
  <2>2. CelAnd(HasTime(r), o) = FALSE
    BY <2>1, CelTables
  <2>3. Dateable(r, t) /\ Aged(r, t, d) = FALSE
    BY <1>1 DEF Dateable, HasTime, Aged
  <2>4. QED
    BY <2>2, <2>3
<1>2. CASE HasTime(r) /\ Dateable(r, t)
  <2>1. o = Aged(r, t, d)
    BY <1>2, AgeTyped
  <2>2. HasTime(r) = TRUE
    BY <1>2 DEF HasTime
  <2>3. Aged(r, t, d) \in BOOLEAN
    BY DEF Aged, HasTime
  <2> HIDE DEF o
  <2>4. CelAnd(HasTime(r), o) = (TRUE /\ Aged(r, t, d))
    BY <2>1, <2>2, <2>3, CelTables
  <2>5. QED
    BY <1>2, <2>3, <2>4 DEF o
<1>3. CASE HasTime(r) /\ ~Dateable(r, t)
  <2>1. o = Err
    BY <1>3, AgeTyped
  <2>2. HasTime(r) = TRUE
    BY <1>3 DEF HasTime
  <2>3. CelAnd(HasTime(r), o) = Err
    BY <2>1, <2>2, CelTables
  <2>4. QED
    BY <1>3, <2>3
<1>4. QED
  BY <1>1, <1>2, <1>3

(* A guarded age, with g for IsRec or its negation.                        *)
LEMMA Guarded ==
  ASSUME NEW r \in Resource, NEW t \in Nows, NEW d \in Nat, NEW g \in BOOLEAN
  PROVE  LET v == CelAnd(g, CelAnd(HasTime(r), OlderThan(t, Reconciled(r).updated, d)))
         IN IF g /\ ~Dateable(r, t) THEN v = Err
            ELSE v # Err /\ v = (g /\ Aged(r, t, d))
<1> DEFINE a == CelAnd(HasTime(r), OlderThan(t, Reconciled(r).updated, d))
<1>1. Aged(r, t, d) \in BOOLEAN
  BY DEF Aged, HasTime
<1>2. IF Dateable(r, t) THEN a = Aged(r, t, d) ELSE a = Err
  BY AgedValue
<1>3. \A b \in BOOLEAN : b # Err
  BY MarkAssumption
<1> HIDE DEF a
<1>4. CASE g = FALSE
  <2>1. CelAnd(g, a) = FALSE
    BY <1>4, CelTables
  <2>2. QED
    BY <1>3, <1>4, <2>1 DEF a
<1>5. CASE g = TRUE /\ Dateable(r, t)
  <2>1. CelAnd(g, a) = (TRUE /\ Aged(r, t, d))
    BY <1>1, <1>2, <1>5, CelTables
  <2>2. (TRUE /\ Aged(r, t, d)) # Err
    BY <1>1, <1>3
  <2>3. QED
    BY <1>5, <2>1, <2>2 DEF a
<1>6. CASE g = TRUE /\ ~Dateable(r, t)
  <2>1. CelAnd(g, a) = Err
    BY <1>2, <1>6, CelTables
  <2>2. QED
    BY <1>6, <2>1 DEF a
<1>7. QED
  BY <1>4, <1>5, <1>6

LEMMA Param6 ==
  ASSUME NEW r \in Resource, NEW t \in Nows, NEW e, AllBound(5, r, t, e)
  PROVE  LET v == Expr("reconciled_and_stale", r, t, BuildConditionsLookup(r.conditions), e)
         IN IF IsRec(r) /\ ~Dateable(r, t) THEN v = Err
            ELSE v # Err /\ Bound("reconciled_and_stale", r, t, v)
<1> DEFINE v == Expr("reconciled_and_stale", r, t, BuildConditionsLookup(r.conditions), e)
<1>1. /\ e["ref_time"] = Reconciled(r).updated /\ "ref_time" \in DOMAIN e
      /\ e["is_reconciled"] = IsRec(r) /\ "is_reconciled" \in DOMAIN e
      /\ e["has_ref_time"] = HasTime(r) /\ "has_ref_time" \in DOMAIN e
  BY Prefixes DEF AllBound, Bound
<1>2. v = CelAnd(IsRec(r), CelAnd(HasTime(r), OlderThan(t, Reconciled(r).updated, Stale)))
  BY <1>1 DEF Expr
<1>3. IsRec(r) \in BOOLEAN /\ Stale \in Nat
  BY TimeAssumption DEF IsRec
<1>4. IF IsRec(r) /\ ~Dateable(r, t) THEN v = Err
      ELSE v # Err /\ v = (IsRec(r) /\ Aged(r, t, Stale))
  <2> HIDE DEF v
  <2>1. QED
    BY <1>2, <1>3, Guarded
<1>5. QED
  <2> HIDE DEF v
  <2>1. QED
    BY <1>4 DEF Bound, v

LEMMA Param7 ==
  ASSUME NEW r \in Resource, NEW t \in Nows, NEW e, AllBound(6, r, t, e)
  PROVE  LET v == Expr("not_reconciled_and_debounced", r, t,
                       BuildConditionsLookup(r.conditions), e)
         IN IF ~IsRec(r) /\ ~Dateable(r, t) THEN v = Err
            ELSE v # Err /\ Bound("not_reconciled_and_debounced", r, t, v)
<1> DEFINE v == Expr("not_reconciled_and_debounced", r, t,
                     BuildConditionsLookup(r.conditions), e)
<1>1. /\ e["ref_time"] = Reconciled(r).updated /\ "ref_time" \in DOMAIN e
      /\ e["is_reconciled"] = IsRec(r) /\ "is_reconciled" \in DOMAIN e
      /\ e["has_ref_time"] = HasTime(r) /\ "has_ref_time" \in DOMAIN e
  BY Prefixes DEF AllBound, Bound
<1>2. IsRec(r) \in BOOLEAN /\ (~IsRec(r)) \in BOOLEAN /\ Debounce \in Nat
  BY TimeAssumption DEF IsRec
<1>3. CelNot(IsRec(r)) = ~IsRec(r)
  BY <1>2, CelTables
<1>4. v = CelAnd(~IsRec(r), CelAnd(HasTime(r), OlderThan(t, Reconciled(r).updated, Debounce)))
  BY <1>1, <1>3 DEF Expr
<1>5. IF ~IsRec(r) /\ ~Dateable(r, t) THEN v = Err
      ELSE v # Err /\ v = (~IsRec(r) /\ Aged(r, t, Debounce))
  <2> HIDE DEF v
  <2>1. QED
    BY <1>2, <1>4, Guarded
<1>6. QED
  <2> HIDE DEF v
  <2>1. QED
    BY <1>5 DEF Bound, v

(* One param more, or an error that only an unknown age brings.            *)
LEMMA NextParam ==
  ASSUME NEW r \in Resource, NEW t \in Nows, NEW e, NEW n \in 0..6, AllBound(n, r, t, e)
  PROVE  LET v == Expr(Params[n + 1], r, t, BuildConditionsLookup(r.conditions), e)
         IN IF v = Err THEN ~Dateable(r, t) ELSE Bound(Params[n + 1], r, t, v)
<1>1. CASE n = 0
  BY <1>1, Param1 DEF Params
<1>2. CASE n = 1
  BY <1>2, Param2 DEF Params
<1>3. CASE n = 2
  BY <1>3, Param3 DEF Params
<1>4. CASE n = 3
  BY <1>4, Param4 DEF Params
<1>5. CASE n = 4
  BY <1>5, Param5 DEF Params
<1>6. CASE n = 5
  BY <1>6, Param6 DEF Params
<1>7. CASE n = 6
  BY <1>7, Param7 DEF Params
<1>8. n \in {0, 1, 2, 3, 4, 5, 6}
  OBVIOUS
<1>9. QED
  BY <1>1, <1>2, <1>3, <1>4, <1>5, <1>6, <1>7, <1>8

(* The environment with one param more.                                    *)
Extend(e, p, v) == [m \in DOMAIN e \cup {p} |-> IF m = p THEN v ELSE e[m]]

LEMMA Bind ==
  ASSUME NEW r \in Resource, NEW t \in Nows, NEW e, NEW n \in 0..6, AllBound(n, r, t, e),
         NEW v, Bound(Params[n + 1], r, t, v)
  PROVE  AllBound(n + 1, r, t, Extend(e, Params[n + 1], v))
<1> DEFINE p == Params[n + 1]
<1>1. Prefix(n + 1) = Prefix(n) \cup {p}
  <2>1. 1..(n + 1) = 1..n \cup {n + 1}
    OBVIOUS
  <2>2. QED
    BY <2>1 DEF Prefix
<1>2. DOMAIN e = Prefix(n) /\ \A m \in Prefix(n) : Bound(m, r, t, e[m])
  BY DEF AllBound
<1>3. Bound(p, r, t, v)
  OBVIOUS
<1> HIDE DEF p
<1>4. AllBound(n + 1, r, t, Extend(e, p, v))
  BY <1>1, <1>2, <1>3 DEF AllBound, Extend
<1>5. QED
  BY <1>4 DEF p

LEMMA ResultDecides ==
  ASSUME NEW r \in Resource, NEW t \in Nows, NEW e, AllBound(7, r, t, e)
  PROVE  /\ Result(e) \in BOOLEAN /\ Result(e) # Err
         /\ (Result(e) = TRUE) = (Dateable(r, t) /\ Due(r, t))
<1> DEFINE new   == ~IsRec(r) /\ r.generation = 1
           later == r.generation > Reconciled(r).observed
           stale == IsRec(r) /\ Aged(r, t, Stale)
           bounced == ~IsRec(r) /\ Aged(r, t, Debounce)
<1>1. \A p \in Prefix(7) : Bound(p, r, t, e[p])
  BY DEF AllBound
<1>2. /\ "is_new_resource" \in Prefix(7) /\ "generation_mismatch" \in Prefix(7)
      /\ "reconciled_and_stale" \in Prefix(7)
      /\ "not_reconciled_and_debounced" \in Prefix(7)
  BY Prefixes
<1>3. e["is_new_resource"] = new
  BY <1>1, <1>2 DEF Bound
<1>4. e["generation_mismatch"] = later
  BY <1>1, <1>2 DEF Bound
<1>5. e["reconciled_and_stale"] = stale /\ (IsRec(r) => Dateable(r, t))
  BY <1>1, <1>2 DEF Bound
<1>6. e["not_reconciled_and_debounced"] = bounced /\ (~IsRec(r) => Dateable(r, t))
  BY <1>1, <1>2 DEF Bound
<1>7. new \in BOOLEAN /\ stale \in BOOLEAN /\ bounced \in BOOLEAN
  BY DEF Aged, IsRec, HasTime
<1>8. later \in BOOLEAN
  BY GenerationsTyped
<1>9. Due(r, t) <=> (new \/ later \/ stale \/ bounced)
  BY DEF Due, Aged, IsRec, HasTime
<1>10. Dateable(r, t)
  BY <1>5, <1>6
<1> HIDE DEF new, later, stale, bounced
<1>11. CelOr(new, later) = (new \/ later) /\ CelOr(stale, bounced) = (stale \/ bounced)
  BY <1>7, <1>8, CelTables
<1>12. Result(e) = ((new \/ later) \/ (stale \/ bounced))
  <2>1. (new \/ later) \in BOOLEAN /\ (stale \/ bounced) \in BOOLEAN
    OBVIOUS
  <2>2. CelOr(new \/ later, stale \/ bounced) = ((new \/ later) \/ (stale \/ bounced))
    BY <2>1, CelTables
  <2>3. QED
    BY <1>3, <1>4, <1>5, <1>6, <1>11, <2>2 DEF Result
<1>13. Result(e) \in BOOLEAN
  BY <1>12
<1>14. Result(e) # Err
  BY <1>13, MarkAssumption
<1>15. (Result(e) = TRUE) = (Dateable(r, t) /\ Due(r, t))
  <2>1. (Result(e) = TRUE) <=> Due(r, t)
    BY <1>9, <1>12
  <2>2. QED
    BY <1>10, <2>1 DEF Dateable, Due
<1>16. QED
  BY <1>13, <1>14, <1>15

-----------------------------------------------------------------------------
(* The invariant.                                                          *)

Calling == /\ resource \in Resource /\ now \in Nows
           /\ lookup = BuildConditionsLookup(resource.conditions)

EnvTyped(e) ==
  /\ DOMAIN e \subseteq {Params[i] : i \in 1..Len(Params)}
  /\ \A p \in DOMAIN e : IF p = "ref_time" THEN e[p] \in Times \cup {NoTime}
                         ELSE e[p] \in BOOLEAN

(* While a call runs, a prefix of the params is bound to the values of the *)
(* triggers, and all of them are before the result.                        *)
Inv ==
  /\ TypeOK
  /\ pc \in {"params", "result"} => Calling
  /\ pc = "params" => \E n \in 0..6 : AllBound(n, resource, now, env)
  /\ pc = "result" => AllBound(7, resource, now, env)
  /\ DecidesTheTriggers

LEMMA BoundTyped ==
  ASSUME NEW r \in Resource, NEW t \in Nows, NEW e, NEW n \in 0..7, AllBound(n, r, t, e)
  PROVE  EnvTyped(e)
<1>1. Prefix(n) \subseteq Prefix(7) /\ Prefix(7) = {Params[i] : i \in 1..Len(Params)}
  BY DEF Prefix, Params
<1>2. Prefix(7) = {"ref_time", "is_reconciled", "has_ref_time", "is_new_resource",
        "generation_mismatch", "reconciled_and_stale", "not_reconciled_and_debounced"}
  BY Prefixes
<1>3. DOMAIN e \subseteq Prefix(7) /\ \A p \in DOMAIN e : Bound(p, r, t, e[p])
  BY <1>1 DEF AllBound
<1>4. ASSUME NEW p \in DOMAIN e
      PROVE  IF p = "ref_time" THEN e[p] \in Times \cup {NoTime} ELSE e[p] \in BOOLEAN
  <2>1. Bound(p, r, t, e[p]) /\ p \in Prefix(7)
    BY <1>3, <1>4
  <2>2. CASE p = "ref_time"
    BY <2>1, <2>2, ReconciledTyped DEF Bound
  <2>3. CASE p = "generation_mismatch"
    <3>1. (r.generation > Reconciled(r).observed) \in BOOLEAN
      BY GenerationsTyped
    <3>2. e[p] = (r.generation > Reconciled(r).observed)
      BY <2>1, <2>3 DEF Bound
    <3>3. QED
      BY <2>3, <3>1, <3>2
  <2>4. CASE p \in {"is_reconciled", "has_ref_time", "is_new_resource"}
    BY <2>1, <2>4 DEF Bound, IsRec, HasTime
  <2>5. CASE p \in {"reconciled_and_stale", "not_reconciled_and_debounced"}
    BY <2>1, <2>5 DEF Bound, IsRec, HasTime, Aged
  <2>6. QED
    BY <1>2, <2>1, <2>2, <2>3, <2>4, <2>5
<1>5. QED
  BY <1>1, <1>3, <1>4 DEF EnvTyped

LEMMA TypeParts ==
  TypeOK <=> /\ pc \in {"idle", "params", "result", "done"}
             /\ resource \in Resource \cup {Nil} /\ now \in Nows \cup {ZeroTime}
             /\ \A t \in DOMAIN lookup : lookup[t] \in Condition
             /\ EnvTyped(env)
             /\ decision.publish \in BOOLEAN
BY DEF TypeOK, EnvTyped

LEMMA EmptyTyped ==
  /\ EnvTyped(Empty) /\ DOMAIN Empty = {}
  /\ \A r, t : AllBound(0, r, t, Empty)
<1>1. DOMAIN Empty = {}
  BY DEF Empty
<1>2. QED
  BY <1>1, Prefixes DEF EnvTyped, AllBound

LEMMA InvInit == Init => Inv
<1> SUFFICES ASSUME Init PROVE Inv
  OBVIOUS
<1>1. TypeOK
  <2>1. env = Empty /\ lookup = Empty
    BY DEF Init
  <2>2. QED
    BY <2>1, EmptyTyped, TypeParts DEF Init
<1>2. QED
  BY <1>1 DEF Init, Inv, DecidesTheTriggers, Finished

LEMMA CallStep ==
  ASSUME Inv, NEW r \in Resource, NEW t \in Nows, Call(r, t)
  PROVE  Inv'
<1>1. /\ pc' = "params" /\ resource' = r /\ now' = t
      /\ lookup' = BuildConditionsLookup(r.conditions)
      /\ env' = Empty /\ decision' = decision
  BY DEF Call
<1>2. TypeOK'
  BY <1>1, EmptyTyped, TableTyped, TypeParts DEF Inv, TypeOK, EnvTyped
<1>3. Calling'
  BY <1>1 DEF Calling
<1>4. AllBound(0, resource', now', env')
  BY <1>1, EmptyTyped
<1>5. QED
  BY <1>1, <1>2, <1>3, <1>4 DEF Inv, DecidesTheTriggers, Finished

LEMMA CallWithoutStep ==
  ASSUME Inv, CallWithout
  PROVE  Inv'
<1>1. TypeOK'
  BY EmptyTyped DEF CallWithout, Inv, TypeOK, EnvTyped
<1>2. QED
  BY <1>1 DEF CallWithout, Inv, DecidesTheTriggers, Finished

LEMMA EvalParamStep ==
  ASSUME Inv, EvalParam
  PROVE  Inv'
<1> DEFINE p == Params[Cardinality(DOMAIN env) + 1]
           v == Expr(p, resource, now, lookup, env)
<1>1. pc = "params" /\ Calling /\ TypeOK
  BY DEF EvalParam, Inv
<1>2. PICK n \in 0..6 : AllBound(n, resource, now, env)
  BY <1>1 DEF Inv
<1>3. Cardinality(DOMAIN env) = n
  BY <1>2, PrefixSizes DEF AllBound
<1>4. p = Params[n + 1]
  BY <1>3
<1>5. IF v = Err THEN ~Dateable(resource, now) ELSE Bound(p, resource, now, v)
  <2>1. v = Expr(Params[n + 1], resource, now, BuildConditionsLookup(resource.conditions), env)
    BY <1>1, <1>4 DEF Calling
  <2> HIDE DEF p, v
  <2>2. QED
    BY <1>1, <1>2, <1>4, <2>1, NextParam DEF Calling
<1>6. CASE v = Err
  <2>1. Decide(FALSE, "param evaluation failed")
    BY <1>6 DEF EvalParam
  <2>2. /\ pc' = "done" /\ decision'.publish = FALSE
        /\ UNCHANGED <<resource, now, lookup, env>>
    BY <2>1 DEF Decide
  <2>3. ~Dateable(resource, now)
    BY <1>5, <1>6
  <2>4. TypeOK'
    BY <1>1, <2>2 DEF TypeOK
  <2>5. DecidesTheTriggers'
    BY <2>2, <2>3 DEF DecidesTheTriggers, Finished
  <2>6. QED
    BY <2>2, <2>4, <2>5 DEF Inv
<1>7. CASE v # Err
  <2> DEFINE last == p = Params[Len(Params)]
  <2>1. /\ env' = [m \in DOMAIN env \cup {p} |-> IF m = p THEN v ELSE env[m]]
        /\ pc' = IF last THEN "result" ELSE "params"
        /\ UNCHANGED <<resource, now, lookup, decision>>
    BY <1>7 DEF EvalParam
  <2>2. AllBound(n + 1, resource, now, env')
    <3> HIDE DEF p, v
    <3>1. Bound(Params[n + 1], resource, now, v)
      BY <1>4, <1>5, <1>7
    <3>2. AllBound(n + 1, resource, now, Extend(env, Params[n + 1], v))
      <4>1. resource \in Resource /\ now \in Nows
        BY <1>1 DEF Calling
      <4>2. QED
        BY <1>2, <3>1, <4>1, Bind
    <3>3. env' = Extend(env, Params[n + 1], v)
      BY <1>4, <2>1 DEF Extend
    <3>4. QED
      BY <2>1, <3>2, <3>3
  <2>3. last <=> n = 6
    <3>1. n \in {0, 1, 2, 3, 4, 5, 6}
      OBVIOUS
    <3>2. QED
      BY <1>4, <3>1 DEF Params
  <2> HIDE DEF last, p, v
  <2>4. TypeOK'
    <3>1. EnvTyped(env')
      BY <1>1, <2>2, BoundTyped DEF Calling
    <3>2. QED
      BY <1>1, <2>1, <3>1 DEF TypeOK, EnvTyped
  <2>5. Calling'
    BY <1>1, <2>1 DEF Calling
  <2>6. CASE last
    BY <2>1, <2>2, <2>3, <2>4, <2>5, <2>6 DEF Inv, DecidesTheTriggers, Finished
  <2>7. CASE ~last
    <3>1. n + 1 \in 0..6
      BY <2>3, <2>7
    <3>2. \E k \in 0..6 : AllBound(k, resource', now', env')
      BY <2>1, <2>2, <3>1
    <3>3. QED
      BY <2>1, <2>4, <2>5, <2>7, <3>2 DEF Inv, DecidesTheTriggers, Finished
  <2>8. QED
    BY <2>6, <2>7
<1>8. QED
  BY <1>6, <1>7

LEMMA EvalResultStep ==
  ASSUME Inv, EvalResult
  PROVE  Inv'
<1> DEFINE v == Result(env)
<1>1. pc = "result" /\ Calling /\ TypeOK /\ AllBound(7, resource, now, env)
  BY DEF EvalResult, Inv
<1>2. /\ pc' = "done" /\ decision'.publish = (v = TRUE)
      /\ UNCHANGED <<resource, now, lookup, env>>
  BY DEF EvalResult, Decide
<1>3. (v = TRUE) = (Dateable(resource, now) /\ Due(resource, now))
  BY <1>1, ResultDecides DEF Calling
<1>4. TypeOK'
  <2>1. (v = TRUE) \in BOOLEAN
    OBVIOUS
  <2> HIDE DEF v
  <2>2. QED
    BY <1>1, <1>2, <2>1 DEF TypeOK
<1>5. DecidesTheTriggers'
  <2> HIDE DEF v
  <2>1. QED
    BY <1>2, <1>3 DEF DecidesTheTriggers, Finished
<1>6. QED
  BY <1>2, <1>4, <1>5 DEF Inv

LEMMA InvNext == Inv /\ [Next]_vars => Inv'
<1> SUFFICES ASSUME Inv, [Next]_vars PROVE Inv'
  OBVIOUS
<1>1. CASE \E r \in Resource, t \in Nows : Call(r, t)
  BY <1>1, CallStep
<1>2. CASE CallWithout
  BY <1>2, CallWithoutStep
<1>3. CASE EvalParam
  BY <1>3, EvalParamStep
<1>4. CASE EvalResult
  BY <1>4, EvalResultStep
<1>5. CASE UNCHANGED vars
  BY <1>5 DEF vars, Inv, TypeOK, Calling, DecidesTheTriggers, Finished
<1>6. QED
  BY <1>1, <1>2, <1>3, <1>4, <1>5 DEF Next

LEMMA Invariance == Spec => []Inv
BY InvInit, InvNext, PTL DEF Spec

-----------------------------------------------------------------------------
(* The table holds conditions, a bound param its kind of value, and a      *)
(* decision is a Boolean, in whatever order calls come.                    *)
THEOREM TypeCorrect == Spec => []TypeOK
<1>1. Inv => TypeOK
  BY DEF Inv
<1>2. QED
  BY <1>1, Invariance, PTL

(* Evaluate publishes exactly what the four triggers of the operator guide *)
(* ask for, for any thresholds, generations and conditions, and it does    *)
(* not where the age of the status cannot be computed: no error of a param *)
(* that does not matter, and no entry the table kept, changes a decision.  *)
THEOREM Decides == Spec => []DecidesTheTriggers
<1>1. Inv => DecidesTheTriggers
  BY DEF Inv
<1>2. QED
  BY <1>1, Invariance, PTL
=============================================================================
