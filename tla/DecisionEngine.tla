--------------------------- MODULE DecisionEngine ---------------------------
(***************************************************************************)
(* DecisionEngine.Evaluate (internal/engine/decision.go) under the default *)
(* message_decision (internal/config/config.go): the params are evaluated  *)
(* one after the other, each seeing the ones before it and, through        *)
(* condition(), a lookup table the engine keeps from call to call. A CEL   *)
(* expression has three outcomes: && and || absorb an error when the other *)
(* operand decides, and a param that does come to an error ends the        *)
(* evaluation.                                                             *)
(***************************************************************************)
EXTENDS Integers, Sequences, FiniteSets

CONSTANTS
  Generations,   \* generations of resources, and observed generations
  Statuses,      \* values of a condition's status
  Times,         \* last_updated_time of a condition, in seconds
  Nows,          \* values of now
  MaxConditions, \* bound: conditions of one resource
  Stale,         \* 30m in seconds
  Debounce,      \* 10s in seconds
  MaxDuration,   \* the longest CEL duration (2^63 ns), in seconds
  NoTime,        \* the empty string zeroCondition has for a time
  ZeroTime,      \* what a zero `now` is
  Nil,           \* no resource
  Err            \* the CEL error value

ASSUME TimeAssumption ==
  /\ Generations \subseteq Nat /\ Times \subseteq Int /\ Nows \subseteq Int
  /\ Debounce \in Nat /\ Stale \in Nat /\ MaxDuration \in Nat
ASSUME MarkAssumption ==
  /\ NoTime \notin Int /\ Err \notin Int \cup {NoTime} /\ Err \notin BOOLEAN
  /\ ZeroTime \notin Nows

Condition == [type : {"Reconciled", "Other"}, status : Statuses,
              observed : Generations, updated : Times]
Resource  == [generation : Generations,
              conditions : UNION {[1..n -> Condition] : n \in 0..MaxConditions}]

-----------------------------------------------------------------------------
(* CEL                                                                     *)

CelNot(a)    == IF a = Err THEN Err ELSE ~a
CelAnd(a, b) == IF FALSE \in {a, b} THEN FALSE ELSE IF Err \in {a, b} THEN Err ELSE TRUE
CelOr(a, b)  == IF TRUE \in {a, b} THEN TRUE ELSE IF Err \in {a, b} THEN Err ELSE FALSE

(* now - timestamp(t) > duration(d): the empty string is no timestamp, and *)
(* a difference that is no 64-bit count of nanoseconds is an overflow.     *)
Measurable(t1, t2) == t1 - t2 \in -MaxDuration..MaxDuration
OlderThan(now, t, d) ==
  IF t \in {NoTime, Err} THEN Err
  ELSE IF Measurable(now, t) THEN now - t > d ELSE Err

-----------------------------------------------------------------------------
(* The conditions lookup and the default expressions.                      *)

ZeroCondition == [status |-> "", observed |-> 0, updated |-> NoTime]

(* Fault: the first condition of a type wins.                              *)
FirstWins(conds) ==
  [t \in {conds[i].type : i \in DOMAIN conds} |->
     conds[CHOOSE i \in DOMAIN conds : /\ conds[i].type = t
                                       /\ \A j \in 1..(i - 1) : conds[j].type # t]]

(* A map filled in list order: the last condition of a type wins.          *)
BuildConditionsLookup(conds) ==
  [t \in {conds[i].type : i \in DOMAIN conds} |->
     conds[CHOOSE i \in DOMAIN conds : /\ conds[i].type = t
                                       /\ \A j \in (i + 1)..Len(conds) : conds[j].type # t]]

Params == <<"ref_time", "is_reconciled", "has_ref_time", "is_new_resource",
  "generation_mismatch", "reconciled_and_stale", "not_reconciled_and_debounced">>

(* The value of param p of resource r, with condition() reading the table  *)
(* `table` and the earlier params in env; a name that is not bound yet is  *)
(* an error.                                                               *)
Expr(p, r, now, table, env) ==
  LET Ref(n)  == IF n \in DOMAIN env THEN env[n] ELSE Err
      cond    == IF "Reconciled" \in DOMAIN table THEN table["Reconciled"]
                 ELSE ZeroCondition
      Aged(d) == CelAnd(Ref("has_ref_time"), OlderThan(now, Ref("ref_time"), d))
  IN CASE p = "ref_time"            -> cond.updated
       [] p = "is_reconciled"       -> cond.status = "True"
       [] p = "has_ref_time"        -> IF Ref("ref_time") = Err THEN Err
                                       ELSE Ref("ref_time") # NoTime
       [] p = "is_new_resource"     -> CelAnd(CelNot(Ref("is_reconciled")),
                                              r.generation = 1)
       [] p = "generation_mismatch" -> r.generation > cond.observed
       [] p = "reconciled_and_stale" -> CelAnd(Ref("is_reconciled"), Aged(Stale))
       [] p = "not_reconciled_and_debounced" ->
            CelAnd(CelNot(Ref("is_reconciled")), Aged(Debounce))

Result(env) ==
  CelOr(CelOr(env["is_new_resource"], env["generation_mismatch"]),
        CelOr(env["reconciled_and_stale"], env["not_reconciled_and_debounced"]))

-----------------------------------------------------------------------------
VARIABLES
  pc,        \* "idle", "params", "result" or "done"
  resource,  \* the resource of this call
  now,       \* the time of this call
  lookup,    \* conditionsLookup, kept between calls
  env,       \* paramValues
  decision   \* what Evaluate returned

vars == <<pc, resource, now, lookup, env, decision>>

Empty == [t \in {} |-> ZeroCondition]

Init ==
  /\ pc = "idle" /\ resource = Nil /\ now = ZeroTime
  /\ lookup = Empty /\ env = Empty
  /\ decision = [publish |-> FALSE, reason |-> "none"]

Decide(publish, reason) ==
  /\ pc' = "done"
  /\ decision' = [publish |-> publish, reason |-> reason]
  /\ UNCHANGED <<resource, now, lookup, env>>

(* Evaluate is called, by one goroutine at a time, with a resource and the *)
(* time the fetch came back.                                               *)
Call(r, t) ==
  /\ pc \in {"idle", "done"} /\ pc' = "params"
  /\ resource' = r /\ now' = t
  /\ lookup' = BuildConditionsLookup(r.conditions)
  /\ env' = Empty
  /\ UNCHANGED decision

(* The early returns for a nil resource and a zero time: the table stays   *)
(* that of the call before.                                                *)
CallWithout ==
  /\ pc \in {"idle", "done"} /\ pc' = "done"
  /\ resource' = Nil /\ now' = ZeroTime
  /\ env' = Empty
  /\ decision' = [publish |-> FALSE, reason |-> "no resource or no time"]
  /\ UNCHANGED lookup

(* Fault: the error of a param is not looked at.                          *)
EvalParamUnchecked ==
  /\ pc = "params"
  /\ LET p == Params[Cardinality(DOMAIN env) + 1]
         v == Expr(p, resource, now, lookup, env)
     IN /\ env' = [n \in DOMAIN env \cup {p} |-> IF n = p THEN v ELSE env[n]]
        /\ pc' = IF p = Params[Len(Params)] THEN "result" ELSE "params"
        /\ UNCHANGED <<resource, now, lookup, decision>>

(* The next param; one that comes to an error ends the evaluation.         *)
EvalParam ==
  /\ pc = "params"
  /\ LET p == Params[Cardinality(DOMAIN env) + 1]
         v == Expr(p, resource, now, lookup, env)
     IN IF v = Err THEN Decide(FALSE, "param evaluation failed")
        ELSE /\ env' = [n \in DOMAIN env \cup {p} |-> IF n = p THEN v ELSE env[n]]
             /\ pc' = IF p = Params[Len(Params)] THEN "result" ELSE "params"
             /\ UNCHANGED <<resource, now, lookup, decision>>

EvalResult ==
  /\ pc = "result"
  /\ LET v == Result(env)
     IN Decide(v = TRUE, IF v = Err THEN "result evaluation failed"
                         ELSE IF v THEN "message decision matched"
                         ELSE "message decision result is false")

Next ==
  \/ \E r \in Resource, t \in Nows : Call(r, t)
  \/ CallWithout \/ EvalParam \/ EvalResult

Spec == Init /\ [][Next]_vars

-----------------------------------------------------------------------------
(* Properties                                                              *)

TypeOK ==
  /\ pc \in {"idle", "params", "result", "done"}
  /\ resource \in Resource \cup {Nil} /\ now \in Nows \cup {ZeroTime}
  /\ \A t \in DOMAIN lookup : lookup[t] \in Condition
  /\ DOMAIN env \subseteq {Params[i] : i \in 1..Len(Params)}
  /\ \A p \in DOMAIN env : IF p = "ref_time" THEN env[p] \in Times \cup {NoTime}
                           ELSE env[p] \in BOOLEAN
  /\ decision.publish \in BOOLEAN

(* The four triggers of the operator guide, stated over the resource: new, *)
(* spec changed, reconciled but stale, not reconciled and debounced.       *)
Reconciled(r) ==
  LET at == {i \in DOMAIN r.conditions : r.conditions[i].type = "Reconciled"}
  IN IF at = {} THEN ZeroCondition
     ELSE r.conditions[CHOOSE i \in at : \A j \in at : j <= i]

Due(r, t) ==
  LET c == Reconciled(r)
      reconciled == c.status = "True"
  IN \/ ~reconciled /\ r.generation = 1
     \/ r.generation > c.observed
     \/ /\ c.updated # NoTime
        /\ t - c.updated > (IF reconciled THEN Stale ELSE Debounce)

Dateable(r, t) == Reconciled(r).updated # NoTime => Measurable(t, Reconciled(r).updated)

Finished == pc = "done" /\ resource # Nil

(* Step by step, over a table that lives on between calls, with values     *)
(* that may be errors, Evaluate comes to exactly the four triggers, and    *)
(* where the age of the status cannot be computed it does not publish.     *)
DecidesTheTriggers ==
  Finished => decision.publish = (Dateable(resource, now) /\ Due(resource, now))

(* docs/sentinel-operator-guide.md: "generation_mismatch - Catches spec    *)
(* changes immediately".                                                   *)
SpecChangesCaught ==
  Finished /\ resource.generation > Reconciled(resource).observed => decision.publish
=============================================================================
