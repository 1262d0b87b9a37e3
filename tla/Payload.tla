------------------------------ MODULE Payload ------------------------------
(***************************************************************************)
(* The payload of an event, from message_data in the configuration to the  *)
(* JSON in the CloudEvent: the definition is read by viper, validated and  *)
(* unmarshalled when it is loaded (internal/config/config.go), compiled    *)
(* once when the sentinel starts and evaluated for every due resource      *)
(* (internal/payload/builder.go), and encoded by event.SetData in          *)
(* internal/sentinel/sentinel.go.                                          *)
(*                                                                         *)
(* Each of these is a map of maps, given as what it has at each path: a    *)
(* leaf, or Map. The top-level map itself is not among them. A CEL         *)
(* expression is what it comes to:                                         *)
(* "value"   something encoding/json can write,                            *)
(* "error"   an evaluation error, such as a missing key,                   *)
(* "null"    the CEL null, which Value() turns into the number 0,          *)
(* "celmap"  a map made by CEL, which encoding/json cannot write.          *)
(***************************************************************************)
EXTENDS Naturals, Sequences

CONSTANTS
  Names,      \* names of fields, however they are spelled
  Spellings,  \* the ways to write a name in upper and lower case
  Lower,      \* the one that is all in lower case
  Exprs,      \* expressions that compile
  Depth,      \* bound: how deep a field may lie
  MaxFields   \* bound: fields of a definition, maps among them

ASSUME LowerAssumption == Lower \in Spellings
ASSUME DepthAssumption == Depth \in Nat /\ MaxFields \in Nat

Results == {"value", "error", "null", "celmap"}

(* A key of a map. Keys that contain viper's delimiter, "::", are left out *)
Keys  == [name : Names, spelling : Spellings]
Paths == UNION {[1..n -> Keys] : n \in 1..Depth}

Map  == [kind |-> "map"]
Leaf == {[kind |-> "expr", expr |-> e] : e \in Exprs} \cup
        {[kind |-> k] : k \in {"uncompilable", "blank", "nil", "number", "list"}}

Above(p) == {SubSeq(p, 1, n) : n \in 1..(Len(p) - 1)}

(* What leads to a field are maps.                                         *)
IsTree(t, leaves) ==
  /\ t \in [DOMAIN t -> leaves \cup {Map}] /\ DOMAIN t \subseteq Paths
  /\ \A p \in DOMAIN t : \A q \in Above(p) : q \in DOMAIN t /\ t[q] = Map

(* The sets of paths of a definition, and the definitions.                 *)
Shapes ==
  {N \in {{f[i] : i \in 1..MaxFields} : f \in [1..MaxFields -> Paths]} \cup {{}} :
     \A p \in N : Above(p) \subseteq N}

Definitions ==
  {d \in UNION {[N -> Leaf \cup {Map}] : N \in Shapes} : IsTree(d, Leaf)}

Leaves(t)        == {p \in DOMAIN t : t[p] # Map}
OfKind(t, kinds) == {p \in DOMAIN t : t[p].kind \in kinds}

(* The way all of the functions below go through a map of maps, from field *)
(* to field and, where a field is a map, down into it: whether one of the  *)
(* leaves `hits` is met there. What they make of a map depends on no more. *)
Somewhere(t, hits) ==
  LET at[p \in DOMAIN t \cup {<<>>}] ==
        IF p = <<>> \/ p \notin Leaves(t)
        THEN \E k \in Keys : Append(p, k) \in DOMAIN t /\ at[Append(p, k)]
        ELSE p \in hits
  IN at

Only(t, at) == [p \in {x \in DOMAIN t : at[x]} |-> t[p]]

-----------------------------------------------------------------------------
(* What viper makes of the file when it reads it. It writes the keys of    *)
(* maps, at every depth, in lower case. Of keys of a map that differ in    *)
(* case alone one is left, with all that is below it and nothing of what   *)
(* is below the others; which one is up to Go's order of iteration.        *)

Lowered(p) == [i \in DOMAIN p |-> [p[i] EXCEPT !.spelling = Lower]]

Survivors(d) ==
  {S \in SUBSET DOMAIN d :
     /\ \A p \in S : Above(p) \subseteq S
     /\ \A p, q \in S : Lowered(p) = Lowered(q) => p = q
     /\ \A p \in DOMAIN d : Above(p) \subseteq S => \E q \in S : Lowered(q) = Lowered(p)}

Read(d, S) ==
  [x \in {Lowered(p) : p \in S} |-> d[CHOOSE p \in S : Lowered(p) = x]]

(* What the configuration's validation accepts.                            *)
ValidateMessageDataLeaves(d) == ~Somewhere(d, OfKind(d, {"nil", "blank"}))[<<>>]

(* What viper makes of the map when it unmarshals it: it goes from leaf to *)
(* leaf, so that a nil and a map without leaves are not there any more.    *)
Unmarshal(d) == Only(d, Somewhere(d, Leaves(d) \ OfKind(d, {"nil"})))

(* What NewBuilder compiles; the error of one field is that of all maps    *)
(* around it.                                                              *)
Refused(d) == Somewhere(d, OfKind(d, {"nil", "blank", "list", "uncompilable"}))[<<>>]

CompileNode(raw) ==
  CASE raw.kind = "expr"   -> [kind |-> "program", expr |-> raw.expr]
    [] raw.kind = "number" -> [kind |-> "literal"]
    [] raw.kind = "map"    -> Map

CompileMap(d) == [p \in DOMAIN d |-> CompileNode(d[p])]

-----------------------------------------------------------------------------
(* What a compiled definition comes to for one resource, `result` giving   *)
(* what each expression does; Omitted is the nil that is left out.         *)

Omitted == [kind |-> "omitted"]
Json(v) == [kind |-> "json", value |-> v]

EvalProgram(expr, result) ==
  CASE result[expr] = "error"  -> Omitted
    [] result[expr] = "null"   -> Json("0")
    [] result[expr] = "value"  -> Json(expr)
    [] result[expr] = "celmap" -> [kind |-> "celmap"]

EvalCompiledNode(node, result) ==
  CASE node.kind = "program" -> EvalProgram(node.expr, result)
    [] node.kind = "literal" -> Json("number")
    [] node.kind = "map"     -> Map

(* Fault: a map all of whose fields are left out is kept.                  *)
KeepEmpty(val) == [p \in DOMAIN val |-> val[p] # Omitted]

(* Fault: one field that fails takes its siblings with it.                 *)
AllOrNothing(val) == [p \in DOMAIN val |-> \A q \in DOMAIN val : val[q] # Omitted]

(* evalCompiledMap: the fields that came to something, a map among them if *)
(* one of its own did.                                                     *)
Kept(val) == Somewhere(val, {p \in DOMAIN val : val[p] # Omitted})

(* BuildPayload keeps the top-level map even when nothing is left in it.   *)
BuildPayload(tree, result) ==
  LET val == [p \in DOMAIN tree |-> EvalCompiledNode(tree[p], result)]
  IN Only(val, Kept(val))

Encodable(v) == ~Somewhere(v, OfKind(v, {"celmap"}))[<<>>]

-----------------------------------------------------------------------------
VARIABLES
  stage,    \* "load", "start", "running" or "exited"
  def,      \* message_data as the file has it
  loaded,   \* cfg.MessageData
  tree,     \* the compiled definition
  result,   \* what each expression came to for the last resource
  payload,  \* what was built for it
  sent      \* whether SetData could encode it: "yes", "no", or "none" yet

vars == <<stage, def, loaded, tree, result, payload, sent>>

Init ==
  /\ stage = "load" /\ def \in Definitions
  /\ loaded = <<>> /\ tree = <<>> /\ payload = <<>>
  /\ result = [e \in Exprs |-> "value"] /\ sent = "none"

(* Fault: only what has been unmarshalled is validated.                    *)
LoadUnmarshalled ==
  /\ stage = "load" /\ \E S \in Survivors(def) : loaded' = Unmarshal(Read(def, S))
  /\ stage' = IF ValidateMessageDataLeaves(loaded') /\ DOMAIN loaded' # {}
              THEN "start" ELSE "exited"
  /\ UNCHANGED <<def, tree, result, payload, sent>>

(* LoadConfig validates the leaves of what viper has read and, in          *)
(* Validate, those of the unmarshalled map, which must not be empty.       *)
Load ==
  /\ stage = "load"
  /\ \E S \in Survivors(def) : LET raw == Read(def, S) IN
       /\ loaded' = Unmarshal(raw)
       /\ stage' = IF /\ ValidateMessageDataLeaves(raw)
                      /\ DOMAIN loaded' # {} /\ ValidateMessageDataLeaves(loaded')
                   THEN "start" ELSE "exited"
  /\ UNCHANGED <<def, tree, result, payload, sent>>

(* Fault: the error of NewBuilder is not looked at.                        *)
NewBuilderUnchecked ==
  /\ stage = "start" /\ stage' = "running"
  /\ tree' = IF Refused(loaded) THEN <<>> ELSE CompileMap(loaded)
  /\ UNCHANGED <<def, loaded, result, payload, sent>>

(* NewSentinel: a definition that does not compile ends the process.       *)
NewBuilder ==
  /\ stage = "start"
  /\ IF Refused(loaded) THEN stage' = "exited" /\ UNCHANGED tree
     ELSE stage' = "running" /\ tree' = CompileMap(loaded)
  /\ UNCHANGED <<def, loaded, result, payload, sent>>

Build ==
  /\ stage = "running"
  /\ result' \in [Exprs -> Results]
  /\ payload' = BuildPayload(tree, result')
  /\ sent' = IF Encodable(payload') THEN "yes" ELSE "no"
  /\ UNCHANGED <<stage, def, loaded, tree>>

Exited == stage = "exited" /\ UNCHANGED vars

Next == Load \/ NewBuilder \/ Build \/ Exited

Spec == Init /\ [][Next]_vars

-----------------------------------------------------------------------------
(* Properties                                                              *)

Programs == {[kind |-> "program", expr |-> e] : e \in Exprs} \cup {[kind |-> "literal"]}
Values   == {Json(v) : v \in Exprs \cup {"0", "number"}} \cup {[kind |-> "celmap"]}

TypeOK ==
  /\ stage \in {"load", "start", "running", "exited"}
  /\ IsTree(def, Leaf) /\ IsTree(loaded, Leaf)
  /\ IsTree(tree, Programs) /\ (stage = "running" => DOMAIN tree # {})
  /\ result \in [Exprs -> Results]
  /\ IsTree(payload, Values)
  /\ sent \in {"none", "yes", "no"}

Built == sent # "none"
Fails(leaf)  == leaf.kind = "expr" /\ result[leaf.expr] = "error"
Yields(leaf) == leaf.kind = "number" \/ (leaf.kind = "expr" /\ result[leaf.expr] = "value")
Value(leaf)  == IF leaf.kind = "expr" THEN Json(leaf.expr) ELSE Json("number")

(* The file has no other path to a field, or to a map around it, that      *)
(* differs from this one in case alone.                                    *)
Alone(q) ==
  \A p \in Above(q) \cup {q}, r \in DOMAIN def : Lowered(r) = Lowered(p) => r = p

(* A field that cannot be evaluated is left out and takes nothing with it: *)
(* every field of the file that no other one clashes with, and that has a  *)
(* value, is published with it at its own path, in lower case; and what is *)
(* published anywhere is what some field of that path came to.             *)
FieldsInPlace ==
  Built =>
    /\ \A q \in Leaves(def) :
         Alone(q) /\ Yields(def[q]) =>
           Lowered(q) \in Leaves(payload) /\ payload[Lowered(q)] = Value(def[q])
    /\ \A p \in Leaves(payload) : \E q \in Leaves(def) :
         /\ Lowered(q) = p /\ ~Fails(def[q])
         /\ Yields(def[q]) => payload[p] = Value(def[q])

(* What is left out leaves no empty object behind, however deep.           *)
NoEmptyObject ==
  Built => \A p \in DOMAIN payload :
             payload[p] = Map => \E k \in Keys : Append(p, k) \in DOMAIN payload

(* internal/config/config.go says that a blank leaf is rejected when the   *)
(* configuration is loaded "rather than silently producing a broken        *)
(* payload": with one at any depth of the file the sentinel does not start *)
(* without that field, which unmarshalling would have dropped, unless a    *)
(* key that differs in case alone has taken its place.                     *)
NoBlankLeafBeyondLoad ==
  stage \in {"start", "running"} => \A q \in OfKind(def, {"nil", "blank"}) : ~Alone(q)

(* internal/payload/builder.go says of evalCompiledNode: "Returns nil for  *)
(* missing or null values", which the map then leaves out.                 *)
NullIsOmitted ==
  Built => \A p \in Leaves(payload) :
             tree[p].kind = "program" => result[tree[p].expr] # "null"
=============================================================================
