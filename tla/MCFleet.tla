------------------------------ MODULE MCFleet ------------------------------
(***************************************************************************)
(* Two shards. The first sentinel's list has an entry without a label; the *)
(* second one's names its label twice.                                     *)
(***************************************************************************)
EXTENDS Fleet

CONSTANTS a, b, shard, v1, v2

MCSelectors ==
  [s \in {a, b} |->
     IF s = a THEN <<[label |-> shard, value |-> v1], [label |-> NoLabel, value |-> v2]>>
     ELSE <<[label |-> shard, value |-> v1], [label |-> shard, value |-> v2]>>]
=============================================================================
