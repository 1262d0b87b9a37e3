SPECIFICATION Spec
CONSTANTS
  a = a
  b = b
  shard = shard
  v1 = v1
  v2 = v2
  Sentinels = {a, b}
  Ids = {x}
  Labels = {shard}
  Values = {v1, v2}
  NoLabel = NoLabel
  Selectors <- MCSelectors
  MaxGeneration = 2
  MaxRelabels = 2
  MaxFaults = 3
INVARIANTS
  TypeOK
  AtMostOneLateEvent
PROPERTIES
  Reconciles
