SPECIFICATION Spec
CONSTANTS
  Ids = {"c1"}
  NoId = ""
  MaxItems = 1
  MaxTicks = 1
INVARIANTS
  CompletesCurrentCycle
