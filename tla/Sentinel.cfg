SPECIFICATION Spec
CONSTANTS
  Ids = {"c1"}
  NoId = ""
  MaxItems = 2
  MaxTicks = 2
INVARIANTS
  TypeOK
  MetricsAddUp
  CyclesAccounted
  SpansMatchPhase
  PublishesOnlyDue
  DeadCycleDoesNothing
PROPERTIES
  LastPollOnlyAfterFullPass
  EveryResourceHandled
  RefinesPollLoop
