SPECIFICATION Spec
CONSTANTS
  MaxCycles = 2
  MaxSignals = 2
INVARIANTS
  TypeOK
  PublisherOutlivesLoop
  ReleasesPublisher
  ReadyOnlyWhenServing
  TracerShutDownLast
  ConfigRunnable
PROPERTIES
  SignalEndsProcess
  PrecedenceKept
