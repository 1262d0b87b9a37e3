SPECIFICATION Spec
CONSTANTS
  MaxCycles = 1
  MaxSignals = 1
INVARIANTS
  ServersShutDown
