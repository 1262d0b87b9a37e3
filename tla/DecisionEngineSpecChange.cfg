SPECIFICATION Spec
CONSTANTS
  Generations = {1, 2}
  Statuses = {"True", "False"}
  Times = {0, 90}
  Nows = {100, 211}
  MaxConditions = 1
  Stale = 100
  Debounce = 10
  MaxDuration = 150
  NoTime = NoTime
  ZeroTime = ZeroTime
  Nil = Nil
  Err = Err
INVARIANTS
  SpecChangesCaught
