SPECIFICATION OutageSpec
CONSTANTS
  InitialInterval = 1
  MaxInterval = 16
  Multiplier = 2
  JitterPercent = 10
  MaxElapsed = 60
  RequestTimeout = 20
  Codes = {200, 204, 302, 400, 404, 408, 429, 499, 500, 503, 599}
  AnswerTime = 2
  RetryGap = 38
  MinSurrender = 42
INVARIANTS
  TypeOK
  WithinBudget
  NoEarlySurrender
  DeadRequestIsCancelled
  RecoversInTime
  FailsLate
PROPERTIES
  PermanentEndsCall
  Returns
