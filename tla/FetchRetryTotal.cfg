SPECIFICATION Spec
CONSTANTS
  InitialInterval = 2
  MaxInterval = 32
  Multiplier = 2
  JitterPercent = 10
  MaxElapsed = 120
  RequestTimeout = 40
  Codes = {200, 204, 302, 400, 404, 408, 429, 499, 500, 503, 599}
INVARIANTS
  TotalWithinMaxElapsed
