SPECIFICATION Spec
CONSTANTS
  PollInterval = 5
  AnswerTime = 1
  RetryGap = 19
  MinSurrender = 21
  FetchBudget = 40
  PassTime = 2
  InitialDelay = 15
  ProbePeriod = 20
  ProbeFailures = 3
  MaxOutage = 26
INVARIANTS
  TypeOK
  NoFalseAlarm
  OutageTolerated
PROPERTIES
  HungLoopIsRestarted
  PollsResume
  RestartDeadline
