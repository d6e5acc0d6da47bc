CONSTANTS
  j1 = j1  j2 = j2  d1 = d1  d2 = d2  t1 = t1  t2 = t2  t3 = t3  t4 = t4
  Job = {j1, j2}
  Dispatcher = {d1}
  Token = {t1, t2, t3}
  NoJob = NoJob
  NoToken = NoToken
  PriorityJobs = {}
  LifoJobs = {j2}
  Repeatable = {j2}
  Discard = {j1}
  Attempts <- MixedAttempts
  MaxStalledCount = 0
  Outcomes = {"ok", "error"}
  MaxDisturb = 2
SPECIFICATION FairSpec
PROPERTIES
  ImplementsService
  EveryJobFinishes
