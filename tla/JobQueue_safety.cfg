CONSTANTS
  j1 = j1  j2 = j2  d1 = d1  d2 = d2  t1 = t1  t2 = t2  t3 = t3  t4 = t4
  Job = {j1, j2}
  Dispatcher = {d1, d2}
  Token = {t1, t2, t3, t4}
  NoJob = NoJob
  NoToken = NoToken
  PriorityJobs = {j1}
  LifoJobs = {}
  Repeatable = {}
  Discard = {}
  Attempts <- MixedAttempts
  MaxStalledCount = 1
  Outcomes = {"ok", "error", "fatal", "postpone"}
  MaxDisturb = 2
SPECIFICATION Spec
INVARIANTS
  OneBucket
  OnlyActiveHeld
  OwnersExclude
  SnapshotIsCurrent
  RunsBounded
SYMMETRY TokenDispatcherSymmetry
