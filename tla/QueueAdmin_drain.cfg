CONSTANTS
  u1 = u1  u2 = u2  p1 = p1  s1 = s1  w1 = w1  w2 = w2
  Job = {p1, s1}
  Worker = {w1, w2}
  NoJob = NoJob
  NoWorker = NoWorker
  PriorityJobs = {}
  Unique = {}
  Scheduled = {s1}
  Keep <- KeepFew
  Parked <- NoneParked
  ResumeBatch = 1
  MaxRounds = 2
  MaxIncarnation <- SecondTwice
SPECIFICATION Spec
INVARIANT ScheduledInQueue
CHECK_DEADLOCK FALSE
