CONSTANTS
  u1 = u1  u2 = u2  p1 = p1  s1 = s1  w1 = w1  w2 = w2
  Job = {u1, u2, p1}
  Worker = {w1, w2}
  NoJob = NoJob
  NoWorker = NoWorker
  PriorityJobs = {u1}
  Unique = {u1, u2}
  Scheduled = {}
  Keep <- KeepFew
  Parked <- TwoParked
  ResumeBatch = 1
  MaxRounds = 2
  MaxIncarnation <- SecondTwice
SPECIFICATION Spec
INVARIANTS
  TypeOK
  JobsAccounted
  LocksMatchIncarnation
  KeyFollowsJob
PROPERTY OnlyAddCreates
SYMMETRY WorkerSymmetry
CHECK_DEADLOCK FALSE
