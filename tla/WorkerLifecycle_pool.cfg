CONSTANTS
  w1 = w1  w2 = w2  d1 = d1  d2 = d2  d3 = d3
  Worker = {w1, w2}
  Dispatcher = {d1, d2, d3}
  WorkerOf <- TwoWorkers
  Settings <- PoolSettings
SPECIFICATION Spec
INVARIANTS
  DrainAbandonsNothing
  OneJobAfterShutdown
  ShutdownWakesAll
  NoMissedWork
SYMMETRY SlotSymmetry
