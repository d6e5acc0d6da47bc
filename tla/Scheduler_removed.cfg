CONSTANTS
  w1 = w1  w2 = w2
  Worker = {w1, w2}
  NoWorker = NoWorker
  Settings <- RemovedOnly
  MaxSlotScans = 2
SPECIFICATION Spec
INVARIANT RemovalDropsDelayed
CHECK_DEADLOCK FALSE
