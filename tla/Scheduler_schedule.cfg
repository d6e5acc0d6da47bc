CONSTANTS
  w1 = w1  w2 = w2
  Worker = {w1, w2}
  NoWorker = NoWorker
  Settings <- AllSettings
  MaxSlotScans = 2
SPECIFICATION Spec
INVARIANTS
  OneAhead
  
  ChainAlive
PROPERTY NextSlotIsNear
SYMMETRY WorkerSymmetry
CHECK_DEADLOCK FALSE
