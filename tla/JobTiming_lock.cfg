CONSTANTS
  a = a  b = b
  Worker = {a, b}
  Nobody = Nobody
  Width = 11
  Milli = 10
  Second = 100
  MaxIdleWait = 400
  Settings <- ShortLock
  MaxStarts = 13
SPECIFICATION Spec
INVARIANT LockCoversHandler
CHECK_DEADLOCK FALSE
