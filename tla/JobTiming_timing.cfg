CONSTANTS
  a = a  b = b
  Worker = {a, b}
  Nobody = Nobody
  Width = 11
  Milli = 10
  Second = 100
  MaxIdleWait = 400
  Settings <- TimingSettings
  MaxStarts = 13
SPECIFICATION Spec
INVARIANTS
  LockCoversHandler
  RecoveredInTime
  OwnScanRuns
  HistoryComplete
  OptionsSurvive
PROPERTIES
  PromptStart
  DelayFollowsCurve
  RetriesUsedUp
CHECK_DEADLOCK FALSE
