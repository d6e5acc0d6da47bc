CONSTANTS
  j1 = j1
  j2 = j2
  j3 = j3
  Job = {j1, j2, j3}
  NoJob = NoJob
  MaxEvents = 2
  Chunk = 1
  PageSize = 2
  Settings <- ObserverSettings
SPECIFICATION Spec
INVARIANTS
  EventsInOrder
  SubscriberKnows
  CountsAndListAgree
  PagesTile
  MetricsExact
PROPERTY
  SubscribeEnds
CHECK_DEADLOCK FALSE
