CONSTANTS
  c1 = c1
  c2 = c2
  c3 = c3
  q1 = q1
  q2 = q2
  k1 = k1
  Caller = {c1, c2, c3}
  Queue = {q1, q2}
  Other = {k1}
  Settings <- ClientSettings
SPECIFICATION Spec
INVARIANTS
  AnswerIsTrue
  ReloadIsHidden
  DiscoverExact
PROPERTY EveryAddReturns
CHECK_DEADLOCK FALSE
