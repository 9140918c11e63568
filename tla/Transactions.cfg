\* Two calls with two connections; retries, timers and stray callbacks.
SPECIFICATION FairSpec
CONSTANTS
  t1 = t1
  t2 = t2
  t3 = t3
  c1 = c1
  c2 = c2
  None = None
  Callers = {t1, t2}
  Connections = {c1, c2}
  Statements = 2
  MaxRetries = 1
INVARIANTS
  ReturnedIsComplete
  ThrownLeavesNothing
  ConnectionsComeBack
PROPERTIES
  EveryCallEnds
