SPECIFICATION ProgramFairSpec
CONSTANTS
  m1 = m1
  m2 = m2
  None = None
  Callers = {c1, s1}
  Sessions = {s1}
  Modules = {m1, m2}
  Compatible <- MCCompatible
  QueueCap = 1
  DebugCap = 1
CHECK_DEADLOCK FALSE
INVARIANT PublishedMatchesEngine
PROPERTIES SwapBetweenCycles StopsOnlyIncompatible RequestsEnd FollowsLifecycle
