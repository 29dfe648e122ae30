SPECIFICATION FairSpec
CONSTANTS
  m1 = m1
  None = None
  Callers = {c1}
  Sessions = {s1, s2}
  Modules = {m1}
  Compatible <- MCCompatible
  QueueCap = 1
  DebugCap = 1
INVARIANTS
  PausedIsHeld
  NoOrphanDebugState
PROPERTIES
  EveryCallAnswered
  ForgottenDebuggerReleases
  StopEndsRun
CHECK_DEADLOCK FALSE
