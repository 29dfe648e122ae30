SPECIFICATION RemoteFairSpec
CONSTANTS
  m1 = m1
  None = None
  Callers = {api, s1, s2}
  Sessions = {s1, s2}
  Modules = {m1}
  Compatible <- MCCompatible
  QueueCap = 1
  DebugCap = 1
  ApiOps = {"Start", "Stop"}
INVARIANTS OneDebugger ClientIsServed
PROPERTIES LeavingFrees
CHECK_DEADLOCK FALSE
