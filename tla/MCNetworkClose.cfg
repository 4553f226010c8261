CONSTANTS
  c1 = c1
  c2 = c2
  Conn = {c1, c2}
  Fd <- MCFd
  MaxConnects = 2
  Requests = {"api"}
  MaxEnables = 1
  Failing = {}
SPECIFICATION Spec
INVARIANT ConnectionsKept
CHECK_DEADLOCK FALSE
