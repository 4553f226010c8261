CONSTANTS
  c1 = c1
  c2 = c2
  Conn = {c1}
  Fd <- MCFd
  MaxConnects = 1
  Requests = {"api"}
  MaxEnables = 1
  Failing = {}
SPECIFICATION Spec
PROPERTY DisabledNotDiscovered
CHECK_DEADLOCK FALSE
