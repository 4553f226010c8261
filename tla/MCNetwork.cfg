CONSTANTS
  c1 = c1
  c2 = c2
  Conn = {c1, c2}
  Fd <- MCFd
  MaxConnects = 3
  Requests = {"api"}
  MaxEnables = 1
  Failing = {"recvfrom", "sendto"}
SPECIFICATION Spec
INVARIANT TypeOK
INVARIANT OnlyReuseDisturbs
PROPERTY ServesSessions
PROPERTY SearchesNotDropped
CHECK_DEADLOCK FALSE
