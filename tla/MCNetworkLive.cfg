CONSTANTS
  c1 = c1
  c2 = c2
  Conn = {c1}
  Fd <- MCFd
  MaxConnects = 2
  Requests = {"api", "description", "ignored"}
  MaxEnables = 2
  Failing = {"bind", "listen", "accept", "recvfrom", "sendto"}
SPECIFICATION FairSpec
PROPERTY ThreadsEnd
PROPERTY OnlyErrorsStopAccepting
PROPERTY SearchesAnswered
CHECK_DEADLOCK FALSE
