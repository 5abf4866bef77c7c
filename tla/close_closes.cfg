SPECIFICATION Spec
CONSTANTS
  Fds = {1, 2}
  MaxCalls = 8
  MaxRx = 1
  SockTypes = {1}
  Follow <- MCHttpServer
INVARIANTS
  CloseCloses
CHECK_DEADLOCK FALSE
