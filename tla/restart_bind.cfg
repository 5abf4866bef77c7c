SPECIFICATION RestartSpec
CONSTANTS
  Fds = {1, 2}
  MaxCalls = 8
  MaxRx = 1
  MaxCrashes = 2
  SockTypes = {1}
  Follow <- MCBinds
INVARIANTS
  WholeRequests
CHECK_DEADLOCK FALSE
