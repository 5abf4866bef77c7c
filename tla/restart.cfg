SPECIFICATION RestartSpec
CONSTANTS
  Fds = {1, 2}
  MaxCalls = 4
  MaxRx = 1
  MaxCrashes = 3
  SockTypes = {2}
  Follow <- MCDatagrams
INVARIANTS
  WholeInv
  WholeRequests
CHECK_DEADLOCK FALSE
