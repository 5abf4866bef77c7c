SPECIFICATION RestartSpec
CONSTANTS
  Fds = {1, 2}
  MaxCalls = 6
  MaxRx = 1
  MaxCrashes = 2
  SockTypes = {1}
  Follow <- MCTcpClient
INVARIANTS
  ConnectSucceeds
CHECK_DEADLOCK FALSE
