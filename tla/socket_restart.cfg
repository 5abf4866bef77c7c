SPECIFICATION RestartFairSpec
CONSTANTS
  Fds = {1, 2}
  MaxCalls = 4
  MaxRx = 1
  MaxCrashes = 1
  SockTypes = {1}
  Follow <- MCTcpClient
PROPERTY
  SocketReturns
CHECK_DEADLOCK FALSE
