SPECIFICATION FairSpec
CONSTANTS
  Fds = {1, 2}
  MaxCalls = 5
  MaxRx = 1
  SockTypes = {1}
  Follow <- MCTcpClient
PROPERTIES
  SendReturns
CHECK_DEADLOCK FALSE
