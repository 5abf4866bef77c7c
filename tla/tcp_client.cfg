SPECIFICATION FairSpec
CONSTANTS
  Fds = {1, 2}
  MaxCalls = 8
  MaxRx = 1
  SockTypes = {1}
  Follow <- MCTcpClient
PROPERTIES
  Answered
  SocketReturns
CHECK_DEADLOCK FALSE
