SPECIFICATION FairSpec
CONSTANTS
  Fds = {1, 2}
  MaxCalls = 6
  MaxRx = 1
  SockTypes = {1}
  Follow <- MCTcpServer
PROPERTIES
  EndReported
CHECK_DEADLOCK FALSE
