SPECIFICATION FairSpec
CONSTANTS
  Fds = {1, 2}
  MaxCalls = 7
  MaxRx = 2
  SockTypes = {2}
  Follow <- MCUdpServer
PROPERTIES
  Answered
CHECK_DEADLOCK FALSE
