SPECIFICATION FairSpec
CONSTANTS
  Fds = {1, 2}
  MaxCalls = 4
  MaxRx = 1
  SockTypes = {2}
  Follow <- MCUdpClient
PROPERTIES
  Answered
CHECK_DEADLOCK FALSE
