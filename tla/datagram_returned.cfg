SPECIFICATION FairSpec
CONSTANTS
  Fds = {1, 2}
  MaxCalls = 8
  MaxRx = 2
  SockTypes = {2}
  Follow <- MCUdpServer
PROPERTIES
  DatagramReturned
CHECK_DEADLOCK FALSE
