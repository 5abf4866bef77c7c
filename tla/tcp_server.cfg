SPECIFICATION Spec
CONSTANTS
  Fds = {1, 2, 3}
  MaxCalls = 7
  MaxRx = 1
  SockTypes = {1}
  Follow <- MCTcpServer
PROPERTY
  DirectCall
INVARIANTS
  SlotInv
  ServerInv
  OwnResult
  AcceptsOnListener
CHECK_DEADLOCK FALSE
