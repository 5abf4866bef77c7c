SPECIFICATION FairSpec
CONSTANTS
  Fds = {1, 2}
  MaxCalls = 4
  MaxRx = 1
  SockTypes = {1}
  Follow <- MCStream
PROPERTIES
  DirectCall
  Answered
INVARIANTS
  IInv
  NoLostRequest
  ConnectSucceeds
CHECK_DEADLOCK FALSE
