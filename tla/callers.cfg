SPECIFICATION CallersSpec
CONSTANTS
  Fds = {1, 2}
  MaxCalls = 3
  MaxRx = 1
  SockTypes = {1}
  FollowA <- MCSender
  FollowB <- MCReceiver
INVARIANTS
  CallersInv
  OwnResults
CHECK_DEADLOCK FALSE
