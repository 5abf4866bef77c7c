SPECIFICATION FairSpec
CONSTANTS
  Fds = {1, 2}
  MaxCalls = 5
  MaxRx = 1
  SockTypes = {2}
  Follow <- MCDgram
PROPERTY
  Answered
INVARIANTS
  NoSpuriousReply
  NoLostRequest
CHECK_DEADLOCK FALSE
