SPECIFICATION Spec
CONSTANTS
  eth0 = eth0
  eth1 = eth1
  Ifs <- MCIfs
  Warmup = 2
  Slots = 3
  MaxPkts = 9
  MaxTime = 3
CHECK_DEADLOCK FALSE
INVARIANTS
  TypeOK
  NothingLost
  SlotFree
