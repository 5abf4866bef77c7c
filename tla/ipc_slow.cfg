SPECIFICATION Spec
CONSTANTS
  Msgs = {m1, m2, m3}
  NoMsg = NoMsg
  FF_UNKNOWN = FF_UNKNOWN
  Types = {FF_TOP, FF_SYSCTL}
  Capacity = 2
  MaxKills = 2
  MaxLate = 1
CHECK_DEADLOCK FALSE
INVARIANTS
  NoDoubleFree
