SPECIFICATION FairSpec
CONSTANTS
  arp = arp
  ssh = ssh
  out = out
  NbMbufs = 4
  Frames = {arp, ssh, out}
  FilterOf <- MCFilterOf
  NbQueues = 2
  RingCapacity = 1
  MAX_PKT_BURST = 2
  Dispatchers = {1}
  EnableKni = TRUE
  KniAccept = TRUE
  Warmup = 0
  Slots = 2
  KniActions = {"DEFAULT", "ALL_TO_FF"}
INVARIANTS
  DispatchInv
  Conserved
  OneReceiver
PROPERTIES
  BuffersReturn
  ArpHandedToAll
