SPECIFICATION FairSpec
CONSTANTS
  Objs = {o1, o2, o3, o4}
  NoObj = NoObj
  Producers = {p1, p2}
  Consumers = {c1}
  Size = 4
  Word = 8
  SpEnq = FALSE
  ScDeq = TRUE
INVARIANTS
  RingInv
  Conserved
PROPERTY
  IsFifo
  Published
