SPECIFICATION Spec
CONSTANTS
  Objs = {o1, o2, o3}
  NoObj = NoObj
  Producers = {p1, p2}
  Consumers = {c1}
  Size = 4
  Word = 8
  SpEnq = TRUE
  ScDeq = TRUE
INVARIANTS
  Conserved

