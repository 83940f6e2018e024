SPECIFICATION BanditSpec
CONSTANTS
  Variants = {v1, v2}
  Messages = {m1, m2, m3}
  Settlers = {s1}
  Replies = {r1}
  MinTrials = 2
  MaxEvents = 1
SYMMETRY Symmetry
INVARIANT BanditInv
PROPERTY ArmRemains
CHECK_DEADLOCK FALSE
