SPECIFICATION Spec
CONSTANTS
  Addrs = {a1, a2, other}
  Tagged = {a1, a2}
  MaxLines = 4
  MaxCuts = 1
INVARIANTS
  TypeOK
  NothingTwice
PROPERTIES
  LineHeard
  NothingPassedOver
