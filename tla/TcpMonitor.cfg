SPECIFICATION Spec
CONSTANTS
  Addrs = {a1, a2}
  NoAddr = NoAddr
  MaxId = 0
  MaxPing = 1
  MaxFlips = 2
INVARIANT TypeOK
PROPERTY
  SilentRanksLast
