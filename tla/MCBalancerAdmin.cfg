SPECIFICATION Spec
CONSTANTS
  a1 = a1
  a2 = a2
  Addrs = {a1, a2}
  NoAddr = NoAddr
  MaxId = 1
  MaxPing = 0
  Admins = {w1}
  Ticker = ticker
  InitialTables <- MCSmallTables
  Tagged = {a2}
  Notifiers = {}
INVARIANT NoLostFailover
PROPERTIES PinnedWhileManual RescuedInTheEnd
