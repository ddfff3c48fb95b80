SPECIFICATION Spec
CONSTANTS
  a1 = a1
  a2 = a2
  Addrs = {a1, a2}
  NoAddr = NoAddr
  MaxId = 2
  MaxPing = 1
  Admins = {}
  Ticker = ticker
  InitialTables <- MCTables
  Tagged = {a1, a2}
  Notifiers = {n1}
INVARIANTS
  TypeOK
  NoLostFailover
  SyncTracksActive
PROPERTIES
  PinnedWhileManual
  OnlyAllowedMoves
  RescuedInTheEnd
