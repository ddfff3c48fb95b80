SPECIFICATION Spec
CONSTANTS
  a0 = a0
  a1 = a1
  Addrs = {a0, a1}
  NoAddr = NoAddr
  MaxId = 2
  Admins = {1, 2}
  Ticker = ticker
  InitialTables <- MCTables
  Feeds <- MCFeeds
  FirstFeeds <- MCFirstFeeds
  CfgBackends <- MCCfg
  Portless = a0
  Clients = {c1}
  MaxConfig = 4
  MaxSub = 2
  MaxPicks = 1
  Ticked = {FALSE}
  MaxRequests = 2
  MaxFaults = 1
INVARIANTS TypeOK SeededOnce ImportedWhole PicksAsAsked
PROPERTY BackendsConverge
