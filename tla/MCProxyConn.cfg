SPECIFICATION Spec
CONSTANTS
  a1 = a1
  a2 = a2
  u1 = u1
  u2 = u2
  Conns = {c1, c2}
  Addrs = {a1, a2}
  NoAddr = NoAddr
  Lists <- MCLists
  NoRow = NoRow
  NoId = NoId
  BadId = BadId
  Targets <- MCTargets
  TestTarget = NoTarget
  NoTarget = NoTarget
  AdminEnabled = FALSE
INVARIANTS
  TypeOK
  GaugeIsExact
  NoOrphanSocket
  GreetingIsRequest
PROPERTY HandlerEnds
