SPECIFICATION Spec
CONSTANTS
  a1 = a1
  a2 = a2
  a3 = a3
  api = api
  Addrs = {a1, a2, a3}
  NoAddr = NoAddr
  MaxId = 0
  Units = {"xray", "own"}
  Tagged = {a1, a2}
  UserRules = {api}
  FirstFiles <- MCFirstFiles
PROPERTY SyncsReachXray
