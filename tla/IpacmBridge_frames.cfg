SPECIFICATION Spec
CONSTANTS
  eth0 = eth0
  w1 = w1
  w2 = w2
  Lans = {eth0}
  Wlans = {w1, w2}
  L2 <- MCL2
  Macs = {c1, c2}
  CacheSize = 1
  MaxSwitches = 1
  Worlds <- MCWorlds
  Allowed = {}
SYMMETRY MCSymmetry
INVARIANT BridgeIsIdeal
INVARIANT PeersAreMutual
INVARIANT ClientsAgree
CHECK_DEADLOCK FALSE
