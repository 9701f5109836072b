SPECIFICATION Spec
CONSTANTS c1 = c1 c2 = c2 c3 = c3 c4 = c4 c5 = c5 c6 = c6 c7 = c7 c8 = c8 s1 = s1 s2 = s2 self = self h1 = h1 h2 = h2 o1 = o1 none = none
  Conns = {c1, c2, c3, c4, c5, c6, c7, c8}
  Peers = {s1, s2}
  MaxPeers = 2
  Tcp = {c1, c3, c5, c8}
  Hosts = {h1, h2}
  OtherHosts = {o1}
  PrivateIp <- MCPrivateIp
  TargetIp <- MCTargetIp
  AlgConns = {c2}
  PublicIps = {p1, p2} p1 = p1 p2 = p2
  MaxIfaces = 1
  Settings <- MCRefreshed
INVARIANT ClosedHasNoRule
