CONSTANTS
  s1 = s1
  s2 = s2
  s3 = s3
  e1 = e1
  e2 = e2
  m1 = m1
  m2 = m2
  a1 = a1
  a2 = a2
  a3 = a3
  ll = ll
  g1 = g1
  p1 = p1
  none = none
  PrefixOf <- MCPrefixOf
  Settings <- MCSettings
  Stations = {s1, s2, s3}
  Hosts = {e1, e2}
  Peers = {m1, m2}
  V4 = {a1, a2, a3}
  V6 = {ll, g1}
  WanPrefixes = {p1}
SPECIFICATION Spec
SYMMETRY MCSymmetry
INVARIANT RoutesAgree
INVARIANT NatFollows
INVARIANT TableFollows
CHECK_DEADLOCK FALSE
