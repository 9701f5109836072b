CONSTANTS
  u1 = u1
  w1 = w1
  w2 = w2
  n1 = n1
  n2 = n2
  n3 = n3
  file = file
  dummy = dummy
  none = none
  Lans = {u1}
  Wlans = {w1, w2}
  Nets = {n1, n2, n3}
  Worlds <- MCWorlds
  Allowed = {}
SPECIFICATION Spec
INVARIANT NothingIsLeft
INVARIANT SubnetsFollow
INVARIANT DependenciesAgree
SYMMETRY MCSymmetry
CHECK_DEADLOCK FALSE
