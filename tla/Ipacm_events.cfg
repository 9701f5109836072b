CONSTANTS
  usb = usb
  r1 = r1
  w1 = w1
  Modems = {r1}
  Wlans = {w1}
  MaxLinks = 5
  MaxEdits = 1
  UpRunning = FALSE
  q1 = q1
  q2 = q2
  multicast = multicast
  station = station
  Pdns = {q1, q2}
  Worlds <- MCWorlds
  Algs <- MCAlgs
  Android = TRUE
  QMI_IPA_MAX_FILTERS_V01 = 24
  Allowed = {}
SPECIFICATION MCSpec
INVARIANT ObjectsFollowLinks
INVARIANT NoLostWakeup
INVARIANT ModemDecides
INVARIANT StationDecides
PROPERTY UpIsServedAtLast
CHECK_DEADLOCK FALSE
