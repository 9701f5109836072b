SPECIFICATION MCSpec
CONSTANTS
  AidTypes = {"ephemeris", "almanac"}
  QueueSize = 4
  WireSize = 2
  Worlds <- MCWorlds
  Allowed = {}
  Confs <- MCConfs
  SapConfs <- MCSapConfs
  Measures = {TRUE, FALSE}
  PartLen = 2
  LenLimit = 4
  FileLens = {3, 4, 5}
  WritableMask = {1, 4, 6}
  CertLists <- MCCertLists
  MaxCertLen = 2
  CfgWorlds <- MCCfgWorlds
  CfgAllowed = {}
INVARIANT LastCallWins
INVARIANT SessionIsHeard
INVARIANT DeletedOrWaiting
INVARIANT ConfigArrives
INVARIANT DataArrives
PROPERTY WantedIsServed
CHECK_DEADLOCK FALSE
