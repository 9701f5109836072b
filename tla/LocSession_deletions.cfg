SPECIFICATION MCSpec
CONSTANTS
  AidTypes = {"ephemeris", "almanac"}
  QueueSize = 4
  WireSize = 2
  Worlds <- MCDeletions
  Allowed = {}
  Confs <- MCConfs
  SapConfs <- MCSapConfs
  Measures = {TRUE, FALSE}
  PartLen = 2
  LenLimit = 4
  FileLens = {3, 4, 5}
  WritableMask = {1, 4, 6}
  CertLists <- MCCertLists
  MaxCertLen = 2
  CfgWorlds <- MCQuiet
  CfgAllowed = {}
INVARIANT AskedIsDeleted
CHECK_DEADLOCK FALSE
