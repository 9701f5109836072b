CONSTANTS
  f1 = f1
  f2 = f2
  f3 = f3
  Flows = {f1, f2, f3}
  NoFlow = NoFlow
  TableEntries = 4
  ExpnEntries = 4
  DstBits <- OneBucketDst
  SrcBits <- OneBucketSrc
  MaxFail = 1
SPECIFICATION Spec
INVARIANT LiveRulesFound
INVARIANT ChainsAreSound
INVARIANT HandlesNameTheirRule
PROPERTY ImplementsService
CHECK_DEADLOCK FALSE
