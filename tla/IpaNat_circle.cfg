CONSTANTS
  f1 = f1
  f2 = f2
  f3 = f3
  Flows = {f1, f2}
  NoFlow = NoFlow
  TableEntries = 4
  ExpnEntries = 4
  DstBits <- OneBucketDst
  SrcBits <- OneBucketSrc
  MaxFail = 1
SPECIFICATION Spec
INVARIANTS
  NoCircle
