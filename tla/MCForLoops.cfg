CONSTANTS
  r1 = r1
  r2 = r2
  k1 = k1
  k2 = k2
  v1 = v1
  v2 = v2
  Temp = Temp
  Zero = Zero
  Refs <- MCRefs
  Keys <- MCKeys
  Vals <- MCVals
  MaxLen = 2
  MaxOps = 2
  Shapes = {"List", "Array", "Set", "Map"}
  Reassigns = TRUE
SPECIFICATION FairSpec
INVARIANTS PanicNeedsReassignment
PROPERTY VisitsLikeForEach
