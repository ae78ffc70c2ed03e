CONSTANTS
  Half = 8
  MaxAlloc = 6
SPECIFICATION RangeSpec
INVARIANTS CountsUp ReachesTo YieldCollects
