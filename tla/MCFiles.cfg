SPECIFICATION Spec
CONSTANTS
  Contents <- MCContents
  Handles = {1, 2}
  BufSize = 2
  Sizes = {0, 1, 2}
  MaxCalls = 3
  MaxFaults = 1
INVARIANTS
  NothingLost
  CallsReturnWhatIsNext
  StreamIsTheLines
PROPERTIES
  DrainEnds
CHECK_DEADLOCK FALSE
