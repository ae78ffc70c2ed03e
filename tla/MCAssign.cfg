CONSTANTS
  one = one
  two = two
  None = None
  Proc <- MCProc
  Depth = 3
  N = 2
  Spawned = TRUE
SPECIFICATION Spec
INVARIANTS AssignmentsLand ElsewhereUntouched
SYMMETRY Symmetry
