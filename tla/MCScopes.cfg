CONSTANTS
  x = x
  y = y
  None = None
  Names <- MCNames
  MaxOpen = 5
  MaxBlocks = 4
  MaxDecls = 2
SPECIFICATION Spec
INVARIANTS LexicalLookup TokensUnique ParamsDenoteTheirClosure JumpsStayInLoop
SYMMETRY Symmetry
