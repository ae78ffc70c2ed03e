CONSTANTS
  Depth = 11
  Nesting = 3
  Types <- MCTypes
  ValueTypes <- MCValueTypes
  Programs <- AllPrograms
  Bits <- SmallBits
  Signature <- Functions
  Struct <- Structs
  Enum <- Enums
SPECIFICATION Spec
INVARIANTS Sound GeneratorTrustsChecker SimpleLiteralsFit OrderIrrelevant
CHECK_DEADLOCK FALSE
