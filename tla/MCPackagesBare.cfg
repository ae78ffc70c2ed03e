SPECIFICATION CompileSpec
CONSTANTS
  Order <- MCOrder
  Prefix <- MCPrefix
  Imports <- MCImports
  Declarations <- MCDeclarations
  Capitalised <- MCCapitalised
  Scalars <- MCScalars
  Reserved <- MCReserved
INVARIANT
  BareNamesMeanThisPackage
CHECK_DEADLOCK FALSE
