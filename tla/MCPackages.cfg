SPECIFICATION CompileSpec
CONSTANTS
  Order <- MCOrder
  Prefix <- MCPrefix
  Imports <- MCImports
  Declarations <- MCDeclarations
  Capitalised <- MCCapitalised
  Scalars <- MCScalars
  Reserved <- MCReserved
INVARIANTS
  TypesMeanOneDeclaration
  CallsReachTheirFunction
  ListsShareOneGoType
  ExternAliasesMeanOnePackage
CHECK_DEADLOCK FALSE
