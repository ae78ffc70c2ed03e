\* A single-file root, two packages below it, and what cannot be imported.
CONSTANTS
  Path <- MCPath
  Kind <- MCKind
  Root = "main.aml"
  File <- MCFile
  FilesOf <- MCFilesOf
  Broken = {"bad/x"}
  Alias = {"x", "y"}
  Programs <- MCPrograms
  None = None
SPECIFICATION FairSpec
INVARIANTS TopologicalOrder FilesOnce
PROPERTIES BindingsAreStable Terminates ImplementsDag
CHECK_DEADLOCK FALSE
