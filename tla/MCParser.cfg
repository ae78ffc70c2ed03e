CONSTANTS
  Names <- MCNames
  Literals <- MCLiterals
  Programs <- MCPrograms
  Drafts <- MCDrafts
  Typos <- MCTypos
  MaxSlips = 1
SPECIFICATION Spec
INVARIANTS
  ReadsWhatWasMeant
  EveryWordOnce
  StatementsStandAlone
CHECK_DEADLOCK FALSE
