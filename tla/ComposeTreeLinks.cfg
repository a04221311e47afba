SPECIFICATION Spec
CONSTANTS
  Path <- MCPath
  Nodes <- MCNodes
  Skipped <- MCSkipped
  Unexported <- MCUnexported
  Private <- MCPrivate
  Foreign <- MCForeign
  MaxEdits = 2
  MaxCrashes = 0
INVARIANTS
  SuccessPrunes
