SPECIFICATION AllSpec
CONSTANTS
  Grandchild = {g1, g2}
  Code = {0, 1}
  File = {1, 2}
  Hard = 6
  Most = 5
  MaxOps = 2
  MaxNodes = 3
  NodeSize = 2
  Limits = {4, 8, 16, 32, 64}
  MaxNumbers = 2
INVARIANTS
  PassMeansASessionPassed
  WithoutIntruders
  GuardsRight
  TreePrinted
  RootsRight
PROPERTIES
  RunsEnd
CHECK_DEADLOCK FALSE
