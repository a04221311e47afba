SPECIFICATION SpecWithClear
CONSTANTS
  List = {l1, l2}
  Node = {n1, n2}
  Value = {u, v}
  Null = Null
PROPERTIES
  ClearEmpties
