SPECIFICATION AllSpec
CONSTANTS
  List = {l1, l2}
  Node = {n1, n2, n3}
  Value = {u, v}
  Null = Null
  Vec = {v1, v2}
  Block = {b1, b2, b3}
  Item = {x}
  Zero = Zero
  Raw = Raw
  Junk = Junk
  MaxLen = 3
  MaxCap = 4
  Capacity = 3
  MaxBytes = 8
  MaxErrors = 2
SYMMETRY Symmetry
INVARIANTS
  ListHeapRight
  VectorHeapRight
  WriterRight
PROPERTIES
  ImplementsListSpec
  ImplementsVectorSpec
  LossIsReported
