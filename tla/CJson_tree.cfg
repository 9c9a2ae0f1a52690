CONSTANTS
  Memory = {m1, m2, m3, m4}
  NULL = NULL
  Leaves = {"a"}
  MaxKeys = 2
SPECIFICATION Spec
INVARIANTS TypeOK CompareMeansEqual
PROPERTIES ImplementsTree
SYMMETRY Interchangeable
