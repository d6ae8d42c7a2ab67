SPECIFICATION ListSpec
CONSTANTS
  l1 = l1
  l2 = l2
  n1 = n1
  n2 = n2
  n3 = n3
  n4 = n4
  v1 = v1
  v2 = v2
  nullptr = nullptr
  Lists <- MCLists
  Nodes <- MCNodes
  Values <- MCValues
SYMMETRY Symmetry
INVARIANTS
  WellFormed
PROPERTIES
  ImplementsSequences
