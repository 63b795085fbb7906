CONSTANTS
  h1 = h1  h2 = h2
  a = a  b = b  c = c
  Root = root
  Hierarchies <- MCHierarchies
  Names <- MCNames
  Parent <- MCParent
  NewNames <- MCNewNames
  MaxChanges = 3
SPECIFICATION Spec
INVARIANTS TypeOK CreationIsToldOnce QuietMeansKnown
SYMMETRY Symmetry
CHECK_DEADLOCK FALSE
