CONSTANTS
  NodeKeys = {k1, k2}
  Types = {"small", "large"}
  Size <- SmallAndLarge
  Kinds <- SecondOrThirdIsLarge
  MaxChanges = 2
SPECIFICATION Spec
SYMMETRY Renaming
INVARIANTS ChildrenInOrder EachLivesOnce
PROPERTIES OptimizeMergesAll
CHECK_DEADLOCK FALSE
