CONSTANTS
  Objects = {a, b}
  Raw = Raw
  Starts = {1, 2}
  Groups = {1, 2, 3}
  Sources = {0, 3}
  MaxCapacity = 4
SPECIFICATION VectorSpec

PROPERTIES ResizeAccommodates
CHECK_DEADLOCK FALSE
