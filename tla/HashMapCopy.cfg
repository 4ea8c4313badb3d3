CONSTANTS
  Hashes = {0, 1, 2, 4, 8}
  Values = {100, 200}
  Sizes = {1, 2, 3}
  LoadFactors <- QuarterOrOne
  MaxCount = 8
  Objects = {a, b}
  Raw = Raw
  Starts = {1, 2}
  Groups = {1, 3}
  Sources = {0, 3}
  MaxCapacity = 4
  Elements = {a, b}
  Vacant = Vacant
  Bits = 2
  FirstSlots = {0, 1}
  Reach = 1
  MaxSlots = 4
  Vectors = {v1, v2, v3}
  Bytes = 2
  Requests = {1, 4}
  Blocks = {b1, b2, b3, b4}
  MaxRoom = 8
SPECIFICATION ContainersSpec
INVARIANTS CopyHasEveryKey
CHECK_DEADLOCK FALSE
