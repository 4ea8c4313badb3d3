CONSTANTS
  Vectors = {v1, v2, v3}
  Bytes = 2
  Requests = {1, 4}
  Blocks = {b1, b2, b3, b4}
  MaxRoom = 8
SPECIFICATION AllocatorSpec
INVARIANTS OnlyHeapIsFreed
CHECK_DEADLOCK FALSE
