\* A stream that ends while the receiver unbundles leaves two copies.
SPECIFICATION Spec
CONSTANTS
  Machines = {1, 2}
  NoOne = 0
  Maker = 1
  MaxBreaks = 1
  MaxMoves = 1
  MaxSends = 2
  MaxWork = 2
INVARIANT OneCopy
