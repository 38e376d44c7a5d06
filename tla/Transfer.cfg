\* Two moves, whose streams end and whose daemons stop at any point.
SPECIFICATION Spec
CONSTANTS
  Machines = {1, 2}
  NoOne = 0
  Maker = 1
  MaxMoves = 2
  MaxBreaks = 1
  MaxSends = 3
  MaxWork = 2
INVARIANTS TypeOK OneCopyUnbroken SentKept CarriesHoldsUntorn
