\* A stop in the round of the loop in which a child execs.
SPECIFICATION Spec
CONSTANTS
  Ids = {a, b}
  Ops = {"spawn", "stop"}
  MaxPid = 2
  MaxConn = 1
  MaxLine = 3
  MaxPtys = 2
  MaxOut = 3
  Terms = FALSE
  Owned = FALSE
INVARIANT StopReaps
CHECK_DEADLOCK FALSE
