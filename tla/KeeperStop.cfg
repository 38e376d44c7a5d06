\* A stop, or the exit of the owner, while a spawn is under way: what ends, and how.
SPECIFICATION FairSpec
CONSTANTS
  Ids = {a}
  Ops = {"spawn", "close", "stop"}
  MaxPid = 1
  MaxConn = 1
  MaxLine = 3
  MaxPtys = 2
  MaxOut = 3
  Terms = FALSE
  Owned = TRUE
INVARIANTS WaitedForOnce EndsClean StopIsFinal
PROPERTIES Answered StopEnds
CHECK_DEADLOCK FALSE
