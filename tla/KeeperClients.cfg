\* A pty that two clients know of, upgrades and the idle exit.
SPECIFICATION Spec
CONSTANTS
  Ids = {a}
  Ops = {"spawn", "ack", "upgrade"}
  MaxPid = 1
  MaxConn = 2
  MaxLine = 2
  MaxPtys = 2
  MaxOut = 3
  Terms = FALSE
  Owned = FALSE
INVARIANTS ExitsTold EndsClean
CHECK_DEADLOCK FALSE
