\* A client that spawns, closes and acks ptys around upgrades and the idle exit.
SPECIFICATION Spec
CONSTANTS
  Ids = {a}
  Ops = {"spawn", "close", "ack", "adopt", "hello", "upgrade"}
  MaxPid = 2
  MaxConn = 1
  MaxLine = 3
  MaxPtys = 2
  MaxOut = 3
  Terms = TRUE
  Owned = FALSE
INVARIANTS TypeOK WaitedForOnce AnsweredOnce
CHECK_DEADLOCK FALSE
