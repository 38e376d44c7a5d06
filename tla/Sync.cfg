\* Two machines that can reach each other in the end, messages of one op.
SPECIFICATION FairSpec
CONSTANTS
  Machines = {1, 2}
  Fields = {name}
  Values = {u, v}
  MaxOps = 1
  MaxTime = 2
  MaxPushes = 1
INVARIANTS TypeOK UnbrokenRun RecordIsLatest
PROPERTIES OwnWriteShows Converges
