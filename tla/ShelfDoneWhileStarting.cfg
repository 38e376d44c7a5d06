\* A task ended while it starts comes back.
SPECIFICATION Spec
CONSTANTS
  Machines = {1, 2}
  NoOne = NoOne
  Maker = 1
  MaxEpoch = 2
  MaxClock = 4
  MaxMessages = 2
  MaxSyncs = 1
  Pickers = {1}
PROPERTY DoneEnds
