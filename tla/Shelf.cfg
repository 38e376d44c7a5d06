\* Two machines and one task, which is taken over when its owner is away too long.
SPECIFICATION Spec
CONSTANTS
  Machines = {1, 2}
  NoOne = NoOne
  Maker = 1
  MaxEpoch = 2
  MaxClock = 4
  MaxMessages = 2
  MaxSyncs = 1
  Pickers = {1}
INVARIANTS TypeOK OnlyHoldersHaveIt KeptTogether
PROPERTIES ImplementsGrants StartedStays
