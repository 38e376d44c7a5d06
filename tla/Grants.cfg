\* Two machines; grants and acknowledgements lost, resent and reordered, and
\* takeovers; fair resending and delivery.
SPECIFICATION FairSpec
CONSTANTS
  Machines = {1, 2}
  NoOne = NoOne
  Maker = 1
  MaxEpoch = 3
INVARIANTS TypeOK AtMostOneHolder AckedWasTaken NeverLost
PROPERTIES HeldAgainIsNewer GrantArrives
