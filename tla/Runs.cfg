SPECIFICATION FairSpec
CONSTANTS
  Stages = {"build", "check", "review"}
  Start = "build"
  Agents = {"build", "review"}
  Verdicts = {"review"}
  Timed = {"build", "review"}
  Arrows <- MCArrows
  Budget = 2
  Lines = {"one"}
  None = None
  MaxResumes = 1
  MaxCloses = 1
  MaxRestarts = 1
INVARIANTS TypeOK WithinBudget OneWorker
PROPERTIES EndedStays ReportCounts Settles
CHECK_DEADLOCK FALSE
