SPECIFICATION Spec
CONSTANTS
  Stages = {"build", "check", "review"}
  Start = "build"
  Agents = {"build", "review"}
  Verdicts = {"review"}
  Timed = {"build", "review"}
  Arrows <- MCArrows
  Budget = 2
  Lines = {"one"}
  None = None
  MaxResumes = 1
  MaxCloses = 0
  MaxRestarts = 1
INVARIANT CarriesOn
CHECK_DEADLOCK FALSE
