SPECIFICATION Spec
CONSTANTS
  Runs = {r1}
  HumanCommits = {h1}
  Edits = {}
  NoRun = NoRun
  MaxSource = 1
  HasIdentity = TRUE
  AutoMerge = TRUE
  DryRunModes = {FALSE}
  Recurring = TRUE
INVARIANTS
  NoHumanCommitDiscarded
CHECK_DEADLOCK FALSE
