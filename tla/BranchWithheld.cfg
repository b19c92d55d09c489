SPECIFICATION Spec
CONSTANTS
  Runs = {r1}
  HumanCommits = {}
  Edits = {}
  NoRun = NoRun
  MaxSource = 1
  HasIdentity = TRUE
  AutoMerge = TRUE
  DryRunModes = {FALSE}
  Recurring = TRUE
INVARIANTS
  WithheldCannotMergeItself
CHECK_DEADLOCK FALSE
