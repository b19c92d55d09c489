SPECIFICATION Spec
CONSTANTS
  Runs = {r1, r2}
  HumanCommits = {h1, h2}
  Edits = {}
  NoRun = NoRun
  MaxSource = 1
  HasIdentity = TRUE
  AutoMerge = TRUE
  DryRunModes = {TRUE, FALSE}
  Recurring = FALSE
SYMMETRY Symmetry
INVARIANTS
  TypeOK
  SeenWorkSurvives
  DryRunPublishesNothing
  AutoMergeEarned
PROPERTIES
  CommitsLeaveByReset
CHECK_DEADLOCK FALSE
