SPECIFICATION FairSpec
CONSTANTS
  Runs = {r1}
  HumanCommits = {h1}
  Edits = {e1}
  NoRun = NoRun
  MaxSource = 1
  HasIdentity = TRUE
  AutoMerge = TRUE
  DryRunModes = {FALSE}
  Recurring = TRUE
PROPERTIES
  NextRunUpsertsPr
  DeletingUnblocks
  SettledProseStays
