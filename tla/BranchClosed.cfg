SPECIFICATION Spec
CONSTANTS
  Runs = {r1}
  HumanCommits = {h1}
  Edits = {}
  NoRun = NoRun
  MaxSource = 1
  HasIdentity = TRUE
  AutoMerge = TRUE
  DryRunModes = {FALSE}
  Recurring = TRUE
PROPERTIES
  ClearedCommitsDoNotBlock
CHECK_DEADLOCK FALSE
