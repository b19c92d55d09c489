SPECIFICATION FairSpec
CONSTANTS
  Timeouts <- SomeTimeouts
  Retries = {0, 1, 2, 5}
  PackageManagers = {"pnpm", "bun", "npm"}
  Modes = {"false", "warn", "no-auto-merge"}
INVARIANTS
  TypeOK
  TokenRevoked
  CleanSlate
  PinnedManagerWrites
  GateIsProven
  WaitsFit
PROPERTIES
  JobEnds
CHECK_DEADLOCK FALSE
