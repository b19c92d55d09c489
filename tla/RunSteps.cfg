SPECIFICATION FairSpec
CONSTANTS
  PackageManagers <- AllPackageManagers
  DryRuns = {TRUE, FALSE}
  AutoMerges = {TRUE, FALSE}
INVARIANTS
  TypeOK
  ReportedEditsInstalled
  ReportsAgree
PROPERTIES
  KeepsContract
  RunEnds
CHECK_DEADLOCK FALSE
