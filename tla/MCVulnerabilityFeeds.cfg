CONSTANTS
  Assets = {a1}
  Cves = {"c1", "c2"}
  Nvd <- MCNvd
  Kev <- MCKev
  Broken = "broken"
  None = "none"
  Cvss <- MCCvss
  Watcher = watcher
  Operators = {operator}
  Unknown = 0
  Versions <- MCVersions
  Transfers <- MCTransfers
  Jobs <- MCJobs
  MaxTransfers = 2
  MaxUpdates = 1
  MaxRuns = 1
  MaxFaults = 1
SPECIFICATION FairSpec
INVARIANTS
  MatchesAlertedOnce
  RiskIsAsRead
PROPERTIES
  KevIsKept
  
CHECK_DEADLOCK FALSE
