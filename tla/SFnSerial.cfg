SPECIFICATION FairSpec
CONSTANTS
  current = current
  blue = blue
  p1 = p1
  p2 = p2
  Procs = {p1}
  Aliases = {current, blue}
  NameContains <- MCNames
  Options <- SerialOptions
  Faults = {"api", "lag", "crash", "deletion"}
  MaxVersion = 4
  MaxRetry = 3
INVARIANTS TypeOK
PROPERTIES DeployReleases PurgeKeepsLatest PurgeCompletes RollbackOutcome AliasMovesByOneRelease CommandsEnd
