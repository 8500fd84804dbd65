SPECIFICATION FairSpec
CONSTANTS
  current = current
  blue = blue
  r1 = r1
  own1 = own1
  s1 = s1
  p1 = p1
  Procs = {p1}
  Aliases = {current, blue}
  NameContains <- MCNames
  MaxVersion = 2
  MaxRetry = 2
  Rules = {r1}
  Ids = {own1}
  OwnId = own1
  Names = {s1}
  NGroups = 1
  DefaultGroup = 1
  ConfigGroup <- InDefault
  Commands <- SerialCommands
  Faults = {"api", "crash", "unseen"}
INVARIANTS IInv DoneSoFar
PROPERTIES ImplementsDeployment DeployCompletes DeleteCompletes ServesUntilDeleted ReadOnlyChangesNothing CommandsEnd
