SPECIFICATION Spec
CONSTANTS
  current = current
  blue = blue
  s1 = s1
  s2 = s2
  p1 = p1
  Procs = {p1}
  Names = {s1, s2}
  ConfigGroup <- AllInDefault
  Timing <- West
  MaxTime = 3
  Aliases = {current, blue}
  Requests <- SerialRequests
  NGroups = 2
  DefaultGroup = 1
  Faults = {"api", "crash", "operator"}
INVARIANTS IInv
PROPERTIES SchedulesAsConfigured OthersKept StateKept EarlyByItsZoneOnly
