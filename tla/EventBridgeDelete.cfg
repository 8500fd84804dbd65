SPECIFICATION Spec
CONSTANTS
  current = current
  blue = blue
  r1 = r1
  r2 = r2
  own = own
  extra = extra
  p1 = p1
  Rules = {r1, r2}
  Ids = {own, extra}
  OwnId = own
  Aliases = {current, blue}
  Procs = {p1}
  Requests <- SerialRequests
  Faults = {"operator"}
PROPERTIES NoTargetLeftBehind
