SPECIFICATION Spec
CONSTANTS
  current = current
  blue = blue
  p1 = p1
  p2 = p2
  Procs = {p1, p2}
  Aliases = {current, blue}
  NameContains <- MCNames
  Options <- ConcurrentOptions
  Faults = {"api", "list", "operator"}
  MaxVersion = 3
  MaxRetry = 1
SYMMETRY Symmetry
INVARIANTS IInv SomeVersionLeft
PROPERTIES NewestOnlyByRollback ImplementsStore
