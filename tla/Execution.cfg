SPECIFICATION FairSpec
CONSTANTS
  Options <- AllOptions
  Faults = {"api", "crash"}
INVARIANTS IInv
PROPERTIES SuccessMeansEnded StopsOnlyWhenInterrupted FailureReported CommandEnds
