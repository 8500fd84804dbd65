CONSTANTS
  Word <- MCWord
  Env <- MCEnv
  States <- MCStates
  Lower <- MCLower
  Yaml <- MCYaml
  ConfigDir <- Elsewhere
  MaxDepth = 4
  Projects <- MCProjects
  Machines <- MCMachines
  Commands <- MCCommands
  Faults = {"api", "crash"}
SPECIFICATION FairSpec
INVARIANTS IInv NestingBounded MeansSoFar LoadsAsSaved
PROPERTIES LoadsAsMeant CommandsEnd
