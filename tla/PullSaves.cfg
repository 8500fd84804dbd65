CONSTANTS
  Word <- MCWord
  Env <- MCEnv
  States <- MCStates
  Lower <- MCLower
  Yaml <- MCYaml
  ConfigDir <- Elsewhere
  MaxDepth = 4
  Projects <- OnlyDiamond
  Machines <- MCMachines
  Commands <- OnlyPull
  Faults = {}
SPECIFICATION FairSpec
PROPERTY PullSaves
