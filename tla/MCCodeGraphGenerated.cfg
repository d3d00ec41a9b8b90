SPECIFICATION Spec
CONSTANTS
  Walk <- MCWalk
  Names <- MCNames
  Sources <- MCSources
  NoName = "none"
  Layers = {"call", "data_flow", "control_flow", "dependency", "state_transition", "resource", "security", "deployment"}
  Ids <- MCIds
  Repo = "base"
  BuildSystems = {"python"}
  Dotted = {"os.path"}
  NoFile = "no file"
  Matches <- MCMatches
  AuthPattern <- MCAuthPattern
  PyFile <- MCPyFile
  MaxEntryPoints = 2
  MaxScanNodes = 1
  MaxFallbackEntryPoints = 1
  MaxSensitiveFlows = 1
  MinCacheFanIn = 1
  HighCacheFanIn = 2
  MinParallelSuccessors = 2
  MinBottleneckScore = 3
  MediumCoupling = 3
INVARIANT EveryNodeGenerated
CHECK_DEADLOCK FALSE
