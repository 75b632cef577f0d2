SPECIFICATION Spec
CONSTANTS
  Configs <- Graphs
  MaxSources = 2
  MaxSinks = 2
  Codecs = {"H264", "H265"}
  Other = "other"
  MaxBuilds = 2
INVARIANTS TypeOK FramesArrive BranchesQueued StagesInOrder BuildsUnlessFaulty
PROPERTIES EosEndsFiles
CHECK_DEADLOCK FALSE
