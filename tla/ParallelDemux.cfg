SPECIFICATION Spec
CONSTANTS
  Configs <- Parallel
  MaxSources = 2
  MaxSinks = 2
  Codecs = {"H264", "H265"}
  Other = "other"
  MaxBuilds = 2
INVARIANTS ParallelIsBuilt
CHECK_DEADLOCK FALSE
