SPECIFICATION FairSpec
CONSTANTS
  NumGies = 3
  Configs <- ThreeGies
  PRIMARY = 1
  MaxBuffers = 2
  MaxRecreates = 1
INVARIANTS TypeOK TreeAsConfigured AlwaysLinked FirstPipelineWaits
PROPERTIES BuffersLeave
