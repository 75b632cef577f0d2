SPECIFICATION Spec
CONSTANTS
  NumGies = 3
  Configs <- OneChain
  PRIMARY = 1
  MaxBuffers = 2
  MaxRecreates = 1
INVARIANTS EveryPipelineWaits
