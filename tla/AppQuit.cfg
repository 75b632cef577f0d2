SPECIFICATION FairSpec
CONSTANTS
  NumInstances = 1
  Rtsp = {1}
  Recreated = {}
  MaxMessages = 1
  MaxCommands = 0
  MaxRecreates = 0
  MaxFailures = 0
PROPERTIES QuitIsObeyed
