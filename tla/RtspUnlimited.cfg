SPECIFICATION Spec
CONSTANTS
  a = a
  b = b
  NoSource = NoSource
  Sources = {a, b}
  ReconnectAttempts <- OneUnlimited
  ReconnectInterval <- ShortInterval
  SOURCE_RESET_INTERVAL_SEC = 2
  RESET_GAP_SEC = 0
  MaxIncidents = 1
PROPERTIES ExitOnlyWhenAllGaveUp
