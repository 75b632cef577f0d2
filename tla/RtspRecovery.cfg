SPECIFICATION FairSpec
CONSTANTS
  a = a
  b = b
  NoSource = NoSource
  Sources = {a, b}
  ReconnectAttempts <- OneAttempt
  ReconnectInterval <- NextSecond
  SOURCE_RESET_INTERVAL_SEC = 1
  RESET_GAP_SEC = 0
  MaxIncidents = 1
PROPERTIES RecoveryResolves QuitsWhenAllOver
