SPECIFICATION Spec
CONSTANTS
  a = a
  b = b
  NoSource = NoSource
  Sources = {a, b}
  ReconnectAttempts <- LimitedAttempts
  ReconnectInterval <- ShortInterval
  SOURCE_RESET_INTERVAL_SEC = 3
  RESET_GAP_SEC = 1
  MaxIncidents = 1
SYMMETRY Interchangeable
INVARIANTS OneAsyncTimer ResetsSpaced
PROPERTIES ImplementsSupervisor
