SPECIFICATION PartsSpec
CONSTANTS
  s1 = s1
  s2 = s2
  console = console
  window = window
  Streams = {s1}
  Callers = {console, window}
  INTERVAL = 2
  MaxTime = 7
  MaxCommands = 3
  Kinds = {"file", "camera"}
  Stops = {3, 15}
  Frames = 3
  TIME_NONE = 15
  MaxSegments = 6
  MaxCreations = 3
  MaxChanges = 3
  NumInstances = 2
  Tiled = {0}
  Rows = 2
  Columns = 3
  Sources = 5
  Keys = {"1", "2", "c", "z"}
  Clicked = {1, 5}
  MaxKeys = 4
  MaxTyped = 2
  MaxClicks = 1
  MaxRecreates = 1
SYMMETRY Interchangeable
INVARIANTS MeasuredOnce RatesFinite
  UsedWhileAlive EndIsFollowed
  ActiveIsASource SelectionAgrees TilersAreAlive
PROPERTIES NeverBackInTime
CHECK_DEADLOCK FALSE
