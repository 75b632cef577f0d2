SPECIFICATION Spec
CONSTANTS
  v1 = v1
  v2 = v2
  v3 = v3
  entry = entry
  exit = exit
  oncoming = oncoming
  truck = truck
  car = car
  unknown = unknown
  Vehicles = {v1, v2}
  Lines = {entry}
  Directions = {}
  UNKNOWN_LABEL = unknown
  Classes = {truck}
  ObjLabel = car
  Confidences = {1}
  MAX_PROCESSED_OBJECTS_LIMIT = 1
  MaxPlates = 1
  MaxTime = 1
  MaxRestarts = 1
  MaxWriteErrors = 1
SYMMETRY Interchangeable
INVARIANTS DoneIsReported CrossingsInOrder
PROPERTIES ImplementsLedger
