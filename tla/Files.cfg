SPECIFICATION PartsSpec
CONSTANTS
  Groups <- MCGroups
  MaxGroups = 4
  MaxSlots <- MCMaxSlots
  Networks <- Small
  Dictionaries <- Entries
  OutputValues = {0, 1, 2, 3}
  SeqLen = 6
  SOFTMAX_SIZE = 5
  MINIMAL_CHAR_LEN = 3
  InitialPrev = 100
INVARIANTS FilesTypeOK
  SlotsMatchGroups GpuPrecedence SourcesExpanded AcceptedIsReadable
  OutputsAreComplete NamesAsDarknet WeightsAsDarknet
  LabelsAsRead PlatesAreWhole
CHECK_DEADLOCK FALSE
