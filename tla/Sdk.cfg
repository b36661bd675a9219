SPECIFICATION Spec
CONSTANTS
  PktSizeMax = 12
  FrameUnits = 6
  W = 8
  DataSizes = {6, 7, 9}
  Limit = 11
  MaxCalls = 2
INVARIANTS
  CommandIsRequest
  DataFromThisAnswer
PROPERTY
  ListedIds
CHECK_DEADLOCK FALSE
