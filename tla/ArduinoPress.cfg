SPECIFICATION Spec
CONSTANTS
  Parts = {"sketch"}
  Block = 3
  SpiSizes = {0, 1, 2, 3, 4, 6}
  WriteSizes = {1, 2, 4}
  MaxErrors = 2
  RingSize = 4
  Numbers = 9
  ReadSizes = {1, 2, 5}
  Slack = 1
  MaxStops = 1
  W = 5
  Delays = {0, 1, 3}
PROPERTY SetAtRelease
CHECK_DEADLOCK FALSE
