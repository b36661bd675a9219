SPECIFICATION Spec
CONSTANTS
  N = 128
  Numbers = 257
  Sizes = {4}
  Slack = 2
  MaxStops = 0
INVARIANT FitsBuffer
CHECK_DEADLOCK FALSE
