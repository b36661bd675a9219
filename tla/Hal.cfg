SPECIFICATION FairSpec
CONSTANTS
  Parts = {"spi", "nrf", "uart", "ring", "button", "time", "sketch"}
  Block = 3
  SpiSizes = {0, 1, 2, 3, 4, 6}
  WriteSizes = {1, 2, 4}
  MaxErrors = 2
  RingSize = 4
  Numbers = 9
  ReadSizes = {1, 2, 5}
  Slack = 1
  MaxStops = 1
  W = 5
  Delays = {0, 1, 3}
INVARIANTS
  TypeOK
  CallsApart
  ClocksWhatItMust
  AllMeansSent
  FailsForCause
  FitsBuffer
  InOrder
  NothingLost
  KnowsLevel
  TimeOfPress
  LastPressRead
PROPERTIES
  SpiBlocks
  SpiReturns
  NrfBlocks
  NrfReturns
  WriteReturns
  RingQueues
  ReceiveCompletes
  WaitsLongEnough
CHECK_DEADLOCK FALSE
