SPECIFICATION FairSpec
CONSTANTS
  Mtu = 16
  PktSizeMax = 4
  RequestSizes = {1, 3}
  AnswerSizes = {1, 3}
  Outcomes = {"OK"}
  Bus = "spi"
  ResetOnError = TRUE
  Faults = {"lose", "corrupt", "late", "ioerror", "body", "malformed", "crash"}
  MaxFaults = 2
  MaxCmds = 2
PROPERTIES
  EveryCallReturns
  ResetRecovers
CHECK_DEADLOCK FALSE
