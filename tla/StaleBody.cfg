SPECIFICATION Spec
CONSTANTS
  Mtu = 256
  PktSizeMax = 5120
  RequestSizes = {12}
  AnswerSizes = {12}
  Outcomes = {"OK", "FAIL"}
  Bus = "spi"
  ResetOnError = TRUE
  Faults = {"body"}
  MaxFaults = 1
  MaxCmds = 1
INVARIANT FreshAnswer
CHECK_DEADLOCK FALSE
