SPECIFICATION Spec
CONSTANTS
  Mtu = 256
  PktSizeMax = 5120
  RequestSizes = {12}
  AnswerSizes = {12}
  Outcomes = {"OK", "FAIL"}
  Bus = "uart"
  ResetOnError = TRUE
  Faults = {"late"}
  MaxFaults = 1
  MaxCmds = 2
INVARIANT FreshAnswer
CHECK_DEADLOCK FALSE
