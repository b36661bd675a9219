SPECIFICATION Spec
CONSTANTS
  Mtu = 256
  PktSizeMax = 500
  RequestSizes = {12, 300}
  AnswerSizes = {499, 500, 600}
  Outcomes = {"OK", "FAIL"}
  Bus = "spi"
  ResetOnError = TRUE
  Faults = {"lose", "corrupt", "late", "malformed", "crash"}
  MaxFaults = 2
  MaxCmds = 2
INVARIANTS
  WithinBuffers
  FreshAnswer
  SentMeansTaken
  RefusedExactly
CHECK_DEADLOCK FALSE
